----------------------------- MODULE EthRx_proofs -----------------------------
(***************************************************************************)
(* Proofs about the Ethernet receive path, for a ring of any size and any  *)
(* number of frames of one or two descriptors, with pbuf_alloc and         *)
(* tcpip_input failing at will.  The properties hold until the task gives  *)
(* back a descriptor at NULL, as their definitions say, as it does when it *)
(* meets a long frame half stored.                                         *)
(***************************************************************************)
EXTENDS EthRx, TLAPS

(* What the task's variables say of each other. *)
Working ==
  /\ pc \in {"wait", "input"} => segCount = 0
  /\ pc = "scan" => segCount <= 1 /\ frame = NULL /\ p = 0
  /\ pc = "scan" /\ ~nullWrite => scanned = segCount
  /\ pc = "copy" => segCount # 0 /\ frame \in Desc
  /\ segCount # 0 /\ frame = NULL => fsDesc \in Desc

(* The descriptors the task works on are the oldest ones held, just before *)
(* the one it will look at next.  A first segment is followed by its last, *)
(* which has a descriptor waiting for it while DMA is halfway.             *)
Segments ==
  ~nullWrite =>
    /\ segCount <= Held
    /\ segCount # 0 => toGet = Ahead(Oldest, segCount)
    /\ pc = "scan" /\ segCount # 0 => seg[fsDesc] = "first"
    /\ halfway => Held < ETH_RXBUFNB
    /\ \A n \in 0 .. Held - 1 : seg[Ahead(Oldest, n)] = "first" =>
         \/ n = Held - 1 /\ halfway
         \/ n # Held - 1 /\ seg[Ahead(Oldest, n + 1)] = "last"

(* The copy in p is newer than anything passed on, and its descriptors are *)
(* released or about to be.                                                *)
Passing ==
  ~nullWrite =>
    /\ input <= released
    /\ pc \in {"release", "input"} /\ p # 0 => input < p /\ p <= released + segCount
    /\ pc = "input" => p # 0

Inv == TypeOK /\ Working /\ RingWindow /\ Segments /\ Passing

-----------------------------------------------------------------------------
(* Arithmetic of the ring.  A place is reached by its distance. *)
LEMMA AheadInRing ==
  ASSUME NEW i \in Desc, NEW n \in 0 .. ETH_RXBUFNB
  PROVE  /\ Ahead(i, n) \in Desc
         /\ n < ETH_RXBUFNB => Behind(i, Ahead(i, n)) = n
         /\ n < ETH_RXBUFNB => Ahead(i, n + 1) = NextDesc(Ahead(i, n))
         /\ Ahead(i, 0) = i /\ Ahead(i, ETH_RXBUFNB) = i
  BY EthConstants DEF Desc, Ahead, Behind, NextDesc

(* The distance determines the place. *)
LEMMA BehindInRing ==
  ASSUME NEW i \in Desc, NEW j \in Desc
  PROVE  /\ Behind(i, j) \in 0 .. ETH_RXBUFNB - 1
         /\ Ahead(i, Behind(i, j)) = j
         /\ Behind(i, i) = 0
  BY EthConstants DEF Desc, Ahead, Behind

(* Seen from the next descriptor every other place is one nearer. *)
LEMMA BehindNext ==
  ASSUME NEW i \in Desc
  PROVE  /\ NextDesc(i) \in Desc
         /\ \A j \in Desc : Behind(NextDesc(i), j) =
              IF j = i THEN ETH_RXBUFNB - 1 ELSE Behind(i, j) - 1
         /\ \A n \in 1 .. ETH_RXBUFNB : Ahead(NextDesc(i), n - 1) = Ahead(i, n)
  BY EthConstants DEF Desc, Ahead, Behind, NextDesc

(* The window starts in the ring, and the counters are numbers. *)
LEMMA WindowStarts ==
  ASSUME Inv, ~nullWrite
  PROVE  /\ Oldest \in Desc /\ dmaNext \in Desc /\ toGet \in Desc
         /\ Held \in 0 .. ETH_RXBUFNB /\ dmaNext = Ahead(Oldest, Held)
         /\ segCount \in 0 .. 2 /\ stored \in Nat /\ released \in Nat
         /\ \A i \in Desc : own[i] = "cpu" <=> Behind(Oldest, i) < Held
  BY DEF Inv, TypeOK, Working, RingWindow, Oldest

(* DMA finds no descriptor only when every one is held. *)
LEMMA NoDescriptorMeansFull ==
  ASSUME Inv, ~nullWrite
  PROVE  own[dmaNext] = "cpu" <=> Held = ETH_RXBUFNB
<1>1. Behind(Oldest, dmaNext) \in 0 .. ETH_RXBUFNB - 1
  BY WindowStarts, BehindInRing
<1>2. Held < ETH_RXBUFNB => Behind(Oldest, dmaNext) = Held
  BY WindowStarts, AheadInRing
<1>3. own[dmaNext] = "cpu" <=> Behind(Oldest, dmaNext) < Held
  BY WindowStarts
<1> QED
  BY <1>1, <1>2, <1>3, WindowStarts, EthConstants

(* A descriptor that is held has the number that its place gives it. *)
LEMMA OldestContent ==
  ASSUME Inv, ~nullWrite, 0 < Held
  PROVE  content[Oldest] = released + 1
<1>1. Behind(Oldest, Oldest) = 0 /\ Oldest \in Desc
  BY WindowStarts, BehindInRing
<1>2. content[Oldest] = released + 1 + 0
  BY <1>1 DEF Inv, RingWindow
<1> QED
  BY <1>2, WindowStarts

-----------------------------------------------------------------------------
(* A freshly initialised ring belongs to DMA. *)
LEMMA InitInv == Init => Inv
<1> SUFFICES ASSUME Init PROVE Inv
  OBVIOUS
<1>1. TypeOK
  BY EthConstants DEF Init, TypeOK, Desc, NULL
<1>2. Working /\ Passing
  BY EthConstants DEF Init, Working, Passing
<1>3. Held = 0 /\ Oldest = 0 /\ 0 \in Desc
  BY EthConstants DEF Init, Held, Oldest, Desc
<1>4. RingWindow
  <2>1. Ahead(0, 0) = 0 /\ \A i \in Desc : ~(Behind(0, i) < 0)
    BY EthConstants DEF Ahead, Behind, Desc
  <2> QED
    BY <1>3, <2>1, EthConstants DEF Init, RingWindow
<1>5. Segments
  BY <1>3, EthConstants DEF Init, Segments
<1> QED
  BY <1>1, <1>2, <1>4, <1>5 DEF Inv

(* Steps after which the window and the task's place in it are the same. *)
LEMMA WindowStays ==
  ASSUME Inv, ~nullWrite, Oldest' = Oldest, Held' = Held,
         UNCHANGED <<own, seg, content, dmaNext, released, segCount, toGet, halfway>>,
         pc' = "scan" /\ segCount' # 0 => pc = "scan" /\ fsDesc' = fsDesc
  PROVE  RingWindow' /\ Segments'
  BY DEF Inv, RingWindow, Segments

(* The hardware's steps that store nothing. *)
LEMMA DmaIdleInv ==
  ASSUME Inv, FrameArrives \/ DmaSuspends
  PROVE  Inv'
<1> USE DEF FrameArrives, DmaSuspends, ringVars, isrVars, taskVars
<1>1. TypeOK'
  BY DEF Inv, TypeOK
<1>2. Working' /\ Passing'
  BY DEF Inv, Working, Passing
<1>3. CASE nullWrite
  BY <1>1, <1>2, <1>3 DEF Inv, RingWindow, Segments
<1>4. CASE ~nullWrite
  <2>1. Oldest' = Oldest /\ Held' = Held
    BY DEF Oldest, Held
  <2> QED
    BY <1>1, <1>2, <1>4, <2>1, WindowStays DEF Inv
<1> QED
  BY <1>3, <1>4

(* DMA fills a descriptor behind the ones that are held. *)
LEMMA CloseKeepsWindow ==
  ASSUME Inv, ~nullWrite, NEW bits, Close(bits), Held < ETH_RXBUFNB,
         UNCHANGED taskVars
  PROVE  /\ Oldest' = Oldest /\ Held' = Held + 1
         /\ RingWindow'
         /\ seg'[Ahead(Oldest, Held)] = bits
         /\ \A n \in 0 .. Held - 1 : seg'[Ahead(Oldest, n)] = seg[Ahead(Oldest, n)]
<1> DEFINE old == Oldest
<1>1. old \in Desc /\ dmaNext \in Desc /\ Held \in 0 .. ETH_RXBUFNB
      /\ dmaNext = Ahead(old, Held) /\ stored \in Nat /\ released \in Nat
  BY WindowStarts
<1>2. Behind(old, dmaNext) = Held
  BY <1>1, AheadInRing
<1>3. Held' = Held + 1 /\ Oldest' = old
  BY <1>1 DEF Held, Oldest, Close, taskVars
<1>4. RingWindow'
  <2>1. dmaNext' = Ahead(old, Held + 1)
    BY <1>1, AheadInRing DEF Close
  <2>2. ASSUME NEW i \in Desc
        PROVE  Behind(old, i) < Held + 1 <=> (i = dmaNext \/ Behind(old, i) < Held)
    BY <1>1, <1>2, BehindInRing, EthConstants
  <2>3. \A i \in Desc : own'[i] = "cpu" <=> Behind(old, i) < Held + 1
    BY <1>1, <2>2 DEF Inv, RingWindow, TypeOK, Close
  <2>4. ASSUME NEW i \in Desc, Behind(old, i) < Held + 1
        PROVE  content'[i] = released + 1 + Behind(old, i)
    <3>1. CASE i = dmaNext
      BY <1>1, <1>2, <3>1 DEF Inv, TypeOK, Close, Held
    <3>2. CASE i # dmaNext
      BY <1>1, <2>2, <2>4, <3>2 DEF Inv, RingWindow, TypeOK, Close
    <3> QED
      BY <3>1, <3>2
  <2>5. released' = released /\ Held + 1 \in 0 .. ETH_RXBUFNB
    BY <1>1, EthConstants DEF taskVars
  <2> QED
    BY <1>3, <2>1, <2>3, <2>4, <2>5 DEF RingWindow
<1>5. seg'[Ahead(old, Held)] = bits
  BY <1>1 DEF Close, Inv, TypeOK
<1>6. ASSUME NEW n \in 0 .. Held - 1
      PROVE  seg'[Ahead(old, n)] = seg[Ahead(old, n)]
  <2>1. n \in 0 .. ETH_RXBUFNB /\ n < ETH_RXBUFNB /\ n # Held
    BY <1>1, EthConstants
  <2>2. Ahead(old, n) \in Desc /\ Ahead(old, n) # dmaNext
    BY <1>1, <1>2, <2>1, AheadInRing
  <2> QED
    BY <2>2 DEF Close, Inv, TypeOK
<1> QED
  BY <1>3, <1>4, <1>5, <1>6

(* A whole frame, or the first or the last part of one, keeps the order of *)
(* the segments.                                                           *)
LEMMA CloseKeepsSegments ==
  ASSUME Inv, ~nullWrite, NEW bits, Close(bits), Held < ETH_RXBUFNB,
         UNCHANGED taskVars,
         halfway => bits = "last",
         bits = "first" <=> halfway',
         halfway' => Held + 1 < ETH_RXBUFNB
  PROVE  Segments'
<1> DEFINE old == Oldest
<1>1. Oldest' = old /\ Held' = Held + 1 /\ seg'[Ahead(old, Held)] = bits
      /\ \A n \in 0 .. Held - 1 : seg'[Ahead(old, n)] = seg[Ahead(old, n)]
  BY CloseKeepsWindow
<1>2. old \in Desc /\ Held \in 0 .. ETH_RXBUFNB /\ segCount \in 0 .. 2
  BY WindowStarts
<1>3. segCount' <= Held'
  BY <1>1, <1>2 DEF Inv, Segments, taskVars
<1>4. segCount' # 0 => toGet' = Ahead(Oldest', segCount')
  BY <1>1 DEF Inv, Segments, taskVars
<1>5. ASSUME pc = "scan", segCount # 0
      PROVE  seg'[fsDesc] = "first"
  <2>1. old = fsDesc /\ seg[fsDesc] = "first" /\ 0 \in 0 .. Held - 1
    BY <1>2, <1>5 DEF Oldest, Inv, Working, Segments
  <2> QED
    BY <1>1, <1>2, <2>1, AheadInRing, EthConstants
<1>6. ASSUME NEW n \in 0 .. Held, seg'[Ahead(old, n)] = "first"
      PROVE  \/ n = Held /\ halfway'
             \/ n # Held /\ seg'[Ahead(old, n + 1)] = "last"
  <2>1. CASE n = Held
    BY <1>1, <1>6, <2>1
  <2>2. CASE n = Held - 1 /\ n # Held
    <3>1. halfway
      BY <1>1, <1>2, <1>6, <2>2 DEF Inv, Segments
    <3> QED
      BY <1>1, <1>2, <2>2, <3>1
  <2>3. CASE n # Held - 1 /\ n # Held
    <3>1. n \in 0 .. Held - 1 /\ n + 1 \in 0 .. Held - 1
      BY <1>2, <2>3
    <3>2. seg[Ahead(old, n + 1)] = "last"
      BY <1>1, <1>6, <2>3, <3>1 DEF Inv, Segments
    <3> QED
      BY <1>1, <2>3, <3>1, <3>2
  <2> QED
    BY <2>1, <2>2, <2>3
<1>7. \A n \in 0 .. Held' - 1 : seg'[Ahead(Oldest', n)] = "first" =>
        \/ n = Held' - 1 /\ halfway'
        \/ n # Held' - 1 /\ seg'[Ahead(Oldest', n + 1)] = "last"
  <2>1. Held' - 1 = Held
    BY <1>1, <1>2
  <2> QED
    BY <1>1, <1>6, <2>1
<1>8. halfway' => Held' < ETH_RXBUFNB
  BY <1>1
<1>9. pc' = "scan" /\ segCount' # 0 => seg'[fsDesc'] = "first"
  BY <1>5 DEF taskVars
<1> QED
  BY <1>3, <1>4, <1>7, <1>8, <1>9 DEF Segments

(* The three ways in which DMA stores. *)
LEMMA DmaStoresInv ==
  ASSUME Inv, DmaStores \/ DmaStoresFirst \/ DmaStoresLast
  PROVE  Inv'
<1>1. PICK bits \in {"only", "first", "last"} : Close(bits)
  BY DEF DmaStores, DmaStoresFirst, DmaStoresLast
<1>2. UNCHANGED taskVars
  BY DEF DmaStores, DmaStoresFirst, DmaStoresLast
<1>3. NextDesc(dmaNext) \in Desc
  BY BehindNext DEF Inv, TypeOK
<1>4. TypeOK'
  BY <1>3 DEF Inv, TypeOK, DmaStores, DmaStoresFirst, DmaStoresLast, Close,
     isrVars, taskVars
<1>5. Working' /\ Passing'
  BY <1>2 DEF Inv, Working, Passing, taskVars
<1>6. CASE nullWrite
  BY <1>2, <1>4, <1>5, <1>6 DEF Inv, RingWindow, Segments, taskVars
<1>7. CASE ~nullWrite
  <2>1. Held \in 0 .. ETH_RXBUFNB
    BY <1>7, WindowStarts
  <2>2. CASE DmaStores
    <3>1. Close("only") /\ ~halfway /\ ~halfway' /\ own[dmaNext] = "dma"
      BY <2>2 DEF DmaStores
    <3>2. Held < ETH_RXBUFNB
      BY <1>7, <2>1, <3>1, NoDescriptorMeansFull, EthConstants
    <3>3. RingWindow'
      BY <1>2, <1>7, <3>1, <3>2, CloseKeepsWindow
    <3>4. Segments'
      BY <1>2, <1>7, <3>1, <3>2, CloseKeepsSegments
    <3> QED
      BY <1>4, <1>5, <3>3, <3>4 DEF Inv
  <2>3. CASE DmaStoresFirst
    <3>1. Close("first") /\ ~halfway /\ halfway' /\ own[dmaNext] = "dma"
          /\ own[NextDesc(dmaNext)] = "dma"
      BY <2>3 DEF DmaStoresFirst
    <3>2. Held < ETH_RXBUFNB
      BY <1>7, <2>1, <3>1, NoDescriptorMeansFull, EthConstants
    <3>3. Held + 1 < ETH_RXBUFNB
      <4>1. SUFFICES ASSUME Held + 1 = ETH_RXBUFNB PROVE FALSE
        BY <2>1, <3>2, EthConstants
      <4>2. NextDesc(dmaNext) = Oldest /\ Oldest \in Desc
        BY <1>7, <2>1, <3>2, <4>1, WindowStarts, AheadInRing
      <4>3. Behind(Oldest, Oldest) < Held
        BY <2>1, <4>1, <4>2, BehindInRing, EthConstants
      <4> QED
        BY <1>7, <3>1, <4>2, <4>3, WindowStarts
    <3>4. RingWindow'
      BY <1>2, <1>7, <3>1, <3>2, CloseKeepsWindow
    <3>5. Segments'
      BY <1>2, <1>7, <3>1, <3>2, <3>3, CloseKeepsSegments
    <3> QED
      BY <1>4, <1>5, <3>4, <3>5 DEF Inv
  <2>4. CASE DmaStoresLast
    <3>1. Close("last") /\ halfway /\ ~halfway'
      BY <2>4 DEF DmaStoresLast
    <3>2. Held < ETH_RXBUFNB
      BY <1>7, <3>1 DEF Inv, Segments
    <3>3. RingWindow'
      BY <1>2, <1>7, <3>1, <3>2, CloseKeepsWindow
    <3>4. Segments'
      BY <1>2, <1>7, <3>1, <3>2, CloseKeepsSegments
    <3> QED
      BY <1>4, <1>5, <3>3, <3>4 DEF Inv
  <2> QED
    BY <2>2, <2>3, <2>4
<1> QED
  BY <1>6, <1>7

(* The interrupt handler touches neither the ring nor the task. *)
LEMMA IsrInv ==
  ASSUME Inv, Isr
  PROVE  Inv'
<1> USE DEF Isr, IsrGives, IsrClears, ringVars, dmaVars, hwVars, taskVars
<1>1. TypeOK'
  BY DEF Inv, TypeOK
<1>2. Working' /\ Passing'
  BY DEF Inv, Working, Passing
<1>3. CASE nullWrite
  BY <1>1, <1>2, <1>3 DEF Inv, RingWindow, Segments
<1>4. CASE ~nullWrite
  <2>1. Oldest' = Oldest /\ Held' = Held
    BY DEF Oldest, Held
  <2> QED
    BY <1>1, <1>2, <1>4, <2>1, WindowStays DEF Inv
<1> QED
  BY <1>3, <1>4

-----------------------------------------------------------------------------
(* Steps of the task that leave the ring alone. *)
LEMMA TaskIdleInv ==
  ASSUME Inv, TakeSemaphore \/ ScanEnds \/ ResumeDma \/ InputAccepts \/ InputRefuses
  PROVE  Inv'
<1> USE DEF TakeSemaphore, ScanEnds, ResumeDma, InputAccepts, InputRefuses,
            ringVars, dmaVars, hwVars, isrVars
<1>1. TypeOK'
  BY EthConstants DEF Inv, TypeOK
<1>2. Working'
  BY DEF Inv, Working, TypeOK
<1>3. Passing'
  BY DEF Inv, Passing, Working, TypeOK
<1>4. CASE nullWrite
  BY <1>1, <1>2, <1>3, <1>4 DEF Inv, RingWindow, Segments
<1>5. CASE ~nullWrite
  <2>1. Oldest' = Oldest /\ Held' = Held
    BY DEF Inv, Working, Oldest, Held
  <2>2. pc' = "scan" => segCount' = 0
    BY DEF Inv, Working
  <2>3. UNCHANGED <<own, seg, content, dmaNext, released, segCount, toGet, halfway>>
    OBVIOUS
  <2> QED
    BY <1>1, <1>2, <1>3, <1>5, <2>1, <2>2, <2>3, WindowStays DEF Inv
<1> QED
  BY <1>4, <1>5

(* A descriptor that the task may look at next is behind those it has.     *)
LEMMA NextIsHeld ==
  ASSUME Inv, ~nullWrite, own[toGet] = "cpu", segCount < ETH_RXBUFNB
  PROVE  segCount < Held /\ toGet = Ahead(Oldest, segCount)
<1>1. toGet = Ahead(Oldest, segCount)
  BY WindowStarts, AheadInRing, EthConstants DEF Inv, Segments, Oldest
<1>2. Behind(Oldest, toGet) = segCount
  BY <1>1, WindowStarts, AheadInRing, EthConstants
<1> QED
  BY <1>1, <1>2, WindowStarts

(* The scan finds the oldest frame that is held. *)
LEMMA ScanSegmentInv ==
  ASSUME Inv, ScanSegment
  PROVE  Inv'
<1>1. /\ segCount \in 0 .. 1 /\ toGet \in Desc /\ frame = NULL /\ p = 0
      /\ pc = "scan" /\ own[toGet] = "cpu" /\ fsDesc \in Desc \cup {NULL}
      /\ scanned \in 0 .. ETH_RXBUFNB - 1
      /\ segCount # 0 => fsDesc \in Desc
  BY EthConstants DEF ScanSegment, Inv, Working, TypeOK
<1>2. UNCHANGED <<ringVars, dmaVars, isrVars, sem, p, released, input, nullWrite>>
      /\ scanned' = scanned + 1 /\ toGet' = NextDesc(toGet)
  BY DEF ScanSegment
<1>3. NextDesc(toGet) \in Desc
  BY <1>1, BehindNext
<1>4. /\ segCount' \in 1 .. 2 /\ fsDesc' \in Desc
      /\ \/ pc' = "scan" /\ frame' = NULL /\ segCount' = 1
         \/ pc' = "copy" /\ frame' = fsDesc'
  BY <1>1 DEF ScanSegment
<1>5. TypeOK'
  <2>1. scanned' \in 0 .. ETH_RXBUFNB /\ pc' \in {"scan", "copy"}
        /\ frame' \in Desc \cup {NULL}
    BY <1>1, <1>2, <1>4, EthConstants
  <2> QED
    BY <1>2, <1>3, <1>4, <2>1 DEF Inv, TypeOK, ringVars, dmaVars, hwVars, isrVars
<1>6. Passing'
  BY <1>2, <1>4 DEF Inv, Passing
<1>7. CASE nullWrite
  <2>1. Working'
    BY <1>1, <1>2, <1>4, <1>7 DEF Working
  <2> QED
    BY <1>2, <1>5, <1>6, <1>7, <2>1 DEF Inv, RingWindow, Segments
<1>8. CASE ~nullWrite
  <2> DEFINE old == Oldest
  <2>1. segCount < Held /\ toGet = Ahead(old, segCount)
    BY <1>1, <1>8, NextIsHeld, EthConstants
  <2>2. /\ old \in Desc /\ Held \in 0 .. ETH_RXBUFNB
        /\ old = IF segCount = 0 THEN toGet ELSE fsDesc
    BY <1>1, <1>8, WindowStarts DEF Oldest
  <2>3. segCount = 1 => seg[toGet] = "last"
    <3> SUFFICES ASSUME segCount = 1 PROVE seg[toGet] = "last"
      OBVIOUS
    <3>1. seg[Ahead(old, 0)] = "first"
      BY <1>1, <1>8, <2>2, AheadInRing, EthConstants DEF Inv, Segments
    <3>2. 0 \in 0 .. Held - 1 /\ 0 # Held - 1 /\ 0 + 1 = 1
      BY <2>1, <2>2
    <3>3. seg[Ahead(old, 0 + 1)] = "last"
      BY <1>8, <3>1, <3>2 DEF Inv, Segments
    <3> QED
      BY <2>1, <3>2, <3>3
  <2>4. /\ segCount' = segCount + 1
        /\ fsDesc' = old
        /\ pc' = "scan" => seg[old] = "first"
    BY <1>1, <2>2, <2>3 DEF ScanSegment
  <2>5. Oldest' = old /\ Held' = Held
    BY <1>1, <1>2, <1>4, <2>2, <2>4 DEF Oldest, Held, dmaVars, hwVars
  <2>6. toGet' = Ahead(old, segCount')
    BY <1>1, <1>2, <2>1, <2>2, <2>4, AheadInRing, EthConstants
  <2>7. RingWindow'
    BY <1>2, <1>8, <2>5 DEF Inv, RingWindow, ringVars, dmaVars, hwVars
  <2>8. Segments'
    <3>1. segCount' <= Held'
      BY <1>1, <2>1, <2>2, <2>4, <2>5
    <3>2. pc' = "scan" => seg'[fsDesc'] = "first"
      BY <1>2, <2>4 DEF ringVars
    <3> QED
      BY <1>2, <1>8, <2>5, <2>6, <3>1, <3>2 DEF Inv, Segments, ringVars, dmaVars, hwVars
  <2>9. Working'
    BY <1>1, <1>2, <1>4, <1>8, <2>4 DEF Inv, Working
  <2> QED
    BY <1>5, <1>6, <2>7, <2>8, <2>9 DEF Inv
<1> QED
  BY <1>7, <1>8

(* The frame is copied before it is released. *)
LEMMA CopyFrameInv ==
  ASSUME Inv, CopyFrame
  PROVE  Inv'
<1>1. segCount # 0 /\ segCount \in 0 .. 2 /\ frame \in Desc /\ pc = "copy"
  BY DEF CopyFrame, Inv, Working, TypeOK
<1>2. UNCHANGED <<ringVars, hwVars, isrVars, sem, toGet, segCount, fsDesc, frame,
                  scanned, released, input, nullWrite>> /\ pc' = "release"
  BY DEF CopyFrame
<1>3. p' = 0 \/ p' = content[frame]
  BY DEF CopyFrame
<1>4. TypeOK'
  BY <1>1, <1>2, <1>3 DEF Inv, TypeOK, ringVars, dmaVars, hwVars, isrVars
<1>5. Working'
  BY <1>2 DEF Inv, Working
<1>6. CASE nullWrite
  BY <1>2, <1>4, <1>5, <1>6 DEF Inv, RingWindow, Segments, Passing
<1>7. CASE ~nullWrite
  <2>1. Oldest = frame /\ Oldest' = Oldest /\ Held' = Held
    BY <1>1, <1>2, EthConstants DEF Oldest, Held, dmaVars, hwVars, Desc, NULL
  <2>2. segCount <= Held /\ Held \in 0 .. ETH_RXBUFNB /\ released \in Nat
    BY <1>7, WindowStarts DEF Inv, Segments
  <2>3. content[frame] = released + 1
    BY <1>1, <1>7, <2>1, <2>2, OldestContent
  <2>4. Passing'
    BY <1>1, <1>2, <1>3, <1>7, <2>2, <2>3 DEF Inv, Passing, TypeOK
  <2>5. RingWindow' /\ Segments'
    BY <1>2, <1>7, <2>1, WindowStays DEF ringVars, dmaVars, hwVars
  <2> QED
    BY <1>4, <1>5, <2>4, <2>5 DEF Inv
<1> QED
  BY <1>6, <1>7

(* Releasing the oldest descriptor moves the window on by one. *)
LEMMA ReleaseKeepsWindow ==
  ASSUME Inv, ~nullWrite, ReleaseSegment, frame # NULL
  PROVE  RingWindow' /\ Segments'
<1>1. /\ segCount \in 1 .. 2 /\ frame \in Desc /\ Oldest = frame
      /\ toGet = Ahead(frame, segCount) /\ segCount <= Held /\ pc = "release"
      /\ own \in [Desc -> {"dma", "cpu"}]
  BY DEF ReleaseSegment, Inv, TypeOK, Segments, Oldest
<1>2. own' = [own EXCEPT ![frame] = "dma"] /\ frame' = NextDesc(frame)
      /\ segCount' = segCount - 1 /\ released' = released + 1
  BY DEF ReleaseSegment
<1>3. UNCHANGED <<seg, content, dmaNext, stored, halfway, pc, toGet, fsDesc>>
  BY DEF ReleaseSegment, dmaVars, hwVars
<1>4. Held \in 1 .. ETH_RXBUFNB /\ released \in Nat /\ stored \in Nat
      /\ dmaNext = Ahead(frame, Held) /\ Held' = Held - 1
  BY <1>1, <1>2, <1>3, WindowStarts, EthConstants DEF Held
<1>5. segCount - 1 \in 0 .. 1 /\ segCount \in 1 .. ETH_RXBUFNB
      /\ NextDesc(frame) \in Desc /\ NULL \notin Desc
  <2>1. NULL \notin Desc
    BY EthConstants DEF NULL, Desc
  <2>2. NextDesc(frame) \in Desc
    BY <1>1, BehindNext
  <2> QED
    BY <1>1, <2>1, <2>2, EthConstants
<1>6. toGet' = Ahead(NextDesc(frame), segCount')
  BY <1>1, <1>2, <1>3, <1>5, BehindNext
<1>7. Oldest' = NextDesc(frame)
  <2>1. CASE segCount' = 0
    BY <1>5, <1>6, <2>1, AheadInRing DEF Oldest
  <2>2. CASE segCount' # 0
    BY <1>2, <1>5, <2>2 DEF Oldest
  <2> QED
    BY <2>1, <2>2
<1>8. RingWindow'
  <2>1. dmaNext' = Ahead(NextDesc(frame), Held - 1)
    BY <1>1, <1>3, <1>4, BehindNext
  <2>2. ASSUME NEW i \in Desc
        PROVE  /\ own'[i] = "cpu" <=> Behind(NextDesc(frame), i) < Held - 1
               /\ Behind(NextDesc(frame), i) < Held - 1 =>
                    content[i] = released + 2 + Behind(NextDesc(frame), i)
    <3>1. CASE i = frame
      <4>1. Behind(NextDesc(frame), i) = ETH_RXBUFNB - 1
        BY <1>1, <3>1, BehindNext
      <4> QED
        BY <1>1, <1>2, <1>4, <3>1, <4>1, EthConstants
    <3>2. CASE i # frame
      <4>1. Behind(NextDesc(frame), i) = Behind(frame, i) - 1
        BY <1>1, <3>2, BehindNext
      <4>2. Behind(frame, i) \in Nat
        BY <1>1, BehindInRing, EthConstants
      <4>3. own'[i] = own[i]
        BY <1>1, <1>2, <3>2
      <4>4. /\ own[i] = "cpu" <=> Behind(frame, i) < Held
            /\ Behind(frame, i) < Held => content[i] = released + 1 + Behind(frame, i)
        BY <1>1 DEF Inv, RingWindow
      <4> QED
        BY <1>4, <4>1, <4>2, <4>3, <4>4
    <3> QED
      BY <3>1, <3>2
  <2>3. content' = content /\ released' + 1 = released + 2
    BY <1>2, <1>3, <1>4
  <2>4. Held' \in 0 .. ETH_RXBUFNB
    BY <1>4, EthConstants
  <2>5. dmaNext' = Ahead(Oldest', Held')
    BY <1>4, <1>7, <2>1
  <2>6. \A i \in Desc : own'[i] = "cpu" <=> Behind(Oldest', i) < Held'
    BY <1>4, <1>7, <2>2
  <2>7. \A i \in Desc : Behind(Oldest', i) < Held' =>
          content'[i] = released' + 1 + Behind(Oldest', i)
    BY <1>4, <1>7, <2>2, <2>3
  <2> QED
    BY <2>4, <2>5, <2>6, <2>7 DEF RingWindow
<1>9. Segments'
  <2>1. segCount' # 0 => toGet' = Ahead(Oldest', segCount')
    BY <1>6, <1>7
  <2>2. segCount' <= Held'
    BY <1>1, <1>2, <1>4
  <2>3. ~(pc' = "scan") /\ Held' < ETH_RXBUFNB
    BY <1>1, <1>3, <1>4, EthConstants
  <2>4. ASSUME NEW n \in 0 .. Held' - 1, seg'[Ahead(Oldest', n)] = "first"
        PROVE  \/ n = Held' - 1 /\ halfway'
               \/ n # Held' - 1 /\ seg'[Ahead(Oldest', n + 1)] = "last"
    <3>1. n + 1 \in 0 .. Held - 1 /\ n + 1 \in 1 .. ETH_RXBUFNB
          /\ (n + 1) - 1 = n
      BY <1>4, EthConstants
    <3>2. Ahead(Oldest', n) = Ahead(frame, n + 1)
      BY <1>1, <1>7, <3>1, BehindNext
    <3>3. \/ n + 1 = Held - 1 /\ halfway
          \/ n + 1 # Held - 1 /\ seg[Ahead(frame, (n + 1) + 1)] = "last"
      BY <1>1, <1>3, <2>4, <3>1, <3>2 DEF Inv, Segments
    <3>4. CASE n + 1 = Held - 1
      BY <1>3, <1>4, <3>3, <3>4
    <3>5. CASE n + 1 # Held - 1
      <4>1. (n + 1) + 1 \in 1 .. ETH_RXBUFNB /\ ((n + 1) + 1) - 1 = n + 1
        BY <1>4, <3>1, <3>5, EthConstants
      <4>2. Ahead(Oldest', n + 1) = Ahead(frame, (n + 1) + 1)
        BY <1>1, <1>7, <4>1, BehindNext
      <4> QED
        BY <1>3, <1>4, <3>3, <3>5, <4>2
    <3> QED
      BY <3>4, <3>5
  <2> QED
    BY <2>1, <2>2, <2>3, <2>4 DEF Segments
<1> QED
  BY <1>8, <1>9

(* So does releasing one at NULL: the ring is as it was, but nothing more  *)
(* is known of it.                                                         *)
LEMMA ReleaseSegmentInv ==
  ASSUME Inv, ReleaseSegment
  PROVE  Inv'
<1>1. /\ segCount \in 1 .. 2 /\ segCount' = segCount - 1 /\ pc = "release"
      /\ frame \in Desc \cup {NULL} /\ own \in [Desc -> {"dma", "cpu"}]
      /\ released \in Nat
  BY DEF ReleaseSegment, Inv, TypeOK
<1>2. UNCHANGED <<seg, content, dmaVars, isrVars, sem, pc, toGet, fsDesc, scanned,
                  p, input>>
  BY DEF ReleaseSegment
<1>3. CASE frame = NULL
  <2>1. nullWrite' /\ UNCHANGED <<own, frame, released>>
    BY <1>3 DEF ReleaseSegment
  <2>2. TypeOK'
    BY <1>1, <1>2, <2>1 DEF Inv, TypeOK, dmaVars, hwVars, isrVars
  <2>3. Working'
    BY <1>1, <1>2, <2>1 DEF Inv, Working
  <2> QED
    BY <2>1, <2>2, <2>3 DEF Inv, RingWindow, Segments, Passing
<1>4. CASE frame # NULL
  <2>1. own' = [own EXCEPT ![frame] = "dma"] /\ frame' = NextDesc(frame)
        /\ released' = released + 1 /\ nullWrite' = nullWrite
    BY <1>4 DEF ReleaseSegment
  <2>2. NextDesc(frame) \in Desc /\ frame \in Desc
    BY <1>1, <1>4, BehindNext
  <2>3. TypeOK'
    BY <1>1, <1>2, <2>1, <2>2 DEF Inv, TypeOK, dmaVars, hwVars, isrVars
  <2>4. Working'
    BY <1>1, <1>2, <2>1, <2>2, EthConstants DEF Inv, Working, NULL, Desc
  <2>5. Passing'
    BY <1>1, <1>2, <2>1 DEF Inv, Passing, TypeOK
  <2>6. CASE nullWrite
    BY <2>1, <2>3, <2>4, <2>5, <2>6 DEF Inv, RingWindow, Segments
  <2>7. CASE ~nullWrite
    BY <1>4, <2>3, <2>4, <2>5, <2>7, ReleaseKeepsWindow DEF Inv
  <2> QED
    BY <2>6, <2>7
<1> QED
  BY <1>3, <1>4

-----------------------------------------------------------------------------
(* Every step keeps the invariant. *)
LEMMA StepInv == ASSUME Inv, [Next]_vars PROVE Inv'
<1>1. CASE FrameArrives \/ DmaSuspends
  BY <1>1, DmaIdleInv
<1>2. CASE DmaStores \/ DmaStoresFirst \/ DmaStoresLast
  BY <1>2, DmaStoresInv
<1>3. CASE Isr
  BY <1>3, IsrInv
<1>4. CASE TakeSemaphore \/ ScanEnds \/ ResumeDma \/ InputAccepts \/ InputRefuses
  BY <1>4, TaskIdleInv
<1>5. CASE ScanSegment
  BY <1>5, ScanSegmentInv
<1>6. CASE CopyFrame
  BY <1>6, CopyFrameInv
<1>7. CASE ReleaseSegment
  BY <1>7, ReleaseSegmentInv
<1>8. CASE UNCHANGED vars
  BY <1>8 DEF vars, ringVars, dmaVars, hwVars, isrVars, taskVars, Inv, TypeOK, Working,
     RingWindow, Segments, Passing, Held, Oldest
<1> QED
  BY <1>1, <1>2, <1>3, <1>4, <1>5, <1>6, <1>7, <1>8 DEF Next, Dma, Task

(* The invariant holds for good. *)
LEMMA Invariance == Spec => []Inv
<1>1. Init => Inv
  BY InitInv
<1>2. Inv /\ [Next]_vars => Inv'
  BY StepInv
<1> QED
  BY <1>1, <1>2, PTL DEF Spec

(* Every variable of the receive path keeps its type: no index ever leaves *)
(* the ring, and at most two descriptors are waiting to be released.       *)
THEOREM EthRxTypeCorrect == Spec => []TypeOK
<1>1. Inv => TypeOK
  BY DEF Inv
<1> QED
  BY <1>1, Invariance, PTL

(* DMA and the task share the ring without a lock: the OWN bits split it   *)
(* into the segments held, in order, and the descriptors left to DMA.      *)
THEOREM OwnershipSplitsRing == Spec => []RingWindow
<1>1. Inv => RingWindow
  BY DEF Inv
<1> QED
  BY <1>1, Invariance, PTL

(* Whatever frames are dropped for want of a pbuf, or refused, those that  *)
(* reach the stack do so in the order of their arrival, and none twice.    *)
THEOREM FramesInOrder == Spec => InputInOrder
<1>1. ASSUME Inv, [Next]_vars, ~nullWrite, input' # input
      PROVE  input' > input
  <2>1. InputAccepts
    BY <1>1 DEF Next, Dma, Isr, Task, vars, taskVars, FrameArrives, DmaSuspends,
       DmaStores, DmaStoresFirst, DmaStoresLast, IsrGives, IsrClears,
       TakeSemaphore, ScanSegment, ScanEnds, CopyFrame, ReleaseSegment,
       ResumeDma, InputRefuses
  <2>2. input < p /\ input' = p /\ input \in Nat /\ p \in Nat
    BY <1>1, <2>1 DEF InputAccepts, Inv, Passing, TypeOK
  <2> QED
    BY <2>2
<1>2. Inv /\ [Next]_vars => [~nullWrite /\ input' # input => input' > input]_vars
  BY <1>1
<1> QED
  BY <1>2, Invariance, PTL DEF Spec, InputInOrder

-----------------------------------------------------------------------------
(* Why reception cannot stop: a full ring always has somebody who knows of *)
(* it - a pending interrupt, a given semaphore or the task at work - and a *)
(* suspended DMA always has a full ring or a task about to resume it.      *)
Awake ==
  /\ isr = "clear" => sem = 1
  /\ ~nullWrite /\ Held = ETH_RXBUFNB =>
       flagR \/ sem = 1 \/ pc \in {"scan", "copy"} \/ segCount # 0
  /\ ~nullWrite /\ suspended => Held = ETH_RXBUFNB \/ pc = "release"

(* Before the first frame everybody waits and the ring is empty. *)
LEMMA AwakeInit == Init => Awake
  BY EthConstants DEF Init, Awake, Held

(* A scan that ends before it finds a last segment leaves room. *)
LEMMA ScanEndsNotFull ==
  ASSUME Inv, ~nullWrite, ScanEnds
  PROVE  Held # ETH_RXBUFNB
<1>1. segCount \in 0 .. 1 /\ toGet \in Desc /\ scanned = segCount /\ pc = "scan"
  BY DEF ScanEnds, Inv, Working, TypeOK
<1>2. own[toGet] = "dma"
  BY <1>1, EthConstants DEF ScanEnds
<1>3. ~(Behind(Oldest, toGet) < Held)
  BY <1>1, <1>2, WindowStarts
<1>4. Behind(Oldest, toGet) < ETH_RXBUFNB
  BY <1>1, WindowStarts, BehindInRing, EthConstants
<1> QED
  BY <1>3, <1>4, WindowStarts

(* Every step keeps somebody awake. *)
LEMMA AwakeStep == ASSUME Inv, Awake, [Next]_vars PROVE Awake'
<1> USE DEF ringVars, dmaVars, hwVars, isrVars, taskVars
<1>0. stored \in Nat /\ released \in Nat /\ sem \in {0, 1}
  BY DEF Inv, TypeOK
<1>1. CASE FrameArrives
  BY <1>1 DEF FrameArrives, Awake, Held
<1>2. CASE DmaSuspends
  BY <1>2, NoDescriptorMeansFull DEF DmaSuspends, Awake, Held
<1>3. CASE DmaStores
  BY <1>3, <1>0 DEF DmaStores, Awake
<1>4. CASE DmaStoresFirst
  <2>1. ~nullWrite => Held' # ETH_RXBUFNB
    BY <1>4, StepInv, EthConstants DEF DmaStoresFirst, Inv, Segments, RingWindow
  <2> QED
    BY <1>4, <2>1 DEF DmaStoresFirst, Awake
<1>5. CASE DmaStoresLast
  <2>1. ~nullWrite => Held < ETH_RXBUFNB
    BY <1>5 DEF DmaStoresLast, Inv, Segments
  <2>2. Held \in Int
    BY <1>0 DEF Held
  <2>3. ~nullWrite => Held # ETH_RXBUFNB
    BY <2>1, <2>2, EthConstants
  <2> QED
    BY <1>5, <2>3 DEF DmaStoresLast, Awake
<1>6. CASE Isr
  BY <1>6 DEF Isr, IsrGives, IsrClears, Awake, Held
<1>7. CASE TakeSemaphore
  BY <1>7 DEF TakeSemaphore, Awake, Held
<1>8. CASE ScanSegment
  BY <1>8 DEF ScanSegment, Awake, Held
<1>9. CASE ScanEnds
  <2>1. ~nullWrite => Held # ETH_RXBUFNB
    BY <1>9, ScanEndsNotFull
  <2> QED
    BY <1>9, <2>1 DEF ScanEnds, Awake, Held
<1>10. CASE CopyFrame
  BY <1>10 DEF CopyFrame, Awake, Held, Inv, Working
<1>11. CASE ReleaseSegment
  <2>1. ~nullWrite => Held \in 0 .. ETH_RXBUFNB
    BY DEF Inv, RingWindow
  <2>2. ~nullWrite' => ~nullWrite /\ Held' = Held - 1
    BY <1>0, <1>11 DEF ReleaseSegment, Held
  <2>3. ~nullWrite' => Held' # ETH_RXBUFNB
    BY <2>1, <2>2, EthConstants
  <2> QED
    BY <1>11, <2>3 DEF ReleaseSegment, Awake
<1>12. CASE ResumeDma
  BY <1>12 DEF ResumeDma, Awake, Held
<1>13. CASE InputAccepts
  BY <1>13 DEF InputAccepts, Awake, Held
<1>14. CASE InputRefuses
  BY <1>14 DEF InputRefuses, Awake, Held, Inv, Working
<1>15. CASE UNCHANGED vars
  BY <1>15 DEF vars, Awake, Held
<1> QED
  BY <1>1, <1>2, <1>3, <1>4, <1>5, <1>6, <1>7, <1>8, <1>9, <1>10, <1>11, <1>12,
     <1>13, <1>14, <1>15 DEF Next, Dma, Task

(* Reception never stops for good: when the task waits and nothing is on   *)
(* the way to wake it, DMA has a descriptor for the next frame and is not  *)
(* suspended, whatever allocations failed and however the steps of DMA,    *)
(* interrupt and task were interleaved.                                    *)
THEOREM ReceptionNeverStops == Spec => []ReceptionGoesOn
<1>1. Init => Inv /\ Awake
  BY InitInv, AwakeInit
<1>2. (Inv /\ Awake) /\ [Next]_vars => (Inv /\ Awake)'
  BY StepInv, AwakeStep
<1>3. ASSUME Inv, Awake PROVE ReceptionGoesOn
  <2> SUFFICES ASSUME ~nullWrite, pc = "wait", sem = 0, ~flagR
               PROVE  own[dmaNext] = "dma" /\ ~suspended
    BY DEF ReceptionGoesOn
  <2>1. segCount = 0
    BY <1>3 DEF Inv, Working
  <2>2. Held # ETH_RXBUFNB
    BY <1>3, <2>1 DEF Awake
  <2>3. own[dmaNext] = "dma"
    BY <1>3, <2>2, NoDescriptorMeansFull DEF Inv, TypeOK
  <2>4. ~suspended
    BY <1>3, <2>2 DEF Awake
  <2> QED
    BY <2>3, <2>4
<1>4. Inv /\ Awake => ReceptionGoesOn
  BY <1>3
<1> QED
  BY <1>1, <1>2, <1>4, PTL DEF Spec
=============================================================================
