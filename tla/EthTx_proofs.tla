----------------------------- MODULE EthTx_proofs -----------------------------
(***************************************************************************)
(* Proofs about the Ethernet transmit path, for any number of tasks whose  *)
(* priorities differ and a ring of any size.                               *)
(***************************************************************************)
EXTENDS EthTx, TLAPS

SemTypeOK ==
  /\ xTxSemaphore \in Sender \cup {NoSemaphore} /\ count \in [Sender -> {0, 1}]
  /\ pc \in [Sender -> {"idle", "create", "created", "ask", "take", "copy",
                        "prepare", "resume", "give"}]
  /\ waits \in [Sender -> Sender \cup {NoSemaphore}]

(* A task has the semaphore, or has just created it empty. *)
Owns(t) == Sends(t) \/ pc[t] = "created"

(* A task is past the test of xTxSemaphore and found it, or created it. *)
Inside(t) == Owns(t) \/ pc[t] \in {"ask", "take"}

(* The semaphore that counts is the one in xTxSemaphore: whoever is inside *)
(* uses it, and has a higher priority than those who still are to create   *)
(* another, so none of these runs before the ring is left.                 *)
Locked ==
  /\ \A t \in Sender : Inside(t) => xTxSemaphore \in Sender
  /\ \A t \in Sender : pc[t] = "take" => waits[t] = xTxSemaphore
  /\ \A t \in Sender : Owns(t) => count[xTxSemaphore] = 0
  /\ \A t, u \in Sender : Owns(t) /\ Owns(u) => t = u
  /\ \A t, u \in Sender : Inside(t) /\ pc[u] = "create" => prio[t] > prio[u]
  /\ xTxSemaphore \in Sender /\ count[xTxSemaphore] = 0 =>
       \E t \in Sender : Owns(t)

SemInv == SemTypeOK /\ Locked

-----------------------------------------------------------------------------
(* Nobody has called low_level_output yet. *)
LEMMA SemInit == Init => SemInv
  BY EthTxConstants DEF Init, SemInv, SemTypeOK, Locked, Inside, Owns, Sends

(* A task that runs has a higher priority than any other that could. *)
LEMMA RunsAbove ==
  ASSUME SemInv, NEW t \in Sender, Runs(t), NEW u \in Sender, u # t, Ready(u)
  PROVE  prio[t] > prio[u]
<1>1. prio[t] \in Nat /\ prio[u] \in Nat /\ prio[t] # prio[u]
  BY EthTxConstants
<1>2. ~(prio[u] > prio[t])
  BY DEF Runs
<1> QED
  BY <1>1, <1>2

(* When a task comes to create the semaphore nobody is inside. *)
LEMMA CreatesAlone ==
  ASSUME SemInv, NEW t \in Sender, CreateSemaphore(t)
  PROVE  \A u \in Sender : ~Inside(u)
<1>1. pc[t] = "create" /\ Runs(t)
  BY DEF CreateSemaphore, At
<1>2. ASSUME NEW u \in Sender, Inside(u)
      PROVE  pc[u] = "take" /\ count[xTxSemaphore] = 0
  <2>1. prio[u] > prio[t]
    BY <1>1, <1>2 DEF SemInv, Locked
  <2>2. ~Ready(u)
    BY <1>1, <2>1 DEF Runs
  <2>3. pc[u] = "take" /\ count[waits[u]] # 1
    BY <1>2, <2>2 DEF Ready, Inside, Owns, Sends
  <2>4. waits[u] = xTxSemaphore /\ xTxSemaphore \in Sender
    BY <1>2, <2>3 DEF SemInv, Locked
  <2>5. count[xTxSemaphore] \in {0, 1}
    BY <2>4 DEF SemInv, SemTypeOK
  <2> QED
    BY <2>3, <2>4, <2>5
<1>3. SUFFICES ASSUME NEW u \in Sender, Inside(u) PROVE FALSE
  OBVIOUS
<1>4. xTxSemaphore \in Sender /\ count[xTxSemaphore] = 0
  BY <1>2, <1>3 DEF SemInv, Locked
<1>5. PICK h \in Sender : Owns(h)
  BY <1>4 DEF SemInv, Locked
<1>6. pc[h] # "take"
  BY <1>5 DEF Owns, Sends
<1> QED
  BY <1>2, <1>5, <1>6 DEF Inside

(* Steps that neither touch the semaphore nor change who has it. *)
LEMMA SemStays ==
  ASSUME SemInv, NEW t \in Sender, UNCHANGED <<xTxSemaphore, count>>,
         \A u \in Sender \ {t} : pc'[u] = pc[u] /\ waits'[u] = waits[u],
         pc'[t] # "create", pc'[t] = "take" => waits'[t] = xTxSemaphore,
         Owns(t)' <=> Owns(t), Inside(t)' => Inside(t)
  PROVE  Locked'
<1>1. \A u \in Sender : Owns(u)' <=> Owns(u)
  BY DEF Owns, Sends
<1>2. \A u \in Sender : Inside(u)' => Inside(u)
  BY DEF Inside, Owns, Sends
<1>3. \A u \in Sender : pc'[u] = "create" => pc[u] = "create"
  OBVIOUS
<1>4. \A u \in Sender : pc'[u] = "take" => waits'[u] = xTxSemaphore
  BY DEF SemInv, Locked
<1> QED
  BY <1>1, <1>2, <1>3, <1>4 DEF SemInv, Locked

(* Each step of low_level_output keeps what is known of the semaphore. *)
LEMMA SemTaskStep ==
  ASSUME SemInv, NEW t \in Sender, Call(t) \/ LowLevelOutput(t)
  PROVE  SemInv'
<1> USE DEF SemInv, SemTypeOK, At, Goto, semVars, taskVars
<1>1. CASE Call(t)
  <2>1. \A u \in Sender : pc[u] = "create" => prio[t] > prio[u]
    BY <1>1, RunsAbove DEF Call, Ready
  <2>2. SemTypeOK'
    BY <1>1 DEF Call
  <2>3. \A u \in Sender : u # t => pc'[u] = pc[u]
    BY <1>1 DEF Call
  <2>4. pc'[t] = IF xTxSemaphore = NoSemaphore THEN "create" ELSE "ask"
    BY <1>1 DEF Call
  <2>5. UNCHANGED <<xTxSemaphore, count, waits>> /\ pc[t] = "idle"
    BY <1>1 DEF Call
  <2>6. \A u \in Sender : Owns(u)' <=> Owns(u)
    BY <2>3, <2>4, <2>5 DEF Owns, Sends
  <2>7. \A u \in Sender : Inside(u)' <=> Inside(u) \/ (u = t /\ pc'[t] = "ask")
    BY <2>3, <2>4, <2>5 DEF Inside, Owns, Sends
  <2>8. xTxSemaphore = NoSemaphore => \A u \in Sender : ~Inside(u)
    BY EthTxConstants DEF Locked
  <2> QED
    BY <2>1, <2>2, <2>3, <2>4, <2>5, <2>6, <2>7, <2>8 DEF Locked
<1>2. CASE CreateSemaphore(t)
  <2>1. \A u \in Sender : ~Inside(u)
    BY <1>2, CreatesAlone
  <2>2. \A u \in Sender : u # t /\ pc[u] = "create" => prio[t] > prio[u]
    BY <1>2, RunsAbove DEF CreateSemaphore, Ready
  <2>3. SemTypeOK'
    BY <1>2 DEF CreateSemaphore
  <2>4. /\ xTxSemaphore' = t /\ count'[t] = 0 /\ pc'[t] = "created"
        /\ \A u \in Sender : u # t => pc'[u] = pc[u]
    BY <1>2 DEF CreateSemaphore
  <2>5. \A u \in Sender : Inside(u)' <=> u = t
    BY <2>1, <2>4 DEF Inside, Owns, Sends
  <2>6. Owns(t)' /\ \A u \in Sender : Owns(u)' => u = t
    BY <2>4, <2>5 DEF Inside, Owns
  <2>7. \A u \in Sender : pc'[u] # "take"
    BY <2>4, <2>5 DEF Inside
  <2> QED
    BY <2>2, <2>3, <2>4, <2>5, <2>6, <2>7 DEF Locked
<1>3. CASE GiveCreated(t) \/ GiveSemaphore(t)
  <2>1. Owns(t) /\ xTxSemaphore \in Sender
    BY <1>3 DEF GiveCreated, GiveSemaphore, Owns, Sends, Locked, Inside
  <2>2. SemTypeOK'
    BY <1>3, <2>1 DEF GiveCreated, GiveSemaphore
  <2>3. /\ xTxSemaphore' = xTxSemaphore /\ count'[xTxSemaphore] = 1
        /\ pc'[t] \in {"ask", "idle"} /\ waits' = waits
        /\ \A u \in Sender : u # t => pc'[u] = pc[u]
    BY <1>3, <2>1 DEF GiveCreated, GiveSemaphore
  <2>4. \A u \in Sender : ~Owns(u)'
    BY <2>1, <2>3 DEF Locked, Owns, Sends
  <2>5. \A u \in Sender : Inside(u)' => Inside(u)
    BY <2>1, <2>3 DEF Inside, Owns, Sends
  <2>6. \A u \in Sender : pc'[u] \in {"create", "take"} => u # t /\ pc'[u] = pc[u]
    BY <2>3
  <2> QED
    BY <2>1, <2>2, <2>3, <2>4, <2>5, <2>6 DEF Locked
<1>4. CASE TakeSemaphore(t)
  <2>1. waits[t] = xTxSemaphore /\ xTxSemaphore \in Sender
        /\ count[xTxSemaphore] = 1 /\ pc[t] = "take"
    BY <1>4 DEF TakeSemaphore, Locked, Inside
  <2>2. SemTypeOK'
    BY <1>4 DEF TakeSemaphore
  <2>3. /\ xTxSemaphore' = xTxSemaphore /\ count'[xTxSemaphore] = 0
        /\ pc'[t] = "copy" /\ waits' = waits
        /\ \A u \in Sender : u # t => pc'[u] = pc[u]
    BY <1>4, <2>1 DEF TakeSemaphore
  <2>4. \A u \in Sender : ~Owns(u)
    BY <2>1 DEF Locked
  <2>5. \A u \in Sender : Owns(u)' <=> u = t
    BY <2>3, <2>4 DEF Owns, Sends
  <2>6. \A u \in Sender : Inside(u)' => Inside(u)
    BY <2>1, <2>3 DEF Inside, Owns, Sends
  <2>7. \A u \in Sender : pc'[u] \in {"create", "take"} => u # t /\ pc'[u] = pc[u]
    BY <2>3
  <2> QED
    BY <2>1, <2>2, <2>3, <2>5, <2>6, <2>7 DEF Locked
<1>5. CASE AskSemaphore(t) \/ TakeTimesOut(t)
  <2>1. SemTypeOK'
    BY <1>5 DEF AskSemaphore, TakeTimesOut
  <2>2. Locked'
    BY <1>5, SemStays DEF AskSemaphore, TakeTimesOut, Owns, Inside, Sends
  <2> QED
    BY <2>1, <2>2
<1>6. CASE CopyFrame(t) \/ PrepareDescriptor(t) \/ ResumeDma(t)
  <2>1. UNCHANGED <<xTxSemaphore, count, waits>> /\ Sends(t)
        /\ pc' = [pc EXCEPT ![t] = pc'[t]]
        /\ pc'[t] \in {"prepare", "resume", "give"}
    BY <1>6 DEF CopyFrame, PrepareDescriptor, ResumeDma, Sends
  <2>2. SemTypeOK'
    BY <2>1
  <2>3. Locked'
    BY <2>1, SemStays DEF Owns, Inside, Sends
  <2> QED
    BY <2>2, <2>3
<1> QED
  BY <1>1, <1>2, <1>3, <1>4, <1>5, <1>6 DEF LowLevelOutput

(* So does every step. *)
LEMMA SemStep == SemInv /\ [Next]_vars => SemInv'
<1> SUFFICES ASSUME SemInv, [Next]_vars PROVE SemInv'
  OBVIOUS
<1>1. CASE Dma \/ UNCHANGED vars
  BY <1>1 DEF Dma, DmaSends, DmaSuspends, vars, semVars, taskVars, SemInv,
     SemTypeOK, Locked, Inside, Owns, Sends
<1>2. CASE \E t \in Sender : Call(t) \/ LowLevelOutput(t)
  BY <1>2, SemTaskStep
<1> QED
  BY <1>1, <1>2 DEF Next

(* One task at a time is between xSemaphoreTake and xSemaphoreGive, however *)
(* many of them created the semaphore.                                      *)
THEOREM TransmitExclusion == Spec => []OneSender
<1>1. Init => SemInv
  BY SemInit
<1>2. SemInv => OneSender
  BY DEF SemInv, Locked, OneSender, Owns
<1> QED
  BY <1>1, <1>2, SemStep, PTL DEF Spec

-----------------------------------------------------------------------------
RingTypeOK ==
  /\ frame \in [Sender -> Nat] /\ calls \in Nat
  /\ own \in [Desc -> {"dma", "cpu"}] /\ buf \in [Desc -> Nat]
  /\ toSet \in Desc /\ dmaNext \in Desc
  /\ queue \in Seq(Nat)

(* The frame copied to a descriptor stays there until DMA is given it. *)
Prepared ==
  \A t \in Sender : pc[t] = "prepare" =>
    own[toSet] = "cpu" /\ buf[toSet] = frame[t]

RingInv == RingTypeOK /\ QueueInRing /\ Prepared

(* The places are the descriptors, one after the other. *)
LEMMA Places ==
  ASSUME dmaNext \in Desc
  PROVE  /\ Place(0) = dmaNext /\ Place(ETH_TXBUFNB) = dmaNext
         /\ \A k \in 0 .. ETH_TXBUFNB : Place(k) \in Desc
         /\ \A k \in 0 .. ETH_TXBUFNB - 1 : NextDesc(Place(k)) = Place(k + 1)
         /\ \A j, k \in 0 .. ETH_TXBUFNB - 1 : Place(j) = Place(k) => j = k
  BY EthTxConstants DEF Place, Desc, NextDesc

(* The ring starts empty. *)
LEMMA RingInit == Init => RingInv
<1> SUFFICES ASSUME Init PROVE RingInv
  OBVIOUS
<1>1. 0 \in Desc /\ dmaNext \in Desc
  BY EthTxConstants DEF Init, Desc
<1>2. RingTypeOK
  BY <1>1 DEF Init, RingTypeOK
<1>3. QueueInRing
  BY <1>1, Places, EthTxConstants DEF Init, QueueInRing
<1>4. Prepared
  BY DEF Init, Prepared
<1> QED
  BY <1>2, <1>3, <1>4 DEF RingInv

(* The next descriptor is free as long as the ring is not full. *)
LEMMA FreeMeansRoom ==
  ASSUME RingInv, own[toSet] = "cpu"
  PROVE  Len(queue) \in 0 .. ETH_TXBUFNB - 1
<1>1. Len(queue) \in 0 .. ETH_TXBUFNB /\ toSet = Place(Len(queue)) /\ dmaNext \in Desc
  BY DEF RingInv, RingTypeOK, QueueInRing
<1>2. Len(queue) # ETH_TXBUFNB
  <2>1. SUFFICES ASSUME Len(queue) = ETH_TXBUFNB PROVE FALSE
    OBVIOUS
  <2>2. toSet = Place(0) /\ 0 \in 0 .. ETH_TXBUFNB - 1 /\ 0 < Len(queue)
    BY <1>1, <2>1, Places, EthTxConstants
  <2> QED
    BY <2>2 DEF RingInv, QueueInRing
<1> QED
  BY <1>1, <1>2, EthTxConstants

(* Copying a frame overwrites none that DMA has. *)
LEMMA CopyStep ==
  ASSUME RingInv, SemInv, NEW t \in Sender, CopyFrame(t)
  PROVE  RingInv'
<1>1. /\ UNCHANGED <<frame, calls, own, toSet, dmaNext, tbus, queue>>
      /\ pc[t] = "copy" /\ \A u \in Sender \ {t} : pc'[u] = pc[u]
      /\ pc'[t] \in {"prepare", "give"}
  BY DEF CopyFrame, At, Goto, SemInv, SemTypeOK, semVars
<1>2. CASE own[toSet] = "dma"
  <2>1. buf' = buf /\ pc'[t] = "give"
    BY <1>2 DEF CopyFrame, Goto, SemInv, SemTypeOK
  <2> QED
    BY <1>1, <2>1 DEF RingInv, RingTypeOK, QueueInRing, Place, Prepared
<1>3. CASE own[toSet] # "dma"
  <2>1. buf' = [buf EXCEPT ![toSet] = frame[t]]
    BY <1>3 DEF CopyFrame
  <2>2. RingTypeOK'
    BY <1>1, <2>1 DEF RingInv, RingTypeOK
  <2>3. \A k \in 0 .. ETH_TXBUFNB - 1 : Place(k)' = Place(k)
    BY <1>1 DEF Place
  <2>4. toSet' = Place(Len(queue))'
    BY <1>1 DEF RingInv, QueueInRing, Place
  <2>5. ASSUME NEW k \in 0 .. ETH_TXBUFNB - 1
        PROVE  /\ own[Place(k)] = "dma" <=> k < Len(queue)
               /\ k < Len(queue) => buf'[Place(k)] = queue[k + 1]
    BY <1>3, <2>1 DEF RingInv, RingTypeOK, QueueInRing
  <2>6. QueueInRing'
    BY <1>1, <2>3, <2>4, <2>5 DEF RingInv, QueueInRing
  <2>7. \A u \in Sender \ {t} : pc'[u] # "prepare"
    BY <1>1 DEF SemInv, Locked, Owns, Sends
  <2>8. own[toSet] = "cpu" /\ buf'[toSet] = frame[t]
    BY <1>3, <2>1 DEF RingInv, RingTypeOK
  <2> QED
    BY <1>1, <2>2, <2>6, <2>7, <2>8 DEF RingInv, Prepared
<1> QED
  BY <1>2, <1>3

(* The frame given to DMA comes last in the ring. *)
LEMMA PrepareStep ==
  ASSUME RingInv, SemInv, NEW t \in Sender, PrepareDescriptor(t)
  PROVE  RingInv'
<1>1. /\ UNCHANGED <<frame, calls, buf, dmaNext, tbus>>
      /\ pc[t] = "prepare" /\ \A u \in Sender \ {t} : pc'[u] = pc[u]
      /\ pc'[t] \in {"resume", "give"}
  BY DEF PrepareDescriptor, At, Goto, SemInv, SemTypeOK, semVars
<1>2. own[toSet] = "cpu" /\ buf[toSet] = frame[t]
  BY <1>1 DEF RingInv, Prepared
<1>3. /\ own' = [own EXCEPT ![toSet] = "dma"] /\ toSet' = NextDesc(toSet)
      /\ queue' = Append(queue, frame[t])
  BY <1>2 DEF PrepareDescriptor
<1>4. Len(queue) \in 0 .. ETH_TXBUFNB - 1 /\ toSet = Place(Len(queue))
      /\ dmaNext \in Desc /\ queue \in Seq(Nat) /\ frame[t] \in Nat
  BY <1>2, FreeMeansRoom DEF RingInv, RingTypeOK, QueueInRing
<1>5. Len(queue') = Len(queue) + 1
  BY <1>3, <1>4
<1>6. toSet' = Place(Len(queue))' /\ toSet' \in Desc
  <2>1. NextDesc(toSet) = Place(Len(queue) + 1) /\ Len(queue) + 1 \in 0 .. ETH_TXBUFNB
    BY <1>4, Places, EthTxConstants
  <2>2. toSet' = Place(Len(queue) + 1) /\ Place(Len(queue) + 1) \in Desc
    BY <1>3, <1>4, <2>1, Places
  <2> QED
    BY <1>1, <1>5, <2>2 DEF Place
<1>7. RingTypeOK'
  BY <1>1, <1>3, <1>4, <1>6 DEF RingInv, RingTypeOK
<1>8. ASSUME NEW k \in 0 .. ETH_TXBUFNB - 1
      PROVE  /\ own'[Place(k)] = "dma" <=> k < Len(queue')
             /\ k < Len(queue') => buf[Place(k)] = queue'[k + 1]
  <2>1. CASE k = Len(queue)
    BY <1>2, <1>3, <1>4, <1>5, <2>1 DEF RingInv, RingTypeOK
  <2>2. CASE k # Len(queue)
    <3>1. Place(k) # toSet
      BY <1>4, <2>2, Places
    <3>2. own'[Place(k)] = own[Place(k)]
      BY <1>3, <3>1 DEF RingInv, RingTypeOK
    <3>3. k < Len(queue') <=> k < Len(queue)
      BY <1>4, <1>5, <2>2, EthTxConstants
    <3>4. k < Len(queue) => queue'[k + 1] = queue[k + 1]
      BY <1>3, <1>4, EthTxConstants
    <3> QED
      BY <3>2, <3>3, <3>4 DEF RingInv, QueueInRing
  <2> QED
    BY <2>1, <2>2
<1>9. QueueInRing'
  <2>1. \A k \in 0 .. ETH_TXBUFNB - 1 : Place(k)' = Place(k)
    BY <1>1 DEF Place
  <2>2. Len(queue') \in 0 .. ETH_TXBUFNB
    BY <1>4, <1>5, EthTxConstants
  <2> QED
    BY <1>1, <1>6, <1>8, <2>1, <2>2 DEF QueueInRing
<1>10. Prepared'
  <2>1. \A u \in Sender \ {t} : pc'[u] # "prepare"
    BY <1>1 DEF SemInv, Locked, Owns, Sends
  <2>2. pc'[t] # "prepare"
    BY <1>1
  <2> QED
    BY <2>1, <2>2 DEF Prepared
<1> QED
  BY <1>7, <1>9, <1>10 DEF RingInv

(* The frame that DMA sends is the first one. *)
LEMMA SendStep ==
  ASSUME RingInv, DmaSends
  PROVE  RingInv'
<1>1. /\ own[dmaNext] = "dma" /\ own' = [own EXCEPT ![dmaNext] = "cpu"]
      /\ dmaNext' = NextDesc(dmaNext) /\ queue' = Tail(queue)
      /\ UNCHANGED <<pc, frame, calls, buf, toSet, tbus>>
  BY DEF DmaSends, taskVars
<1>2. /\ dmaNext \in Desc /\ queue \in Seq(Nat) /\ Len(queue) \in 0 .. ETH_TXBUFNB
      /\ toSet = Place(Len(queue)) /\ own \in [Desc -> {"dma", "cpu"}]
  BY DEF RingInv, RingTypeOK, QueueInRing
<1>3. Len(queue) \in 1 .. ETH_TXBUFNB
  <2>1. Place(0) = dmaNext /\ 0 \in 0 .. ETH_TXBUFNB - 1
    BY <1>2, Places, EthTxConstants
  <2>2. 0 < Len(queue)
    BY <1>1, <2>1 DEF RingInv, QueueInRing
  <2> QED
    BY <1>2, <2>2
<1>4. queue' \in Seq(Nat) /\ Len(queue') = Len(queue) - 1
      /\ \A k \in 0 .. ETH_TXBUFNB : k < Len(queue) - 1 => queue'[k + 1] = queue[k + 2]
  BY <1>1, <1>2, <1>3, EthTxConstants
<1>5. \A k \in 0 .. ETH_TXBUFNB - 1 : Place(k)' = Place(k + 1)
  BY <1>1, <1>2, EthTxConstants DEF Place, NextDesc, Desc
<1>6. dmaNext' \in Desc
  BY <1>1, <1>2, EthTxConstants DEF NextDesc, Desc
<1>7. RingTypeOK'
  BY <1>1, <1>4, <1>6 DEF RingInv, RingTypeOK
<1>8. ASSUME NEW k \in 0 .. ETH_TXBUFNB - 1
      PROVE  /\ own'[Place(k + 1)] = "dma" <=> k < Len(queue')
             /\ k < Len(queue') => buf[Place(k + 1)] = queue'[k + 1]
  <2>1. CASE k = ETH_TXBUFNB - 1
    <3>1. Place(k + 1) = dmaNext
      BY <1>2, <2>1, Places, EthTxConstants
    <3> QED
      BY <1>1, <1>2, <1>3, <1>4, <2>1, <3>1, EthTxConstants
  <2>2. CASE k # ETH_TXBUFNB - 1
    <3>1. k + 1 \in 0 .. ETH_TXBUFNB - 1 /\ 0 \in 0 .. ETH_TXBUFNB - 1
          /\ k + 1 # 0 /\ (k + 1) + 1 = k + 2
      BY <2>2, EthTxConstants
    <3>2. Place(k + 1) # dmaNext
      BY <1>2, <3>1, Places
    <3>3. own'[Place(k + 1)] = own[Place(k + 1)]
      BY <1>1, <1>2, <3>2
    <3>4. k < Len(queue') <=> k + 1 < Len(queue)
      BY <1>2, <1>4, EthTxConstants
    <3>5. k < Len(queue') => queue'[k + 1] = queue[k + 2]
      BY <1>4, EthTxConstants
    <3>6. /\ own[Place(k + 1)] = "dma" <=> k + 1 < Len(queue)
          /\ k + 1 < Len(queue) => buf[Place(k + 1)] = queue[k + 2]
      BY <3>1 DEF RingInv, QueueInRing
    <3> QED
      BY <3>3, <3>4, <3>5, <3>6
  <2> QED
    BY <2>1, <2>2
<1>9. QueueInRing'
  <2>1. Len(queue') \in 0 .. ETH_TXBUFNB - 1
    BY <1>3, <1>4, EthTxConstants
  <2>2. toSet' = Place(Len(queue))'
    BY <1>1, <1>2, <1>3, <1>4, EthTxConstants DEF Place, NextDesc, Desc
  <2>3. Len(queue') \in 0 .. ETH_TXBUFNB
    BY <2>1, EthTxConstants
  <2> QED
    BY <1>1, <1>5, <1>8, <2>2, <2>3 DEF QueueInRing
<1>10. Prepared'
  BY <1>1, <1>2 DEF RingInv, RingTypeOK, Prepared
<1> QED
  BY <1>7, <1>9, <1>10 DEF RingInv

(* Nothing else touches the ring or a frame that is being copied. *)
LEMMA OtherSteps ==
  ASSUME RingInv, SemInv,
         \/ DmaSuspends \/ UNCHANGED vars
         \/ \E t \in Sender :
              \/ Call(t) \/ CreateSemaphore(t) \/ GiveCreated(t) \/ AskSemaphore(t)
              \/ TakeSemaphore(t) \/ TakeTimesOut(t) \/ ResumeDma(t)
              \/ GiveSemaphore(t)
  PROVE  RingInv'
<1> USE DEF ringVars, semVars, taskVars, vars, At, Goto
<1>1. UNCHANGED <<own, buf, toSet, dmaNext, queue>>
  BY DEF DmaSuspends, Call, CreateSemaphore, GiveCreated, AskSemaphore,
     TakeSemaphore, TakeTimesOut, ResumeDma, GiveSemaphore
<1>2. QueueInRing'
  BY <1>1 DEF RingInv, QueueInRing, Place
<1>3. CASE DmaSuspends \/ UNCHANGED vars
  BY <1>1, <1>2, <1>3 DEF DmaSuspends, RingInv, RingTypeOK, Prepared
<1>4. CASE \E t \in Sender :
              \/ Call(t) \/ CreateSemaphore(t) \/ GiveCreated(t) \/ AskSemaphore(t)
              \/ TakeSemaphore(t) \/ TakeTimesOut(t) \/ ResumeDma(t)
              \/ GiveSemaphore(t)
  <2>1. PICK t \in Sender :
              \/ Call(t) \/ CreateSemaphore(t) \/ GiveCreated(t) \/ AskSemaphore(t)
              \/ TakeSemaphore(t) \/ TakeTimesOut(t) \/ ResumeDma(t)
              \/ GiveSemaphore(t)
    BY <1>4
  <2> USE DEF Call, CreateSemaphore, GiveCreated, AskSemaphore, TakeSemaphore,
              TakeTimesOut, ResumeDma, GiveSemaphore
  <2>2. RingTypeOK'
    BY <1>1, <2>1 DEF RingInv, RingTypeOK
  <2>3. \A u \in Sender : pc'[u] = "prepare" => pc[u] = "prepare" /\ u # t
    BY <2>1 DEF SemInv, SemTypeOK
  <2>4. \A u \in Sender \ {t} : frame'[u] = frame[u]
    BY <2>1 DEF RingInv, RingTypeOK
  <2> QED
    BY <1>1, <1>2, <2>2, <2>3, <2>4 DEF RingInv, Prepared
<1> QED
  BY <1>3, <1>4

(* Every step keeps the ring in order, as one sender works on it at a time. *)
LEMMA RingStep ==
  ASSUME RingInv, SemInv, [Next]_vars
  PROVE  RingInv'
<1>1. CASE \E t \in Sender : CopyFrame(t)
  BY <1>1, CopyStep
<1>2. CASE \E t \in Sender : PrepareDescriptor(t)
  BY <1>2, PrepareStep
<1>3. CASE DmaSends
  BY <1>3, SendStep
<1> QED
  BY <1>1, <1>2, <1>3, OtherSteps DEF Next, Dma, LowLevelOutput

(* What is known of the semaphore and of the ring holds for good. *)
LEMMA TransmitInvariance == Spec => [](SemInv /\ RingInv)
<1>1. Init => SemInv /\ RingInv
  BY SemInit, RingInit
<1>2. (SemInv /\ RingInv) /\ [Next]_vars => (SemInv /\ RingInv)'
  BY SemStep, RingStep
<1> QED
  BY <1>1, <1>2, PTL DEF Spec

(* DMA sends what it was given, whole and in order, however the tasks that *)
(* transmit interrupt each other.                                          *)
THEOREM TransmitOrder == Spec => []QueueInRing
<1>1. SemInv /\ RingInv => QueueInRing
  BY DEF RingInv
<1> QED
  BY <1>1, TransmitInvariance, PTL

(* Every variable of the transmit path keeps its type. *)
THEOREM EthTxTypeCorrect == Spec => []TypeOK
<1>1. SemInv /\ RingInv => TypeOK
  BY DEF SemInv, RingInv, SemTypeOK, RingTypeOK, TypeOK
<1> QED
  BY <1>1, TransmitInvariance, PTL

(* DMA never stays suspended with frames to send: no frame is stuck in the *)
(* ring until another one is transmitted.                                  *)
THEOREM TransmissionNeverStops == Spec => []TransmissionGoesOn
<1>1. Init => TransmissionGoesOn
  BY DEF Init, TransmissionGoesOn
<1>2. ASSUME TransmissionGoesOn, RingInv, SemInv, [Next]_vars
      PROVE  TransmissionGoesOn'
  <2> USE <1>2 DEF TransmissionGoesOn, At, Goto, semVars, taskVars, ringVars
  <2>1. CASE DmaSends \/ UNCHANGED vars
    BY <2>1 DEF DmaSends, vars
  <2>2. CASE DmaSuspends
    <3>1. dmaNext \in Desc /\ 0 \in 0 .. ETH_TXBUFNB - 1 /\ queue \in Seq(Nat)
      BY EthTxConstants DEF RingInv, RingTypeOK
    <3>2. ~(0 < Len(queue))
      BY <2>2, <3>1, Places DEF DmaSuspends, RingInv, QueueInRing
    <3>3. queue = <<>>
      BY <3>1, <3>2
    <3> QED
      BY <2>2, <3>3 DEF DmaSuspends
  <2>3. CASE \E t \in Sender : PrepareDescriptor(t)
    <3>1. PICK t \in Sender : PrepareDescriptor(t)
      BY <2>3
    <3>2. pc'[t] = "resume"
      BY <3>1 DEF PrepareDescriptor, RingInv, Prepared, SemInv, SemTypeOK
    <3> QED
      BY <3>2
  <2>4. CASE \E t \in Sender : ResumeDma(t)
    BY <2>4 DEF ResumeDma
  <2>5. CASE \E t \in Sender :
               \/ Call(t) \/ CreateSemaphore(t) \/ GiveCreated(t)
               \/ AskSemaphore(t) \/ TakeSemaphore(t) \/ TakeTimesOut(t)
               \/ CopyFrame(t) \/ GiveSemaphore(t)
    <3>1. tbus' = tbus /\ queue' = queue
      BY <2>5 DEF Call, CreateSemaphore, GiveCreated, AskSemaphore,
         TakeSemaphore, TakeTimesOut, CopyFrame, GiveSemaphore
    <3>2. ASSUME NEW u \in Sender, pc[u] = "resume"
          PROVE  pc'[u] = "resume"
      BY <2>5, <3>2 DEF SemInv, SemTypeOK, Call, CreateSemaphore, GiveCreated,
         AskSemaphore, TakeSemaphore, TakeTimesOut, CopyFrame, GiveSemaphore
    <3> QED
      BY <3>1, <3>2
  <2> QED
    BY <2>1, <2>2, <2>3, <2>4, <2>5 DEF Next, Dma, LowLevelOutput
<1>3. TransmissionGoesOn /\ (SemInv /\ RingInv) /\ [Next]_vars => TransmissionGoesOn'
  BY <1>2
<1> QED
  BY <1>1, <1>3, TransmitInvariance, PTL DEF Spec
=============================================================================
