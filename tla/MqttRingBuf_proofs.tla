-------------------------- MODULE MqttRingBuf_proofs --------------------------
(***************************************************************************)
(* For a ring of any size, messages of any lengths and a TCP that accepts  *)
(* any part of what it is offered: the ring delivers every byte in order   *)
(* until a message fills it completely.                                    *)
(***************************************************************************)
EXTENDS MqttRingBuf, TLAPS

(* The two invariants are inductive together: what a message may do to the *)
(* ring depends on mqtt_ringbuf_len being right before.                    *)
RingInv == TypeOK /\ IntactUntilFull /\ OnlyExactFill

-----------------------------------------------------------------------------
(* Going up from an index by at most one lap stays in the buffer. *)
LEMMA WrapInIndex ==
  ASSUME NEW i \in Index, NEW n \in 0 .. SIZE
  PROVE  Wrap(i, n) \in Index
BY RingConstants DEF Wrap, Index

(* Distance undoes Wrap within one lap. *)
LEMMA DistanceOfWrap ==
  ASSUME NEW i \in Index, NEW n \in 0 .. SIZE - 1
  PROVE  Distance(i, Wrap(i, n)) = n
BY RingConstants DEF Wrap, Distance, Index

(* Two advances make one. *)
LEMMA WrapTwice ==
  ASSUME NEW i \in Index, NEW n \in Nat, NEW k \in Nat, n + k <= SIZE
  PROVE  Wrap(Wrap(i, n), k) = Wrap(i, n + k)
BY RingConstants DEF Wrap, Index

(* Taking n of c bytes leaves c - n between the indices. *)
LEMMA DistanceAfterTake ==
  ASSUME NEW i \in Index, NEW j \in Index,
         NEW n \in 0 .. Distance(i, j)
  PROVE  Distance(Wrap(i, n), j) = Distance(i, j) - n
BY RingConstants DEF Wrap, Distance, Index

(* Putting n bytes that leave one place free adds n to the distance. *)
LEMMA DistanceAfterPut ==
  ASSUME NEW i \in Index, NEW j \in Index, NEW n \in Nat,
         Distance(i, j) + n < SIZE
  PROVE  Distance(i, Wrap(j, n)) = Distance(i, j) + n
BY RingConstants DEF Wrap, Distance, Index

(* A place k ahead of i is before j exactly when k is less than their      *)
(* distance; from j on it is k minus the distance ahead of j.              *)
LEMMA PlaceOfByte ==
  ASSUME NEW i \in Index, NEW j \in Index, NEW k \in 0 .. SIZE - 1
  PROVE  Distance(j, Wrap(i, k)) =
           IF k < Distance(i, j) THEN SIZE - Distance(i, j) + k
                                 ELSE k - Distance(i, j)
BY RingConstants DEF Wrap, Distance, Index

(* The two lengths the code computes stay below the size of the buffer.    *)
LEMMA LengthBound ==
  ASSUME TypeOK
  PROVE  Length \in 0 .. SIZE - 1 /\ LinearLength \in 0 .. Length
<1>1. get \in 0 .. SIZE - 1 /\ put \in 0 .. SIZE - 1
  BY DEF TypeOK, Index
<1>2. Length \in 0 .. SIZE - 1
  BY <1>1, RingConstants DEF Length, Distance
<1> QED  BY <1>1, <1>2, RingConstants DEF LinearLength

(* A message has at least two bytes.                                       *)
LEMMA TotalLenPositive ==
  ASSUME NEW r \in Remaining
  PROVE  TotalLen(r) \in Nat /\ TotalLen(r) > 1
BY RingConstants DEF TotalLen, LengthField

-----------------------------------------------------------------------------
(* The ring starts empty.                                                  *)
LEMMA InitInv == Init => RingInv
<1> SUFFICES ASSUME Init  PROVE RingInv
  OBVIOUS
<1>1. get \in Index /\ put \in Index /\ Length = 0
  BY RingConstants DEF Init, Index, Length, Distance
<1>2. TypeOK
  BY <1>1 DEF Init, TypeOK
<1>3. Intact
  BY <1>1, RingConstants DEF Init, Intact
<1> QED  BY <1>2, <1>3 DEF Init, RingInv, IntactUntilFull, OnlyExactFill

(* Connecting again empties it.                                            *)
LEMMA WipeInv == Wipe => RingInv'
<1> SUFFICES ASSUME Wipe  PROVE RingInv'
  OBVIOUS
<1>1. get' \in Index /\ put' \in Index /\ Length' = 0
  BY RingConstants DEF Wipe, Index, Length, Distance
<1>2. TypeOK'
  BY <1>1 DEF Wipe, TypeOK
<1>3. Intact'
  BY <1>1, RingConstants DEF Wipe, Intact
<1> QED  BY <1>2, <1>3 DEF Wipe, RingInv, IntactUntilFull, OnlyExactFill

(* What mqtt_output_send takes: a first part that ends in the buffer and a *)
(* second one only when the first has reached the end of the buffer.       *)
Takes(first, second) ==
  /\ first \in 1 .. LinearLength
  /\ second \in 0 .. Length - first
  /\ second > 0 => first = SIZE - get
  /\ Take(first, second)

(* mqtt_output_send takes what is there, in one piece or in two of which   *)
(* the first reaches the end of the buffer.                                *)
LEMMA SendTakes ==
  ASSUME RingInv, OutputSend
  PROVE  \E first, second \in Int : Takes(first, second)
<1>1. PICK room \in 0 .. MaxRoom, writes \in 0 .. 2 : Send(room, writes)
  BY DEF OutputSend
<1> DEFINE first == Least(room, LinearLength)
           second == IF room > LinearLength /\ writes = 2
                     THEN Least(room - first, Length - first) ELSE 0
<1>2. Length \in 0 .. SIZE - 1 /\ LinearLength \in 0 .. Length
  BY LengthBound DEF RingInv
<1>3. room \in Nat /\ room > 0 /\ LinearLength > 0 /\ Take(first, second)
  BY <1>1, RingConstants DEF Send
<1>4. first \in 1 .. LinearLength
  BY <1>2, <1>3, RingConstants DEF Least
<1>5. second \in 0 .. Length - first
  BY <1>2, <1>3, <1>4, RingConstants DEF Least
<1>6. ASSUME second > 0  PROVE first = SIZE - get
  <2>1. room > LinearLength /\ first = LinearLength /\ Length - first > 0
    BY <1>2, <1>3, <1>4, <1>5, <1>6, RingConstants DEF Least
  <2>2. LinearLength = SIZE - get
    BY <2>1, <1>2 DEF LinearLength
  <2> QED  BY <2>1, <2>2
<1> HIDE DEF first, second
<1>7. Takes(first, second)
  BY <1>3, <1>4, <1>5, <1>6 DEF Takes
<1>8. first \in Int /\ second \in Int
  BY <1>2, <1>4, <1>5, RingConstants
<1> QED  BY <1>7, <1>8

(* What is taken is the oldest content, and the rest stays in order.       *)
LEMMA TakeInv ==
  ASSUME RingInv, NEW first \in Int, NEW second \in Int, Takes(first, second)
  PROVE  RingInv'
<1> DEFINE n == first + second
<1>1. Length \in 0 .. SIZE - 1 /\ LinearLength \in 0 .. Length
  BY LengthBound DEF RingInv
<1>2. /\ first \in Nat /\ second \in Nat /\ n \in 0 .. Length
      /\ n \in 0 .. SIZE /\ first \in 0 .. SIZE
  BY <1>1, RingConstants DEF Takes
<1>3. /\ get \in Index /\ put \in Index /\ oldest \in Int /\ count \in Int
      /\ count' = count - n /\ oldest' = oldest + n
      /\ put' = put /\ buf' = buf /\ lost' = lost
  BY <1>2 DEF RingInv, TypeOK, Takes, Take
<1>4. get' = Wrap(get, n)
  BY <1>2, <1>3, WrapTwice DEF Takes, Take
<1>5. TypeOK'
  <2>1. get' \in Index
    BY <1>2, <1>3, <1>4, WrapInIndex
  <2>2. stream' \in {"inOrder", "garbled"}
    BY DEF Takes, Take, RingInv, TypeOK
  <2> QED  BY <2>1, <2>2, <1>2, <1>3 DEF RingInv, TypeOK
<1>6. ASSUME lost = "no"  PROVE Intact'
  <2>1. Intact
    BY <1>6 DEF RingInv, IntactUntilFull
  <2>2. count \in 0 .. SIZE - 1 /\ Length = count
    BY <2>1 DEF Intact
  <2>3. Length' = count'
    BY <2>2, <1>2, <1>3, <1>4, DistanceAfterTake DEF Length
  <2>4. ASSUME NEW k \in 0 .. count' - 1
        PROVE  buf'[Wrap(get', k)] = oldest' + k
    <3>1. n + k \in 0 .. count - 1 /\ n \in Nat /\ k \in Nat /\ n + k <= SIZE
      BY <2>2, <1>2, <1>3, RingConstants
    <3>2. Wrap(get', k) = Wrap(get, n + k)
      BY <3>1, <1>3, <1>4, WrapTwice
    <3>3. buf[Wrap(get, n + k)] = oldest + (n + k)
      BY <3>1, <2>1 DEF Intact
    <3> QED  BY <3>1, <3>2, <3>3, <1>2, <1>3
  <2>5. Right(get, first, oldest)
    <3> SUFFICES ASSUME NEW k \in 0 .. first - 1
                 PROVE  get + k \in Index /\ buf[get + k] = oldest + k
      BY DEF Right
    <3>1. k \in 0 .. count - 1 /\ get + k \in Index
      BY <1>1, <1>2, <1>3, <2>2, RingConstants
         DEF Takes, LinearLength, Index
    <3>2. Wrap(get, k) = get + k
      BY <3>1, <1>3, RingConstants DEF Wrap, Index
    <3> QED  BY <3>1, <3>2, <2>1 DEF Intact
  <2>6. Right(Wrap(get, first), second, oldest + first)
    <3> SUFFICES ASSUME NEW k \in 0 .. second - 1
                 PROVE  /\ Wrap(get, first) + k \in Index
                        /\ buf[Wrap(get, first) + k] = oldest + first + k
      BY DEF Right
    <3>1. first = SIZE - get /\ k \in Nat /\ first + k \in 0 .. count - 1
      BY <1>2, <1>3, <2>2, RingConstants DEF Takes
    <3>2. Wrap(get, first) + k \in Index /\ Wrap(get, first) + k = Wrap(get, first + k)
      BY <3>1, <1>2, <1>3, <2>2, RingConstants DEF Wrap, Index
    <3>3. buf[Wrap(get, first + k)] = oldest + (first + k)
      BY <3>1, <2>1 DEF Intact
    <3> QED  BY <3>2, <3>3, <3>1, <1>2, <1>3
  <2>7. stream' = "inOrder"
    BY <2>1, <2>5, <2>6 DEF Takes, Take, Intact
  <2>8. count' \in 0 .. SIZE - 1
    BY <2>2, <1>2, <1>3, RingConstants
  <2> QED  BY <2>3, <2>4, <2>7, <2>8 DEF Intact
<1> QED  BY <1>3, <1>5, <1>6 DEF RingInv, IntactUntilFull, OnlyExactFill

(* A message that leaves a place free goes in behind the content.          *)
LEMMA AppendInv ==
  ASSUME RingInv, NEW r \in Remaining, AppendOne(r)
  PROVE  RingInv'
<1> DEFINE n == TotalLen(r)
<1>1. n \in Nat /\ n > 1
  BY TotalLenPositive
<1> HIDE DEF n
<1>2. CheckSpace(r) /\ PutBytes(n) /\ count' = count + n
      /\ get' = get /\ oldest' = oldest /\ stream' = stream
  BY DEF AppendOne, n
<1>3. lost' = CASE lost # "no" \/ count + n < SIZE -> lost
               [] count + n = SIZE -> "exactFill"
               [] OTHER -> "overrun"
  BY DEF AppendOne, n
<1>4. TypeOK
  BY DEF RingInv
<1>5. TypeOK'
  <2>1. put' \in Index
    <3>1. CASE n <= SIZE
      BY <3>1, <1>1, <1>2, <1>4, WrapInIndex DEF PutBytes, TypeOK
    <3>2. CASE ~(n <= SIZE)
      <4>1. put + n \in Int  BY <1>1, <1>4, RingConstants DEF TypeOK, Index
      <4>2. (put + n) % SIZE \in 0 .. SIZE - 1  BY <4>1, RingConstants
      <4> QED  BY <3>2, <4>2, <1>2 DEF PutBytes, Index
    <3> QED  BY <3>1, <3>2
  <2>2. buf' \in [Index -> Int]
    <3>1. ASSUME NEW j \in Index
          PROVE  LET d == Distance(put, j)
                     laps == IF n <= SIZE THEN 0 ELSE (n - 1 - d) \div SIZE
                 IN  (IF d < n THEN oldest + count + d + laps * SIZE
                      ELSE buf[j]) \in Int
      <4> DEFINE d == Distance(put, j)
                 q == (n - 1 - d) \div SIZE
      <4>1. d \in Int /\ buf[j] \in Int /\ oldest + count \in Int
        BY <1>4, RingConstants DEF TypeOK, Distance, Index
      <4>2. q \in Int
        BY <4>1, <1>1, RingConstants
      <4> HIDE DEF d, q
      <4>3. \A laps \in Int : oldest + count + d + laps * SIZE \in Int
        BY <4>1, <1>4, RingConstants DEF TypeOK
      <4> QED  BY <4>1, <4>2, <4>3 DEF d, q
    <3> QED  BY <3>1, <1>2 DEF PutBytes
  <2>3. lost' \in {"no", "exactFill", "overrun"}
    BY <1>3, <1>4 DEF TypeOK
  <2> QED  BY <2>1, <2>2, <2>3, <1>1, <1>2, <1>4 DEF TypeOK
<1>6. ASSUME lost' = "no"  PROVE Intact'
  <2>1. lost = "no" /\ count + n < SIZE
    <3>1. lost # "no" \/ count + n < SIZE
      BY <1>6, <1>3
    <3> QED  BY <3>1, <1>6, <1>3
  <2>2. Intact
    BY <2>1 DEF RingInv, IntactUntilFull
  <2>3. count \in 0 .. SIZE - 1 /\ Length = count /\ n < SIZE
        /\ get \in Index /\ put \in Index /\ oldest \in Int
    BY <2>1, <2>2, <1>1, <1>4, RingConstants DEF Intact, TypeOK
  <2>4. put' = Wrap(put, n)
    BY <2>3, <1>1, <1>2, RingConstants DEF PutBytes
  <2>5. Length' = count'
    BY <2>1, <2>3, <2>4, <1>1, <1>2, DistanceAfterPut DEF Length
  <2>6. ASSUME NEW k \in 0 .. count' - 1
        PROVE  buf'[Wrap(get', k)] = oldest' + k
    <3> DEFINE j == Wrap(get, k)
               d == Distance(put, j)
    <3>1. k \in 0 .. SIZE - 1 /\ k \in 0 .. SIZE
      BY <2>1, <2>3, <1>1, <1>2, RingConstants
    <3>2. j \in Index
      BY <3>1, <2>3, WrapInIndex
    <3>3. d = IF k < count THEN SIZE - count + k ELSE k - count
      BY <3>1, <2>3, PlaceOfByte DEF Length
    <3> HIDE DEF j, d
    <3>4. buf'[j] = IF d < n THEN oldest + count + d + 0 * SIZE ELSE buf[j]
      BY <3>2, <2>3, <1>1, <1>2, RingConstants DEF PutBytes, d
    <3>5. CASE k < count
      <4>1. ~(d < n)  BY <3>3, <3>5, <3>1, <2>1, <2>3, <1>1, RingConstants
      <4>2. buf[j] = oldest + k
        BY <3>5, <3>1, <2>2, <2>3 DEF Intact, j
      <4> QED  BY <4>1, <4>2, <3>4, <1>2 DEF j
    <3>6. CASE ~(k < count)
      <4>1. d = k - count /\ d < n
        BY <3>3, <3>6, <3>1, <2>3, <1>1, <1>2, RingConstants
      <4>2. oldest + count + d + 0 * SIZE = oldest + k
        BY <4>1, <3>1, <2>3, RingConstants
      <4> QED  BY <4>1, <4>2, <3>4, <1>2 DEF j
    <3> QED  BY <3>5, <3>6
  <2>7. count' \in 0 .. SIZE - 1 /\ stream' = "inOrder"
    BY <2>1, <2>2, <2>3, <1>1, <1>2, RingConstants DEF Intact
  <2> QED  BY <2>5, <2>6, <2>7 DEF Intact
<1>7. OnlyExactFill'
  <2>1. SUFFICES ASSUME \A q \in Remaining : TotalLen(q) < U16,
                        lost' = "overrun"
                 PROVE  FALSE
    BY DEF OnlyExactFill
  <2>2. lost # "overrun"
    BY <2>1 DEF RingInv, OnlyExactFill
  <2>3. lost = "no" /\ ~(count + n < SIZE) /\ count + n # SIZE
    BY <2>1, <2>2, <1>3, <1>4 DEF TypeOK
  <2>4. count \in 0 .. SIZE - 1 /\ Length = count
    BY <2>3 DEF RingInv, IntactUntilFull, Intact
  <2>5. n <= SIZE - count
    BY <2>1, <2>4, <1>2 DEF CheckSpace, Truncate, Free, n
  <2> QED  BY <2>3, <2>4, <2>5, <1>1, RingConstants
<1> QED  BY <1>5, <1>6, <1>7 DEF RingInv, IntactUntilFull

(* Every step keeps the invariant.                                         *)
LEMMA StepInv == RingInv /\ [Next]_vars => RingInv'
<1> SUFFICES ASSUME RingInv, [Next]_vars  PROVE RingInv'
  OBVIOUS
<1>1. CASE Wipe
  BY <1>1, WipeInv
<1>2. CASE AppendMessage
  BY <1>2, AppendInv DEF AppendMessage
<1>3. CASE OutputSend
  BY <1>3, SendTakes, TakeInv
<1>4. CASE UNCHANGED vars
  BY <1>4 DEF vars, RingInv, TypeOK, IntactUntilFull, OnlyExactFill, Intact,
              Length, Distance
<1> QED  BY <1>1, <1>2, <1>3, <1>4 DEF Next

(* The invariant holds for good.                                           *)
LEMMA Invariance == Spec => []RingInv
BY InitInv, StepInv, PTL DEF Spec

-----------------------------------------------------------------------------
(* The indices never leave the buffer, whatever the lengths: no write past *)
(* the end of the ring.                                                    *)
THEOREM RingTypeCorrect == Spec => []TypeOK
BY Invariance, PTL DEF RingInv

(* Until an exact fill or an overrun TCP is given every byte the client    *)
(* appended, once and in order.                                            *)
THEOREM RingDelivers == Spec => []IntactUntilFull
BY Invariance, PTL DEF RingInv

(* With lengths that fit a u16_t, content is lost by exact fill only.      *)
THEOREM RingLosesByExactFill == Spec => []OnlyExactFill
BY Invariance, PTL DEF RingInv
=============================================================================
