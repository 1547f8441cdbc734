--------------------------- MODULE MqttClient_proofs ---------------------------
(***************************************************************************)
(* Theorems about MqttClient, for every ring, queue and TCP window, every  *)
(* number of requests, any timeout, interval and reconnect policy: types,  *)
(* one interval timer, the clock of the requests, no request without an    *)
(* end, CONNECT first, no use of NULL.                                     *)
(*                                                                         *)
(* They follow from one inductive invariant, IInv, whose parts are         *)
(*   Core   types; conn exactly when connected; room in the queue and the  *)
(*          ring; CONNECT first out; the queue holds exactly the pending   *)
(*          requests, each once; and the differences in the queue add up   *)
(*          to the time every request has left;                            *)
(*   Data   a client without data_cb has asked for no publish, so none is  *)
(*          on its way to it;                                              *)
(*   Hand   until the server has accepted, what it has sent begins with    *)
(*          its answer to CONNECT;                                         *)
(*   Timed  the interval timer runs once while the client is connected,    *)
(*          and not at all otherwise.                                      *)
(* Core holds between any two functions of a handler: its clock takes what *)
(* the expiry loop has still to subtract as a parameter.  Data, Hand and   *)
(* Timed hold when a handler has ended.                                    *)
(*                                                                         *)
(* The loops of the client are recursive functions.  LoopExists shows by   *)
(* induction (SetInduction, from the well-foundedness of <) that they are  *)
(* defined, and each has a lemma that carries its invariant from turn to   *)
(* turn.  A handler is a chain of functions from one client to the next:   *)
(* an operator names what each does, a lemma proves it.                    *)
(***************************************************************************)
EXTENDS MqttClient, TLAPS, WellFoundedInduction

(* Induction over the naturals, for a set instead of a predicate.          *)
LEMMA SetInduction ==
  ASSUME NEW S, 0 \in S, \A n \in Nat : n \in S => n + 1 \in S
  PROVE  \A n \in Nat : n \in S
<1> DEFINE T == Nat \ S
           R == OpToRel(<, Nat)
<1>1. SUFFICES ASSUME T # {} PROVE FALSE
  OBVIOUS
<1>2. IsWellFoundedOn(R, Nat)
  BY NatLessThanWellFounded
<1>3. \A x, y \in Nat : y < x => <<y, x>> \in R
  BY DEF OpToRel
<1> HIDE DEF R
<1>4. PICK x \in T : \A y \in T : ~ (<<y, x>> \in R)
  BY <1>1, <1>2, WFMin
<1>5. x # 0 /\ x \in Nat
  OBVIOUS
<1>6. x - 1 \in Nat /\ x - 1 < x
  BY <1>5
<1>7. x - 1 \in S
  BY <1>3, <1>4, <1>5, <1>6
<1>8. (x - 1) + 1 = x
  BY <1>5
<1> QED
  BY <1>4, <1>5, <1>6, <1>7, <1>8

(* The bodies of the client's loops: one turn takes x and the entry e.     *)
Turn(loop, x, e) ==
  CASE loop = "total_diff" -> x + e.timeout_diff
    [] loop = "parse_incoming" -> Parse(x, e)
    [] loop = "complete_qos0" -> CompleteOne(x)
    [] loop = "time_elapsed" -> ElapseOne(x)

Unrolled(f, loop, start, n, entries) ==
  /\ f = [i \in 0 .. n |-> f[i]]
  /\ \A i \in 0 .. n : f[i] = IF i = 0 THEN start
                              ELSE Turn(loop, f[i - 1], entries[i])

(* Every loop of the client ends: the recursive function exists.           *)
LEMMA LoopExists ==
  ASSUME NEW loop, NEW start, NEW n \in Nat, NEW entries
  PROVE  \E f : Unrolled(f, loop, start, n, entries)
<1> DEFINE Has == {k \in Nat : \E f : Unrolled(f, loop, start, k, entries)}
<1>1. 0 \in Has
  <2>1. PICK f : f = [i \in 0 .. 0 |-> start]
    OBVIOUS
  <2>2. Unrolled(f, loop, start, 0, entries)
    BY <2>1 DEF Unrolled
  <2> QED
    BY <2>2
<1>2. ASSUME NEW k \in Nat, k \in Has PROVE k + 1 \in Has
  <2>1. PICK g : Unrolled(g, loop, start, k, entries)
    BY <1>2
  <2>2. PICK f : f = [i \in 0 .. k + 1 |->
                        IF i = k + 1 THEN Turn(loop, g[k], entries[k + 1]) ELSE g[i]]
    OBVIOUS
  <2>3. f = [i \in 0 .. k + 1 |-> f[i]]
    BY <2>2
  <2>4. ASSUME NEW i \in 0 .. k + 1
        PROVE  f[i] = IF i = 0 THEN start ELSE Turn(loop, f[i - 1], entries[i])
    <3>1. CASE i = k + 1
      <4>1. i # 0 /\ i - 1 = k /\ k \in 0 .. k + 1 /\ k # k + 1
        BY <3>1
      <4>2. f[i - 1] = g[k]
        BY <2>2, <4>1
      <4>3. f[i] = Turn(loop, g[k], entries[k + 1])
        BY <2>2, <3>1
      <4> QED
        BY <3>1, <4>1, <4>2, <4>3
    <3>2. CASE i # k + 1
      <4>1. i \in 0 .. k /\ f[i] = g[i]
        BY <2>2, <3>2
      <4>2. i # 0 => f[i - 1] = g[i - 1]
        BY <2>2, <4>1
      <4>3. g[i] = IF i = 0 THEN start ELSE Turn(loop, g[i - 1], entries[i])
        BY <2>1, <4>1 DEF Unrolled
      <4> QED
        BY <4>1, <4>2, <4>3
    <3> QED
      BY <3>1, <3>2
  <2>5. Unrolled(f, loop, start, k + 1, entries)
    BY <2>3, <2>4 DEF Unrolled
  <2> QED
    BY <2>5
<1> HIDE DEF Has
<1>3. n \in Has
  BY <1>1, <1>2, SetInduction
<1> QED
  BY <1>3 DEF Has

-----------------------------------------------------------------------------
(***************************************************************************)
(* Types.                                                                  *)
(***************************************************************************)
Fate == {"none", "pending", "ERR_OK", "ERR_TIMEOUT", "ERR_ABRT", "dropped"}
ConnStates == {"TCP_DISCONNECTED", "TCP_CONNECTING", "MQTT_CONNECTING",
               "MQTT_CONNECTED"}
MsgTypes == {"none", "CONNECT", "CONNACK", "CONNACK_REFUSED", "SUBSCRIBE",
             "SUBACK", "SUBACK_DENIED", "PUBLISH0", "PUBLISH1", "PUBLISH2",
             "PUBACK", "PUBREC", "PUBREL", "PUBCOMP", "PINGREQ", "PINGRESP"}
Msg == [type : MsgTypes, id : 0 .. IdMod, k : 0 .. MaxReqs]
PendReq == [pkt_id : Nat, timeout_diff : Int, k : Nat, age : Nat]
State == [
  timers : Nat, mem : BOOLEAN, nullSend : BOOLEAN, nullCall : BOOLEAN,
  conn : BOOLEAN,
  conn_state : ConnStates,
  cyclic_tick : Nat, server_watchdog : Nat, pkt_id_seq : 0 .. IdMod - 1,
  pend : Seq(PendReq), ring : Seq(Msg), data_cb : BOOLEAN,
  unacked : 0 .. SndBuf,
  tx : Seq(Msg), rx : Seq(Msg), granted : BOOLEAN, npub : 0 .. MaxPub,
  nreq : 0 .. MaxReqs,
  req : [Requests -> Fate], qos0 : SUBSET Nat, served : SUBSET Nat,
  firstOut : MsgTypes]

LEMMA Constants ==
  /\ SndBuf \in Nat /\ SndBuf > 0 /\ RingCap \in Nat /\ RingCap > 0
  /\ MQTT_REQ_MAX_IN_FLIGHT \in Nat /\ MQTT_REQ_MAX_IN_FLIGHT > 0
  /\ MQTT_CYCLIC_TIMER_INTERVAL \in Nat /\ MQTT_CYCLIC_TIMER_INTERVAL > 0
  /\ MQTT_REQ_TIMEOUT \in Nat /\ MQTT_REQ_TIMEOUT > 0
  /\ MQTT_CONNECT_TIMOUT \in Nat
  /\ KeepAlive \in Nat /\ MaxPub \in Nat
  /\ MaxReqs \in Nat /\ MaxReqs >= 2 /\ IdMod \in Nat /\ IdMod > 1
  BY ClientConstants

LEMMA StateFields ==
  ASSUME NEW s \in State
  PROVE  /\ s.timers \in Nat /\ s.mem \in BOOLEAN
         /\ s.nullSend \in BOOLEAN /\ s.nullCall \in BOOLEAN
         /\ s.conn \in BOOLEAN
         /\ s.cyclic_tick \in Nat /\ s.server_watchdog \in Nat
         /\ s.conn_state \in ConnStates
         /\ s.pkt_id_seq \in 0 .. IdMod - 1 /\ s.pend \in Seq(PendReq)
         /\ s.ring \in Seq(Msg) /\ s.data_cb \in BOOLEAN /\ s.unacked \in 0 .. SndBuf
         /\ s.tx \in Seq(Msg) /\ s.rx \in Seq(Msg) /\ s.granted \in BOOLEAN
         /\ s.npub \in 0 .. MaxPub /\ s.nreq \in 0 .. MaxReqs
         /\ s.req \in [Requests -> Fate]
         /\ s.qos0 \in SUBSET Nat /\ s.served \in SUBSET Nat
         /\ s.firstOut \in MsgTypes
  BY DEF State

LEMMA Empties == <<>> \in Seq(Msg) /\ <<>> \in Seq(PendReq)
  OBVIOUS

LEMMA WipeType == ASSUME NEW s \in State PROVE Wipe(s) \in State
<1>1. [k \in Requests |-> "none"] \in [Requests -> Fate]
  BY DEF Fate
<1>2. 0 \in Nat /\ 0 \in 0 .. IdMod - 1 /\ 0 \in 0 .. SndBuf
      /\ 0 \in 0 .. MaxPub /\ 0 \in 0 .. MaxReqs
  BY ClientConstants
<1>3. {} \in SUBSET Nat
  OBVIOUS
<1>5. FALSE \in BOOLEAN
  OBVIOUS
<1>6. "none" \in MsgTypes
  BY DEF MsgTypes
<1>4. "TCP_DISCONNECTED" \in ConnStates
  BY DEF ConnStates
<1> QED
  BY <1>1, <1>2, <1>3, <1>4, <1>5, <1>6, Empties, StateFields, Zenon DEF Wipe, Wiped, State

LEMMA Append1Type ==
  ASSUME NEW s \in State, NEW msg \in Msg PROVE Append1(s, msg) \in State
<1>1. Append(s.ring, msg) \in Seq(Msg)
  BY StateFields
<1> QED
  BY <1>1, Zenon DEF Append1, State

LEMMA SendCases ==
  ASSUME NEW s \in State
  PROVE  \/ /\ ~s.conn
            /\ Send(s) = [s EXCEPT !.nullSend = TRUE]
         \/ s.conn /\ Send(s) = s
         \/ \E n \in 1 .. Len(s.ring) :
              /\ s.conn /\ n <= SndBuf - s.unacked
              /\ Send(s) = [s EXCEPT
                   !.ring = SubSeq(s.ring, n + 1, Len(s.ring)),
                   !.tx = s.tx \o SubSeq(s.ring, 1, n),
                   !.unacked = s.unacked + n,
                   !.firstOut = IF s.firstOut = "none" THEN s.ring[1].type
                                ELSE s.firstOut]
<1> DEFINE room == SndBuf - s.unacked
           n == IF room < Len(s.ring) THEN room ELSE Len(s.ring)
<1>1. s.ring \in Seq(Msg) /\ s.unacked \in 0 .. SndBuf /\ SndBuf \in Nat
  BY StateFields, ClientConstants
<1>2. n \in 1 .. Len(s.ring) => SubSeq(s.ring, 1, n)[1] = s.ring[1]
  BY <1>1
<1>3. n \in Int /\ n <= Len(s.ring) /\ n <= room
  BY <1>1
<1>4. CASE ~s.conn
  BY <1>4 DEF Send
<1>5. CASE s.conn /\ (n = 0 \/ ~s.mem)
  BY <1>5 DEF Send
<1>6. CASE s.conn /\ n # 0 /\ s.mem
  <2>1. n \in 1 .. Len(s.ring)
    BY <1>1, <1>3, <1>6
  <2>2. Send(s) = [s EXCEPT
          !.ring = SubSeq(s.ring, n + 1, Len(s.ring)),
          !.tx = s.tx \o SubSeq(s.ring, 1, n),
          !.unacked = s.unacked + n,
          !.firstOut = IF s.firstOut = "none" THEN SubSeq(s.ring, 1, n)[1].type
                       ELSE s.firstOut]
    BY <1>6 DEF Send
  <2> QED
    BY <1>2, <1>3, <1>6, <2>1, <2>2
<1> QED
  BY <1>4, <1>5, <1>6, StateFields



LEMMA SendType == ASSUME NEW s \in State PROVE Send(s) \in State
<1>1. s.ring \in Seq(Msg) /\ s.tx \in Seq(Msg)
  BY StateFields
<1>. s.unacked \in 0 .. SndBuf /\ SndBuf \in Nat
  BY StateFields, Constants
<1>2. CASE Send(s) = [s EXCEPT !.nullSend = TRUE]
  BY <1>2, ZenonT(60) DEF State
<1>3. CASE Send(s) = s
  BY <1>3
<1>4. ASSUME NEW n \in 1 .. Len(s.ring), n <= SndBuf - s.unacked,
             Send(s) = [s EXCEPT
                   !.ring = SubSeq(s.ring, n + 1, Len(s.ring)),
                   !.tx = s.tx \o SubSeq(s.ring, 1, n),
                   !.unacked = s.unacked + n,
                   !.firstOut = IF s.firstOut = "none" THEN s.ring[1].type
                                ELSE s.firstOut]
      PROVE  Send(s) \in State
  <2>1. SubSeq(s.ring, n + 1, Len(s.ring)) \in Seq(Msg)
    BY <1>1
  <2>2. s.tx \o SubSeq(s.ring, 1, n) \in Seq(Msg)
    BY <1>1
  <2>3. s.unacked + n \in 0 .. SndBuf
    BY <1>1, <1>4
  <2>4. (IF s.firstOut = "none" THEN s.ring[1].type ELSE s.firstOut) \in MsgTypes
    <3>1. s.ring[1] \in Msg
      BY <1>1
    <3> QED
      BY <3>1, StateFields DEF Msg
  <2> QED
    BY <1>4, <2>1, <2>2, <2>3, <2>4, ZenonT(60) DEF State
<1> QED
  BY <1>2, <1>3, <1>4, SendCases



-----------------------------------------------------------------------------
(***************************************************************************)
(* The queue of pending requests.                                          *)
(***************************************************************************)
LEMMA PendReqFields ==
  ASSUME NEW r \in PendReq
  PROVE  /\ r.pkt_id \in Nat /\ r.timeout_diff \in Int /\ r.k \in Nat
         /\ r.age \in Nat
  BY DEF PendReq

LEMMA PendReqWith ==
  ASSUME NEW r \in PendReq, NEW d \in Int
  PROVE  /\ [r EXCEPT !.timeout_diff = d] \in PendReq
         /\ [r EXCEPT !.timeout_diff = d].timeout_diff = d
         /\ [r EXCEPT !.timeout_diff = d].pkt_id = r.pkt_id
         /\ [r EXCEPT !.timeout_diff = d].k = r.k
         /\ [r EXCEPT !.timeout_diff = d].age = r.age
<1>1. [r EXCEPT !.timeout_diff = d] \in PendReq
  BY Zenon DEF PendReq
<1> QED
  BY <1>1 DEF PendReq

LEMMA Concatenation ==
  ASSUME NEW T, NEW a \in Seq(T), NEW b \in Seq(T)
  PROVE  /\ a \o b \in Seq(T) /\ Len(a \o b) = Len(a) + Len(b)
         /\ \A j \in 1 .. Len(a) : (a \o b)[j] = a[j]
         /\ \A j \in 1 .. Len(b) : (a \o b)[Len(a) + j] = b[j]
  OBVIOUS

LEMMA TotalDiffFunction ==
  ASSUME NEW pend \in Seq(PendReq)
  PROVE  \E f \in [0 .. Len(pend) -> Int] :
           /\ f = [i \in 0 .. Len(pend) |->
                     IF i = 0 THEN 0 ELSE f[i - 1] + pend[i].timeout_diff]
           /\ TotalDiff(pend) = f[Len(pend)]
<1> DEFINE n == Len(pend)
           Fix(f) == f = [i \in 0 .. n |->
                       IF i = 0 THEN 0 ELSE f[i - 1] + pend[i].timeout_diff]
<1>1. n \in Nat /\ \A i \in 1 .. n : pend[i].timeout_diff \in Int
  <2>1. \A i \in 1 .. n : pend[i] \in PendReq
    OBVIOUS
  <2> QED
    BY <2>1 DEF PendReq
<1>2. PICK f : Unrolled(f, "total_diff", 0, n, pend)
  BY <1>1, LoopExists
<1>3. \A x, e : Turn("total_diff", x, e) = x + e.timeout_diff
  BY DEF Turn
<1>5. Fix(f)
  <2> DEFINE h == [i \in 0 .. n |->
                     IF i = 0 THEN 0 ELSE f[i - 1] + pend[i].timeout_diff]
  <2>1. \A i \in 0 .. n : f[i] = h[i]
    BY <1>2, <1>3 DEF Unrolled
  <2>2. f = [i \in 0 .. n |-> f[i]]
    BY <1>2 DEF Unrolled
  <2> QED
    BY <2>1, <2>2
<1> DEFINE g == CHOOSE h : Fix(h)
<1>6. Fix(g)
  BY <1>5
<1>7. TotalDiff(pend) = g[n]
  BY DEF TotalDiff
<1> HIDE DEF g
<1>8. g \in [0 .. n -> Int]
  <2> DEFINE Typed == {i \in Nat : i <= n => g[i] \in Int}
  <2>1. 0 \in Typed
    BY <1>1, <1>6
  <2>2. ASSUME NEW i \in Nat, i \in Typed PROVE i + 1 \in Typed
    <3> SUFFICES ASSUME i + 1 <= n PROVE g[i + 1] \in Int
      OBVIOUS
    <3>1. i + 1 \in 0 .. n /\ i + 1 # 0 /\ (i + 1) - 1 = i /\ i + 1 \in 1 .. n
      BY <1>1
    <3>2. g[i + 1] = g[i] + pend[i + 1].timeout_diff
      BY <1>6, <3>1
    <3> QED
      BY <1>1, <2>2, <3>1, <3>2
  <2> HIDE DEF Typed
  <2>3. \A i \in Nat : i \in Typed
    BY <2>1, <2>2, SetInduction
  <2>4. \A i \in 0 .. n : g[i] \in Int
    BY <1>1, <2>3 DEF Typed
  <2>5. g = [i \in 0 .. n |-> g[i]]
    BY <1>6
  <2> QED
    BY <2>4, <2>5
<1> QED
  BY <1>6, <1>7, <1>8

LEMMA TotalDiffType ==
  ASSUME NEW pend \in Seq(PendReq) PROVE TotalDiff(pend) \in Int
<1>1. PICK f \in [0 .. Len(pend) -> Int] : TotalDiff(pend) = f[Len(pend)]
  BY TotalDiffFunction
<1>2. Len(pend) \in 0 .. Len(pend)
  OBVIOUS
<1> QED
  BY <1>1, <1>2

LEMMA MinOfNat ==
  ASSUME NEW I, I \subseteq Nat, I # {}
  PROVE  Min(I) \in I /\ \A y \in I : Min(I) <= y
<1> DEFINE R == OpToRel(<, Nat)
<1>1. IsWellFoundedOn(R, Nat)
  BY NatLessThanWellFounded
<1>2. \A x, y \in Nat : y < x => <<y, x>> \in R
  BY DEF OpToRel
<1> HIDE DEF R
<1>3. PICK x \in I : \A y \in I : ~ (<<y, x>> \in R)
  BY <1>1, WFMin
<1>4. \A y \in I : x <= y
  <2> TAKE y \in I
  <2>1. x \in Nat /\ y \in Nat /\ ~ (y < x)
    BY <1>2, <1>3
  <2> QED
    BY <2>1
<1> QED
  BY <1>4 DEF Min

LEMMA FindRequestFinds ==
  ASSUME NEW pend \in Seq(PendReq), NEW id
  PROVE  \/ /\ FindRequest(pend, id) = 0
            /\ \A i \in DOMAIN pend : pend[i].pkt_id # id
         \/ /\ FindRequest(pend, id) \in DOMAIN pend
            /\ pend[FindRequest(pend, id)].pkt_id = id
<1> DEFINE I == {i \in 1 .. Len(pend) : pend[i].pkt_id = id}
<1>1. FindRequest(pend, id) = IF I # {} THEN Min(I) ELSE 0
  BY DEF FindRequest, SelectInSeq
<1>2. I \subseteq Nat /\ DOMAIN pend = 1 .. Len(pend)
  OBVIOUS
<1>3. CASE I = {}
  BY <1>1, <1>2, <1>3
<1>4. CASE I # {}
  <2>1. Min(I) \in I
    BY <1>2, <1>4, MinOfNat
  <2> QED
    BY <1>1, <1>2, <1>4, <2>1
<1> QED
  BY <1>3, <1>4

(* The request at position i leaves, its remaining time goes to the next. *)
LEMMA TakeRequestIs ==
  ASSUME NEW pend \in Seq(PendReq), NEW id, HasRequest(pend, id),
         NEW i, i = FindRequest(pend, id)
  PROVE  /\ i \in 1 .. Len(pend) /\ pend[i].pkt_id = id
         /\ TakeRequest(pend, id) \in Seq(PendReq)
         /\ Len(TakeRequest(pend, id)) = Len(pend) - 1
         /\ \A j \in 1 .. i - 1 : TakeRequest(pend, id)[j] = pend[j]
         /\ \A j \in i + 1 .. Len(pend) - 1 :
              TakeRequest(pend, id)[j] = pend[j + 1]
         /\ i <= Len(pend) - 1 =>
              TakeRequest(pend, id)[i] =
                [pend[i + 1] EXCEPT !.timeout_diff =
                   pend[i + 1].timeout_diff + pend[i].timeout_diff]
<1> DEFINE rest == RemoveAt(pend, i)
           n == Len(pend)
           taken == TakeRequest(pend, id)
<1>1. i \in 1 .. n /\ pend[i].pkt_id = id /\ n \in Nat
  BY FindRequestFinds DEF HasRequest
<1>2. /\ SubSeq(pend, 1, i - 1) \in Seq(PendReq)
      /\ Len(SubSeq(pend, 1, i - 1)) = i - 1
      /\ \A j \in 1 .. i - 1 : SubSeq(pend, 1, i - 1)[j] = pend[j]
  BY <1>1
<1>3. /\ SubSeq(pend, i + 1, n) \in Seq(PendReq)
      /\ Len(SubSeq(pend, i + 1, n)) = n - i
      /\ \A j \in 1 .. n - i : SubSeq(pend, i + 1, n)[j] = pend[i + j]
  BY <1>1
<1> DEFINE front == SubSeq(pend, 1, i - 1)
           back == SubSeq(pend, i + 1, n)
<1>4. rest = front \o back
  BY DEF RemoveAt
<1> HIDE DEF front, back
<1>a. /\ front \in Seq(PendReq) /\ Len(front) = i - 1
      /\ back \in Seq(PendReq) /\ Len(back) = n - i
      /\ \A j \in 1 .. i - 1 : front[j] = pend[j]
      /\ \A j \in 1 .. n - i : back[j] = pend[i + j]
  BY <1>2, <1>3 DEF front, back
<1>5. rest \in Seq(PendReq) /\ Len(rest) = n - 1
  BY <1>1, <1>4, <1>a, Concatenation
<1>6. \A j \in 1 .. i - 1 : rest[j] = pend[j]
  BY <1>1, <1>4, <1>a, Concatenation
<1>9. \A j \in i .. n - 1 : rest[j] = pend[j + 1]
  <2> TAKE j \in i .. n - 1
  <2>1. j - (i - 1) \in 1 .. n - i /\ i + (j - (i - 1)) = j + 1
    BY <1>1
  <2>2. rest[j] = back[j - (i - 1)]
    <3>1. (i - 1) + (j - (i - 1)) = j
      BY <1>1
    <3> HIDE DEF rest
    <3> QED
      BY <1>4, <1>a, <2>1, <3>1, Concatenation
  <2> QED
    BY <1>a, <2>1, <2>2
<1> HIDE DEF rest
<1>7. CASE i <= n - 1
  <2> DEFINE new == [rest[i] EXCEPT !.timeout_diff =
                       rest[i].timeout_diff + pend[i].timeout_diff]
  <2>1. i \in 1 .. Len(rest) /\ rest[i] = pend[i + 1]
    BY <1>1, <1>5, <1>9, <1>7
  <2>2. taken = [rest EXCEPT ![i] = new]
    BY <1>5, <1>7, <2>1 DEF TakeRequest, rest
  <2>3. rest[i] \in PendReq /\ pend[i] \in PendReq
    BY <1>1, <1>5, <2>1
  <2>4. new \in PendReq
    <3>1. rest[i].timeout_diff + pend[i].timeout_diff \in Int
      BY <2>3, PendReqFields
    <3> QED
      BY <2>3, <3>1, PendReqWith
  <2>7. new = [pend[i + 1] EXCEPT !.timeout_diff =
                 pend[i + 1].timeout_diff + pend[i].timeout_diff]
    BY <2>1, Zenon
  <2> HIDE DEF new
  <2>5. taken \in Seq(PendReq) /\ Len(taken) = n - 1
    BY <1>5, <2>1, <2>2, <2>4
  <2>6. taken[i] = new /\ \A j \in 1 .. n - 1 : j # i => taken[j] = rest[j]
    BY <1>5, <2>1, <2>2
  <2> HIDE DEF taken
  <2>8. \A j \in 1 .. i - 1 : taken[j] = pend[j]
    BY <1>1, <1>6, <2>6
  <2>9. \A j \in i + 1 .. n - 1 : taken[j] = pend[j + 1]
    BY <1>1, <1>9, <2>6
  <2> QED
    BY <1>1, <2>5, <2>6, <2>7, <2>8, <2>9 DEF taken
<1>8. CASE ~(i <= n - 1)
  <2>1. taken = rest
    BY <1>5, <1>8 DEF TakeRequest, rest
  <2> QED
    BY <1>1, <1>5, <1>6, <1>9, <1>8, <2>1
<1> QED
  BY <1>7, <1>8
LEMMA TotalDiffSum ==
  ASSUME NEW pend \in Seq(PendReq), pend # <<>>, NEW deadline \in Int,
         pend[1].timeout_diff + pend[1].age = deadline,
         \A i \in 2 .. Len(pend) :
           pend[i].timeout_diff = pend[i - 1].age - pend[i].age
  PROVE  TotalDiff(pend) + pend[Len(pend)].age = deadline
<1>1. PICK f \in [0 .. Len(pend) -> Int] :
        /\ f = [i \in 0 .. Len(pend) |->
                  IF i = 0 THEN 0 ELSE f[i - 1] + pend[i].timeout_diff]
        /\ TotalDiff(pend) = f[Len(pend)]
  BY TotalDiffFunction
<1>2. Len(pend) \in Nat /\ Len(pend) >= 1
  OBVIOUS
<1>3. \A i \in 1 .. Len(pend) : pend[i].timeout_diff \in Int /\ pend[i].age \in Nat
  <2>1. \A i \in 1 .. Len(pend) : pend[i] \in PendReq
    OBVIOUS
  <2> QED
    BY <2>1, PendReqFields
<1>4. \A i \in 1 .. Len(pend) : f[i] = f[i - 1] + pend[i].timeout_diff /\ f[i - 1] \in Int
  <2> TAKE i \in 1 .. Len(pend)
  <2>1. i \in 0 .. Len(pend) /\ i # 0 /\ i - 1 \in 0 .. Len(pend)
    BY <1>2
  <2>2. f[i - 1] \in Int
    BY <2>1
  <2> QED
    BY <1>1, <2>1, <2>2
<1>5. f[0] = 0
  <2>1. 0 \in 0 .. Len(pend)
    BY <1>2
  <2> QED
    BY <1>1, <2>1
<1> DEFINE Sum == {i \in Nat : i + 1 <= Len(pend) =>
                                 f[i + 1] + pend[i + 1].age = deadline}
<1>6. 0 \in Sum
  <2>1. 1 \in 1 .. Len(pend) /\ 1 - 1 = 0 /\ 0 + 1 = 1
    BY <1>2
  <2>2. f[1] = f[0] + pend[1].timeout_diff
    BY <1>4, <2>1
  <2>3. f[1] + pend[1].age = deadline
    BY <1>3, <1>5, <2>1, <2>2
  <2> QED
    BY <2>1, <2>3
<1>7. ASSUME NEW i \in Nat, i \in Sum PROVE i + 1 \in Sum
  <2>1. SUFFICES ASSUME (i + 1) + 1 <= Len(pend)
                 PROVE  f[(i + 1) + 1] + pend[(i + 1) + 1].age = deadline
    OBVIOUS
  <2> DEFINE j == (i + 1) + 1
  <2>2. j \in 2 .. Len(pend) /\ j \in 1 .. Len(pend) /\ j - 1 = i + 1
        /\ i + 1 \in 1 .. Len(pend) /\ i + 1 <= Len(pend)
    BY <1>2, <2>1
  <2>3. f[i + 1] + pend[i + 1].age = deadline
    BY <1>7, <2>2
  <2>4. f[j] = f[i + 1] + pend[j].timeout_diff /\ f[i + 1] \in Int
    BY <1>4, <2>2
  <2>5. pend[j].timeout_diff = pend[i + 1].age - pend[j].age
    BY <2>2
  <2> HIDE DEF j
  <2>6. f[j] + pend[j].age = deadline
    BY <1>3, <2>2, <2>3, <2>4, <2>5
  <2> QED
    BY <2>6 DEF j
<1> HIDE DEF Sum
<1>8. Len(pend) - 1 \in Sum
  <2>1. Len(pend) - 1 \in Nat
    BY <1>2
  <2> QED
    BY <1>6, <1>7, <2>1, SetInduction
<1>9. (Len(pend) - 1) + 1 = Len(pend)
  BY <1>2
<1> QED
  BY <1>1, <1>8, <1>9 DEF Sum

LEMMA TotalDiffEmpty == TotalDiff(<<>>) = 0
<1>1. PICK f \in [0 .. 0 -> Int] :
        /\ f = [i \in 0 .. 0 |->
                  IF i = 0 THEN 0 ELSE f[i - 1] + <<>>[i].timeout_diff]
        /\ TotalDiff(<<>>) = f[0]
  <2>1. <<>> \in Seq(PendReq) /\ Len(<<>>) = 0
    OBVIOUS
  <2> QED
    BY <2>1, TotalDiffFunction
<1>2. 0 \in 0 .. 0
  OBVIOUS
<1> QED
  BY <1>1, <1>2

(* The clocks of the queue, `left' of the interval not yet taken from it:  *)
(* the first request is due at its own deadline, every other one as much   *)
(* later than the request before as it is younger.                         *)
Clock(pend, left) ==
  /\ pend # <<>> => /\ pend[1].timeout_diff >= 0
                    /\ pend[1].timeout_diff + pend[1].age = MQTT_REQ_TIMEOUT + left
  /\ \A i \in 2 .. Len(pend) :
       pend[i].timeout_diff = pend[i - 1].age - pend[i].age
  /\ \A i, j \in 1 .. Len(pend) : i <= j => pend[j].age <= pend[i].age

LEMMA Entries ==
  ASSUME NEW pend \in Seq(PendReq)
  PROVE  /\ Len(pend) \in Nat
         /\ \A i \in 1 .. Len(pend) :
              /\ pend[i] \in PendReq /\ pend[i].pkt_id \in Nat
              /\ pend[i].timeout_diff \in Int
              /\ pend[i].k \in Nat /\ pend[i].age \in Nat
<1>1. \A i \in 1 .. Len(pend) : pend[i] \in PendReq
  OBVIOUS
<1> QED
  BY <1>1, PendReqFields

LEMMA ClockEmpty == \A left : Clock(<<>>, left)
  BY DEF Clock

LEMMA TakeRequestFields ==
  ASSUME NEW pend \in Seq(PendReq), NEW id, HasRequest(pend, id),
         NEW i, i = FindRequest(pend, id), NEW q, q = TakeRequest(pend, id)
  PROVE  /\ i \in 1 .. Len(pend) /\ pend[i].pkt_id = id
         /\ q \in Seq(PendReq) /\ Len(q) = Len(pend) - 1
         /\ \A j \in 1 .. i - 1 : q[j] = pend[j]
         /\ \A j \in i .. Len(pend) - 1 :
              /\ q[j].pkt_id = pend[j + 1].pkt_id
              /\ q[j].k = pend[j + 1].k
              /\ q[j].age = pend[j + 1].age
         /\ \A j \in i + 1 .. Len(pend) - 1 :
              q[j].timeout_diff = pend[j + 1].timeout_diff
         /\ i <= Len(pend) - 1 =>
              q[i].timeout_diff = pend[i + 1].timeout_diff + pend[i].timeout_diff
<1> DEFINE n == Len(pend)
<1>1. /\ i \in 1 .. n /\ pend[i].pkt_id = id /\ q \in Seq(PendReq)
      /\ Len(q) = n - 1
      /\ \A j \in 1 .. i - 1 : q[j] = pend[j]
      /\ \A j \in i + 1 .. n - 1 : q[j] = pend[j + 1]
      /\ i <= n - 1 =>
           q[i] = [pend[i + 1] EXCEPT !.timeout_diff =
                     pend[i + 1].timeout_diff + pend[i].timeout_diff]
  BY TakeRequestIs
<1>2. n \in Nat /\ \A j \in 1 .. n : pend[j] \in PendReq /\ pend[j].timeout_diff \in Int
  BY Entries
<1>3. ASSUME i <= n - 1
      PROVE  /\ q[i].timeout_diff = pend[i + 1].timeout_diff + pend[i].timeout_diff
             /\ q[i].pkt_id = pend[i + 1].pkt_id
             /\ q[i].k = pend[i + 1].k
             /\ q[i].age = pend[i + 1].age
  <2>1. i + 1 \in 1 .. n
    BY <1>1, <1>2, <1>3
  <2> DEFINE r == pend[i + 1]
             d == pend[i + 1].timeout_diff + pend[i].timeout_diff
  <2>2. r \in PendReq /\ d \in Int
    BY <1>1, <1>2, <2>1
  <2>3. q[i] = [r EXCEPT !.timeout_diff = d]
    BY <1>1, <1>3
  <2> HIDE DEF r, d
  <2>4. /\ q[i].timeout_diff = d /\ q[i].pkt_id = r.pkt_id
        /\ q[i].k = r.k /\ q[i].age = r.age
    BY <2>2, <2>3, PendReqWith
  <2> QED
    BY <2>4 DEF r, d
<1>4. ASSUME NEW j \in i .. n - 1
      PROVE  /\ q[j].pkt_id = pend[j + 1].pkt_id
             /\ q[j].k = pend[j + 1].k
             /\ q[j].age = pend[j + 1].age
  <2>1. CASE j = i
    BY <1>1, <1>3, <2>1
  <2>2. CASE j # i
    <3>1. j \in i + 1 .. n - 1
      BY <1>1, <1>2, <2>2
    <3>2. q[j] = pend[j + 1]
      BY <1>1, <3>1
    <3> QED
      BY <3>2
  <2> QED
    BY <2>1, <2>2
<1>5. ASSUME NEW j \in i + 1 .. n - 1
      PROVE  q[j].timeout_diff = pend[j + 1].timeout_diff
  BY <1>1
<1> QED
  BY <1>1, <1>3, <1>4, <1>5

(* Taking any request out of the queue leaves the others their deadlines.  *)
LEMMA ClockTake ==
  ASSUME NEW pend \in Seq(PendReq), NEW id, HasRequest(pend, id),
         NEW left \in Int, Clock(pend, left)
  PROVE  Clock(TakeRequest(pend, id), left)
<1> DEFINE i == FindRequest(pend, id)
           q == TakeRequest(pend, id)
           n == Len(pend)
<1>1. /\ i \in 1 .. n /\ q \in Seq(PendReq) /\ Len(q) = n - 1
      /\ \A j \in 1 .. i - 1 : q[j] = pend[j]
      /\ \A j \in i .. n - 1 : q[j].age = pend[j + 1].age
      /\ \A j \in i + 1 .. n - 1 : q[j].timeout_diff = pend[j + 1].timeout_diff
      /\ i <= n - 1 =>
           q[i].timeout_diff = pend[i + 1].timeout_diff + pend[i].timeout_diff
  BY TakeRequestFields
<1> HIDE DEF i, q
<1>2. /\ n \in Nat /\ MQTT_REQ_TIMEOUT \in Nat
      /\ \A j \in 1 .. n : pend[j].timeout_diff \in Int /\ pend[j].age \in Nat
  BY Entries, Constants
<1>c. /\ pend[1].timeout_diff >= 0
      /\ pend[1].timeout_diff + pend[1].age = MQTT_REQ_TIMEOUT + left
      /\ \A j \in 2 .. n : pend[j].timeout_diff = pend[j - 1].age - pend[j].age
      /\ \A j, k \in 1 .. n : j <= k => pend[k].age <= pend[j].age
  BY <1>1, <1>2 DEF Clock
<1>5. ASSUME q # <<>>
      PROVE  /\ q[1].timeout_diff >= 0
             /\ q[1].timeout_diff + q[1].age = MQTT_REQ_TIMEOUT + left
  <2>1. n - 1 >= 1 /\ 2 \in 1 .. n /\ 1 \in 1 .. n /\ 1 \in 1 .. n - 1
        /\ 2 \in 2 .. n /\ 2 - 1 = 1
    BY <1>1, <1>2, <1>5
  <2>2. CASE i = 1
    <3>1. q[1].timeout_diff = pend[2].timeout_diff + pend[1].timeout_diff
      BY <1>1, <2>1, <2>2
    <3>2. q[1].age = pend[2].age
      BY <1>1, <2>1, <2>2
    <3>3. pend[2].timeout_diff = pend[1].age - pend[2].age /\ pend[2].age <= pend[1].age
      BY <1>c, <2>1
    <3> QED
      BY <1>2, <1>c, <2>1, <3>1, <3>2, <3>3
  <2>3. CASE i # 1
    BY <1>1, <1>c, <2>1, <2>3
  <2> QED
    BY <2>2, <2>3
<1>6. ASSUME NEW j \in 2 .. n - 1
      PROVE  q[j].timeout_diff = q[j - 1].age - q[j].age
  <2>1. j \in 1 .. n - 1 /\ j - 1 \in 1 .. n - 1 /\ (j + 1) - 1 = j
        /\ j \in 2 .. n /\ j + 1 \in 2 .. n /\ j \in 1 .. n /\ j + 1 \in 1 .. n
        /\ j - 1 \in 1 .. n /\ (j - 1) + 1 = j
    BY <1>2
  <2>2. CASE j < i
    <3>1. q[j] = pend[j] /\ q[j - 1] = pend[j - 1]
      BY <1>1, <2>1, <2>2
    <3> QED
      BY <1>c, <2>1, <3>1
  <2>3. CASE j = i
    <3>1. q[j].timeout_diff = pend[j + 1].timeout_diff + pend[j].timeout_diff
      BY <1>1, <2>1, <2>3
    <3>2. q[j].age = pend[j + 1].age /\ q[j - 1] = pend[j - 1]
      BY <1>1, <2>1, <2>3
    <3>3. pend[j + 1].timeout_diff = pend[j].age - pend[j + 1].age
      BY <1>c, <2>1
    <3>4. pend[j].timeout_diff = pend[j - 1].age - pend[j].age
      BY <1>c, <2>1
    <3> QED
      BY <1>2, <2>1, <3>1, <3>2, <3>3, <3>4, SMTT(60)
  <2>4. CASE j > i
    <3>1. j \in i .. n - 1 /\ j \in i + 1 .. n - 1 /\ j - 1 \in i .. n - 1
      BY <1>1, <1>2, <2>1, <2>4
    <3>2. /\ q[j].timeout_diff = pend[j + 1].timeout_diff
          /\ q[j].age = pend[j + 1].age
          /\ q[j - 1].age = pend[j].age
      BY <1>1, <2>1, <3>1
    <3> QED
      BY <1>2, <1>c, <2>1, <3>1, <3>2
  <2> QED
    BY <1>1, <2>2, <2>3, <2>4
<1>7. ASSUME NEW j \in 1 .. n - 1, NEW k \in 1 .. n - 1, j <= k
      PROVE  q[k].age <= q[j].age
  <2>1. ASSUME NEW l \in 1 .. n - 1
        PROVE  \/ l < i /\ l \in 1 .. n /\ q[l].age = pend[l].age
               \/ l >= i /\ l + 1 \in 1 .. n /\ q[l].age = pend[l + 1].age
    <3>1. l \in 1 .. n /\ l + 1 \in 1 .. n
      BY <1>2
    <3>2. CASE l < i
      <4>1. l \in 1 .. i - 1
        BY <1>1, <3>1, <3>2
      <4> QED
        BY <1>1, <3>1, <3>2, <4>1
    <3>3. CASE l >= i
      <4>1. l \in i .. n - 1
        BY <1>1, <1>2, <3>3
      <4> QED
        BY <1>1, <3>1, <3>3, <4>1
    <3> QED
      BY <1>1, <3>2, <3>3
  <2>2. CASE j < i /\ k < i
    BY <1>1, <1>7, <1>c, <2>1, <2>2
  <2>3. CASE j < i /\ k >= i
    <3>1. /\ q[j].age = pend[j].age /\ q[k].age = pend[k + 1].age
          /\ j \in 1 .. n /\ k + 1 \in 1 .. n /\ j <= k + 1
      BY <1>1, <1>2, <1>7, <2>1, <2>3
    <3> QED
      BY <1>c, <3>1
  <2>4. CASE j >= i /\ k >= i
    <3>1. /\ q[j].age = pend[j + 1].age /\ q[k].age = pend[k + 1].age
          /\ j + 1 \in 1 .. n /\ k + 1 \in 1 .. n /\ j + 1 <= k + 1
      BY <1>1, <1>2, <1>7, <2>1, <2>4
    <3> QED
      BY <1>c, <3>1
  <2> QED
    BY <1>1, <1>7, <2>2, <2>3, <2>4
<1> QED
  BY <1>1, <1>5, <1>6, <1>7 DEF Clock, q

(* The new request is due MQTT_REQ_TIMEOUT from now.                       *)
Extended(pend, r, q) ==
  /\ q \in Seq(PendReq) /\ Len(q) = Len(pend) + 1
  /\ \A i \in 1 .. Len(pend) : q[i] = pend[i]
  /\ q[Len(pend) + 1].timeout_diff = MQTT_REQ_TIMEOUT - TotalDiff(pend)
  /\ q[Len(pend) + 1].k = r.k /\ q[Len(pend) + 1].age = r.age
  /\ q[Len(pend) + 1].pkt_id = r.pkt_id

LEMMA AppendRequestIs ==
  ASSUME NEW pend \in Seq(PendReq), NEW r \in PendReq,
         NEW q, q = AppendRequest(pend, r)
  PROVE  Extended(pend, r, q)
<1> DEFINE d == MQTT_REQ_TIMEOUT - TotalDiff(pend)
           e == [r EXCEPT !.timeout_diff = d]
<1>1. d \in Int
  BY TotalDiffType, Constants
<1> HIDE DEF d
<1>2. /\ e \in PendReq /\ e.timeout_diff = d /\ e.k = r.k /\ e.age = r.age
      /\ e.pkt_id = r.pkt_id
  BY <1>1, PendReqWith
<1>3. q = Append(pend, e)
  BY DEF AppendRequest, d
<1> HIDE DEF e
<1>4. /\ q \in Seq(PendReq) /\ Len(q) = Len(pend) + 1 /\ q[Len(pend) + 1] = e
      /\ \A i \in 1 .. Len(pend) : q[i] = pend[i]
  BY <1>2, <1>3
<1> QED
  BY <1>2, <1>4 DEF d, Extended

LEMMA ClockAppend ==
  ASSUME NEW pend \in Seq(PendReq), Clock(pend, 0),
         NEW q \in Seq(PendReq), Len(q) = Len(pend) + 1,
         \A i \in 1 .. Len(pend) : q[i] = pend[i],
         q[Len(pend) + 1].timeout_diff = MQTT_REQ_TIMEOUT - TotalDiff(pend),
         q[Len(pend) + 1].age = 0
  PROVE  Clock(q, 0)
<1> DEFINE n == Len(pend)
<1>1. /\ q \in Seq(PendReq) /\ Len(q) = n + 1
      /\ \A i \in 1 .. n : q[i] = pend[i]
      /\ q[n + 1].timeout_diff = MQTT_REQ_TIMEOUT - TotalDiff(pend)
      /\ q[n + 1].age = 0
  OBVIOUS
<1>2. /\ n \in Nat /\ MQTT_REQ_TIMEOUT \in Nat
      /\ \A i \in 1 .. n : pend[i].timeout_diff \in Int /\ pend[i].age \in Nat
  BY Entries, Constants
<1>3. CASE pend = <<>>
  <2>1. q[1].timeout_diff = MQTT_REQ_TIMEOUT /\ q[1].age = 0 /\ Len(q) = 1
    BY <1>1, <1>2, <1>3, TotalDiffEmpty
  <2> QED
    BY <1>1, <1>2, <2>1 DEF Clock
<1>4. CASE pend # <<>>
  <2>1. n >= 1 /\ TotalDiff(pend) + pend[n].age = MQTT_REQ_TIMEOUT
    <3>1. pend[1].timeout_diff + pend[1].age = MQTT_REQ_TIMEOUT
      BY <1>2, <1>4 DEF Clock
    <3>2. \A i \in 2 .. n : pend[i].timeout_diff = pend[i - 1].age - pend[i].age
      BY DEF Clock
    <3> QED
      BY <1>2, <1>4, <3>1, <3>2, TotalDiffSum
  <2>2. q[n + 1].timeout_diff = pend[n].age
    BY <1>1, <1>2, <2>1, TotalDiffType
  <2>3. q[1] = pend[1] /\ q # <<>>
    BY <1>1, <1>2, <2>1
  <2>4. /\ q[1].timeout_diff >= 0
        /\ q[1].timeout_diff + q[1].age = MQTT_REQ_TIMEOUT + 0
    BY <1>4, <2>3 DEF Clock
  <2>5. ASSUME NEW i \in 2 .. n + 1
        PROVE  q[i].timeout_diff = q[i - 1].age - q[i].age
    <3>1. CASE i = n + 1
      <4>1. q[n] = pend[n] /\ i - 1 = n
        BY <1>1, <1>2, <2>1, <3>1
      <4> QED
        BY <1>1, <1>2, <2>1, <2>2, <3>1, <4>1
    <3>2. CASE i # n + 1
      <4>1. i \in 2 .. n /\ i \in 1 .. n /\ i - 1 \in 1 .. n
        BY <1>2, <3>2
      <4> QED
        BY <1>1, <4>1 DEF Clock
    <3> QED
      BY <3>1, <3>2
  <2>6. ASSUME NEW i \in 1 .. n + 1, NEW j \in 1 .. n + 1, i <= j
        PROVE  q[j].age <= q[i].age
    <3>1. CASE j = n + 1 /\ i = n + 1
      BY <1>1, <3>1
    <3>2. CASE j = n + 1 /\ i # n + 1
      <4>1. i \in 1 .. n
        BY <1>2, <3>2
      <4> QED
        BY <1>1, <1>2, <3>2, <4>1
    <3>3. CASE j # n + 1
      <4>1. j \in 1 .. n
        BY <1>2, <3>3
      <4>2. i \in 1 .. n
        BY <1>2, <2>6, <4>1
      <4> QED
        BY <1>1, <2>6, <4>1, <4>2 DEF Clock
    <3> QED
      BY <3>1, <3>2, <3>3
  <2> QED
    BY <1>1, <2>4, <2>5, <2>6 DEF Clock
<1> QED
  BY <1>3, <1>4

LEMMA TailIs ==
  ASSUME NEW T, NEW q \in Seq(T), q # <<>>
  PROVE  /\ Head(q) = q[1] /\ q[1] \in T
         /\ Tail(q) \in Seq(T) /\ Len(Tail(q)) = Len(q) - 1
         /\ \A i \in 1 .. Len(q) - 1 : Tail(q)[i] = q[i + 1]
  OBVIOUS

(* The first request expires.                                              *)
LEMMA ClockExpire ==
  ASSUME NEW pend \in Seq(PendReq), pend # <<>>, NEW left \in Int,
         Clock(pend, left)
  PROVE  Clock(Tail(pend), left - pend[1].timeout_diff)
<1> DEFINE q == Tail(pend)
           n == Len(pend)
<1>1. /\ q \in Seq(PendReq) /\ Len(q) = n - 1
      /\ \A i \in 1 .. n - 1 : q[i] = pend[i + 1]
  BY TailIs
<1> HIDE DEF q
<1>2. /\ n \in Nat /\ n >= 1 /\ MQTT_REQ_TIMEOUT \in Nat
      /\ \A i \in 1 .. n : pend[i].timeout_diff \in Int /\ pend[i].age \in Nat
  BY Entries, Constants
<1>3. /\ pend[1].timeout_diff + pend[1].age = MQTT_REQ_TIMEOUT + left
      /\ \A i \in 2 .. n : pend[i].timeout_diff = pend[i - 1].age - pend[i].age
      /\ \A i, j \in 1 .. n : i <= j => pend[j].age <= pend[i].age
  BY DEF Clock
<1>4. ASSUME q # <<>>
      PROVE  /\ q[1].timeout_diff >= 0
             /\ q[1].timeout_diff + q[1].age
                  = MQTT_REQ_TIMEOUT + (left - pend[1].timeout_diff)
  <2>1. /\ 1 \in 1 .. n - 1 /\ 2 \in 2 .. n /\ 2 \in 1 .. n /\ 1 \in 1 .. n
        /\ 2 - 1 = 1 /\ 1 + 1 = 2
    BY <1>1, <1>2, <1>4
  <2>2. q[1] = pend[2]
    BY <1>1, <2>1
  <2>3. pend[2].timeout_diff = pend[1].age - pend[2].age /\ pend[2].age <= pend[1].age
    BY <1>3, <2>1
  <2>4. pend[1].timeout_diff \in Int /\ pend[1].age \in Nat /\ pend[2].age \in Nat
    BY <1>2, <2>1
  <2>5. pend[2].timeout_diff + pend[2].age = pend[1].age
    BY <2>3, <2>4
  <2>6. pend[1].age = MQTT_REQ_TIMEOUT + (left - pend[1].timeout_diff)
    BY <1>2, <1>3, <2>4, SMTT(60)
  <2>7. pend[2].timeout_diff >= 0
    BY <2>3, <2>4
  <2> QED
    BY <2>2, <2>5, <2>6, <2>7
<1>5. ASSUME NEW i \in 2 .. n - 1
      PROVE  q[i].timeout_diff = q[i - 1].age - q[i].age
  <2>1. i \in 1 .. n - 1 /\ i - 1 \in 1 .. n - 1 /\ (i - 1) + 1 = i
        /\ i + 1 \in 2 .. n /\ (i + 1) - 1 = i
    BY <1>2
  <2>2. q[i] = pend[i + 1] /\ q[i - 1] = pend[i]
    BY <1>1, <2>1
  <2> QED
    BY <1>3, <2>1, <2>2
<1>6. ASSUME NEW i \in 1 .. n - 1, NEW j \in 1 .. n - 1, i <= j
      PROVE  q[j].age <= q[i].age
  <2>1. i + 1 \in 1 .. n /\ j + 1 \in 1 .. n /\ i + 1 <= j + 1
    BY <1>2, <1>6
  <2> QED
    BY <1>1, <1>3, <2>1
<1> QED
  BY <1>1, <1>4, <1>5, <1>6 DEF Clock, q

(* The rest of the interval is taken from the first request.               *)
Rested(pend, q) ==
  /\ q \in Seq(PendReq) /\ Len(q) = Len(pend) /\ Clock(q, 0)
  /\ \A i \in 1 .. Len(pend) : /\ q[i].k = pend[i].k
                               /\ q[i].pkt_id = pend[i].pkt_id

LEMMA ClockElapse ==
  ASSUME NEW pend \in Seq(PendReq), pend # <<>>, NEW left \in Int,
         Clock(pend, left), left < pend[1].timeout_diff,
         NEW q, q = [pend EXCEPT ![1] = [pend[1] EXCEPT !.timeout_diff =
                                           pend[1].timeout_diff - left]]
  PROVE  Rested(pend, q)
<1> DEFINE n == Len(pend)
           d == pend[1].timeout_diff - left
           e == [pend[1] EXCEPT !.timeout_diff = d]
<1>1. /\ n \in Nat /\ n >= 1 /\ MQTT_REQ_TIMEOUT \in Nat
      /\ \A i \in 1 .. n : /\ pend[i] \in PendReq /\ pend[i].age \in Nat
                           /\ pend[i].timeout_diff \in Int
  BY Entries, Constants
<1>2. /\ e \in PendReq /\ e.timeout_diff = d /\ e.age = pend[1].age
      /\ e.k = pend[1].k /\ e.pkt_id = pend[1].pkt_id
  <2>1. d \in Int /\ pend[1] \in PendReq
    BY <1>1
  <2> HIDE DEF d
  <2> QED
    BY <2>1, PendReqWith
<1>3. q = [pend EXCEPT ![1] = e]
  OBVIOUS
<1> HIDE DEF e
<1>4. /\ q \in Seq(PendReq) /\ Len(q) = n /\ q[1] = e
      /\ \A i \in 2 .. n : q[i] = pend[i]
  BY <1>1, <1>2, <1>3
<1>5. \A i \in 1 .. n : /\ q[i].age = pend[i].age /\ q[i].k = pend[i].k
                        /\ q[i].pkt_id = pend[i].pkt_id
  <2> TAKE i \in 1 .. n
  <2>1. i = 1 \/ i \in 2 .. n
    BY <1>1
  <2> QED
    BY <1>2, <1>4, <2>1
<1>6. q[1].timeout_diff >= 0 /\ q[1].timeout_diff + q[1].age = MQTT_REQ_TIMEOUT + 0
  <2>1. pend[1].timeout_diff + pend[1].age = MQTT_REQ_TIMEOUT + left
    BY DEF Clock
  <2>2. 1 \in 1 .. n /\ pend[1].timeout_diff \in Int /\ pend[1].age \in Nat
    BY <1>1
  <2>3. q[1].timeout_diff = pend[1].timeout_diff - left /\ q[1].age = pend[1].age
    BY <1>2, <1>4
  <2>4. MQTT_REQ_TIMEOUT \in Nat /\ left < pend[1].timeout_diff
    BY <1>1
  <2> HIDE DEF d
  <2>6. (pend[1].timeout_diff - left) + pend[1].age = MQTT_REQ_TIMEOUT + 0
    BY <2>1, <2>2, <2>4
  <2>7. pend[1].timeout_diff - left >= 0
    BY <2>2, <2>4
  <2> QED
    BY <2>3, <2>6, <2>7
<1>7. ASSUME NEW i \in 2 .. n
      PROVE  q[i].timeout_diff = q[i - 1].age - q[i].age
  <2>1. i \in 1 .. n /\ i - 1 \in 1 .. n
    BY <1>1
  <2>2. pend[i].timeout_diff = pend[i - 1].age - pend[i].age
    BY DEF Clock
  <2> QED
    BY <1>4, <1>5, <2>1, <2>2
<1>8. ASSUME NEW i \in 1 .. n, NEW j \in 1 .. n, i <= j
      PROVE  q[j].age <= q[i].age
  BY <1>5, <1>8 DEF Clock
<1>9. Clock(q, 0)
  BY <1>4, <1>6, <1>7, <1>8 DEF Clock
<1> QED
  BY <1>4, <1>5, <1>9 DEF Rested

AgedTo(pend, q, t) ==
  /\ q \in Seq(PendReq) /\ Len(q) = Len(pend) /\ Clock(q, t)
  /\ \A i \in 1 .. Len(pend) : /\ q[i].k = pend[i].k
                               /\ q[i].pkt_id = pend[i].pkt_id

LEMMA ClockAged ==
  ASSUME NEW pend \in Seq(PendReq), Clock(pend, 0), NEW t \in Nat,
         NEW q, q = [i \in DOMAIN pend |-> [pend[i] EXCEPT !.age = pend[i].age + t]]
  PROVE  AgedTo(pend, q, t)
<1> DEFINE n == Len(pend)
<1>1. /\ n \in Nat /\ MQTT_REQ_TIMEOUT \in Nat /\ DOMAIN pend = 1 .. n
      /\ \A i \in 1 .. n : /\ pend[i] \in PendReq /\ pend[i].age \in Nat
                           /\ pend[i].timeout_diff \in Int
  BY Entries, Constants
<1>2. \A i \in 1 .. n : q[i] = [pend[i] EXCEPT !.age = pend[i].age + t]
  BY <1>1
<1>3. ASSUME NEW r \in PendReq, NEW a \in Nat
      PROVE  /\ [r EXCEPT !.age = a] \in PendReq
             /\ [r EXCEPT !.age = a].age = a
             /\ [r EXCEPT !.age = a].k = r.k
             /\ [r EXCEPT !.age = a].pkt_id = r.pkt_id
             /\ [r EXCEPT !.age = a].timeout_diff = r.timeout_diff
  <2>1. [r EXCEPT !.age = a] \in PendReq
    BY Zenon DEF PendReq
  <2> QED
    BY <2>1 DEF PendReq
<1>4. \A i \in 1 .. n :
        /\ q[i] \in PendReq /\ q[i].age = pend[i].age + t
        /\ q[i].k = pend[i].k /\ q[i].pkt_id = pend[i].pkt_id
        /\ q[i].timeout_diff = pend[i].timeout_diff
  <2> TAKE i \in 1 .. n
  <2>1. pend[i] \in PendReq /\ pend[i].age + t \in Nat
    BY <1>1
  <2>2. q[i] = [pend[i] EXCEPT !.age = pend[i].age + t]
    BY <1>2
  <2> DEFINE r == pend[i]
             a == pend[i].age + t
  <2> HIDE DEF r, a
  <2>3. /\ [r EXCEPT !.age = a] \in PendReq
        /\ [r EXCEPT !.age = a].age = a
        /\ [r EXCEPT !.age = a].k = r.k
        /\ [r EXCEPT !.age = a].pkt_id = r.pkt_id
        /\ [r EXCEPT !.age = a].timeout_diff = r.timeout_diff
    BY <1>3, <2>1 DEF r, a
  <2> QED
    BY <2>2, <2>3 DEF r, a
<1>5. q \in Seq(PendReq) /\ Len(q) = n
  <2>1. q = [i \in 1 .. n |-> q[i]]
    BY <1>1
  <2>2. q \in [1 .. n -> PendReq]
    BY <1>4, <2>1
  <2> QED
    BY <1>1, <2>2
<1>6. ASSUME q # <<>>
      PROVE  /\ q[1].timeout_diff >= 0
             /\ q[1].timeout_diff + q[1].age = MQTT_REQ_TIMEOUT + t
  <2>1. 1 \in 1 .. n /\ pend # <<>>
    BY <1>1, <1>5, <1>6
  <2>2. /\ pend[1].timeout_diff >= 0
        /\ pend[1].timeout_diff + pend[1].age = MQTT_REQ_TIMEOUT + 0
    BY <2>1 DEF Clock
  <2>3. q[1].timeout_diff = pend[1].timeout_diff /\ q[1].age = pend[1].age + t
        /\ pend[1].timeout_diff \in Int /\ pend[1].age \in Nat
    BY <1>1, <1>4, <2>1
  <2>4. \A x, a, y, z \in Int : x + a = y + 0 => x + (a + z) = y + z
    OBVIOUS
  <2>5. pend[1].timeout_diff + (pend[1].age + t) = MQTT_REQ_TIMEOUT + t
    BY <1>1, <2>2, <2>3, <2>4
  <2> QED
    BY <2>2, <2>3, <2>5
<1>7. ASSUME NEW i \in 2 .. n
      PROVE  q[i].timeout_diff = q[i - 1].age - q[i].age
  <2>1. i \in 1 .. n /\ i - 1 \in 1 .. n
    BY <1>1
  <2>2. pend[i].timeout_diff = pend[i - 1].age - pend[i].age
    BY DEF Clock
  <2>3. /\ q[i].timeout_diff = pend[i].timeout_diff /\ pend[i].age \in Nat
        /\ q[i].age = pend[i].age + t
    BY <1>1, <1>4, <2>1
  <2>4. q[i - 1].age = pend[i - 1].age + t /\ pend[i - 1].age \in Nat
    BY <1>1, <1>4, <2>1
  <2>6. (pend[i - 1].age + t) - (pend[i].age + t) = pend[i - 1].age - pend[i].age
    BY <2>3, <2>4
  <2> QED
    BY <2>2, <2>3, <2>4, <2>6
<1>8. ASSUME NEW i \in 1 .. n, NEW j \in 1 .. n, i <= j
      PROVE  q[j].age <= q[i].age
  <2>1. pend[j].age <= pend[i].age
    BY <1>8 DEF Clock
  <2> QED
    BY <1>1, <1>4, <2>1, SMTT(60)
<1>9. Clock(q, t)
  BY <1>5, <1>6, <1>7, <1>8 DEF Clock
<1> QED
  BY <1>4, <1>5, <1>9 DEF AgedTo

(* The queue holds exactly the pending requests, each once.                *)
Queued(pend, req, nreq) ==
  /\ \A i, j \in 1 .. Len(pend) : pend[i].k = pend[j].k => i = j
  /\ \A i \in 1 .. Len(pend) : /\ pend[i].k \in Requests
                               /\ req[pend[i].k] = "pending"
  /\ \A k \in Requests : req[k] = "pending" =>
       \E i \in 1 .. Len(pend) : pend[i].k = k
  /\ \A k \in Requests : k > nreq => req[k] = "none"

LEMMA QueuedSame ==
  ASSUME NEW pend \in Seq(PendReq), NEW req, NEW nreq, Queued(pend, req, nreq),
         NEW q, Len(q) = Len(pend), \A i \in 1 .. Len(pend) : q[i].k = pend[i].k
  PROVE  Queued(q, req, nreq)
  BY DEF Queued

Added(pend, q, k) ==
  /\ Len(q) = Len(pend) + 1
  /\ \A i \in 1 .. Len(pend) : q[i] = pend[i]
  /\ q[Len(pend) + 1].k = k

LEMMA QueuedAdd ==
  ASSUME NEW pend \in Seq(PendReq), NEW req \in [Requests -> Fate], NEW nreq \in Nat,
         Queued(pend, req, nreq), nreq + 1 \in Requests,
         NEW q, Added(pend, q, nreq + 1)
  PROVE  Queued(q, [req EXCEPT ![nreq + 1] = "pending"], nreq + 1)
<1> DEFINE n == Len(pend)
           k == nreq + 1
           new == [req EXCEPT ![k] = "pending"]
<1>0. /\ Len(q) = n + 1
      /\ \A i \in 1 .. n : q[i] = pend[i]
      /\ q[n + 1].k = nreq + 1
  BY DEF Added
<1>1. n \in Nat /\ Requests \subseteq Nat
  BY DEF Requests
<1>2. new[k] = "pending" /\ \A l \in Requests : l # k => new[l] = req[l]
  BY DEF Requests
<1>3. req[k] = "none"
  BY DEF Queued
<1>4. \A i \in 1 .. n : pend[i].k \in Requests /\ pend[i].k # k
  BY <1>3 DEF Queued
<1>5. \A i \in 1 .. n + 1 : i \in 1 .. n \/ i = n + 1
  BY <1>1
<1> HIDE DEF new, k
<1>q. q[n + 1].k = k /\ k \in Requests /\ k = nreq + 1
  BY <1>0 DEF k
<1>6. ASSUME NEW i \in 1 .. n + 1, NEW j \in 1 .. n + 1, q[i].k = q[j].k
      PROVE  i = j
  <2>1. CASE i \in 1 .. n /\ j \in 1 .. n
    BY <1>0, <1>6, <2>1 DEF Queued
  <2>2. CASE i = n + 1 /\ j \in 1 .. n
    BY <1>0, <1>4, <1>6, <1>q, <2>2
  <2>3. CASE j = n + 1 /\ i \in 1 .. n
    BY <1>0, <1>4, <1>6, <1>q, <2>3
  <2> QED
    BY <1>5, <2>1, <2>2, <2>3
<1>7. ASSUME NEW i \in 1 .. n + 1
      PROVE  q[i].k \in Requests /\ new[q[i].k] = "pending"
  <2>1. CASE i \in 1 .. n
    BY <1>0, <1>2, <1>4, <2>1 DEF Queued
  <2>2. CASE i = n + 1
    BY <1>2, <1>q, <2>2
  <2> QED
    BY <1>5, <2>1, <2>2
<1>8. ASSUME NEW l \in Requests, new[l] = "pending"
      PROVE  \E i \in 1 .. n + 1 : q[i].k = l
  <2>1. CASE l = k
    BY <1>1, <1>q, <2>1
  <2>2. CASE l # k
    <3>1. PICK i \in 1 .. n : pend[i].k = l
      BY <1>2, <1>8, <2>2 DEF Queued
    <3> QED
      BY <1>0, <1>1, <3>1
  <2> QED
    BY <2>1, <2>2
<1>9. ASSUME NEW l \in Requests, l > k PROVE new[l] = "none"
  <2>1. l # k /\ l > nreq
    BY <1>1, <1>9, <1>q
  <2> QED
    BY <1>2, <2>1 DEF Queued
<1> QED
  BY <1>0, <1>6, <1>7, <1>8, <1>9 DEF Queued, new, k

(* The request at position i leaves with an end.                           *)
LEMMA QueuedEnd ==
  ASSUME NEW pend \in Seq(PendReq), NEW req \in [Requests -> Fate], NEW nreq \in Nat,
         Queued(pend, req, nreq), NEW i \in 1 .. Len(pend),
         NEW q, Len(q) = Len(pend) - 1,
         \A j \in 1 .. i - 1 : q[j].k = pend[j].k,
         \A j \in i .. Len(pend) - 1 : q[j].k = pend[j + 1].k,
         NEW err, err # "pending"
  PROVE  Queued(q, [req EXCEPT ![pend[i].k] = err], nreq)
<1> DEFINE n == Len(pend)
           k == pend[i].k
           new == [req EXCEPT ![k] = err]
           at(j) == IF j < i THEN j ELSE j + 1
<1>1. n \in Nat /\ Requests \subseteq Nat /\ k \in Requests /\ req[k] = "pending"
  BY DEF Requests, Queued
<1>2. new[k] = err /\ \A l \in Requests : l # k => new[l] = req[l]
  BY <1>1
<1>3. ASSUME NEW j \in 1 .. n - 1
      PROVE  /\ at(j) \in 1 .. n /\ at(j) # i /\ q[j].k = pend[at(j)].k
  <2>1. CASE j < i
    <3>1. j \in 1 .. i - 1 /\ j \in 1 .. n /\ at(j) = j
      BY <1>1, <2>1
    <3> HIDE DEF at
    <3> QED
      BY <2>1, <3>1
  <2>2. CASE ~(j < i)
    <3>1. j \in i .. n - 1 /\ j + 1 \in 1 .. n /\ at(j) = j + 1 /\ j + 1 # i
      BY <1>1, <2>2
    <3> HIDE DEF at
    <3> QED
      BY <2>2, <3>1
  <2> QED
    BY <2>1, <2>2
<1>4. \A j, l \in 1 .. n - 1 : at(j) = at(l) => j = l
  BY <1>1
<1>5. \A j \in 1 .. n : j # i => \E l \in 1 .. n - 1 : at(l) = j
  <2> TAKE j \in 1 .. n
  <2> HAVE j # i
  <2>1. CASE j < i
    <3>1. j \in 1 .. n - 1 /\ at(j) = j
      BY <1>1, <2>1
    <3> QED
      BY <3>1
  <2>2. CASE j > i
    <3>1. j - 1 \in 1 .. n - 1 /\ at(j - 1) = j
      BY <1>1, <2>2
    <3> QED
      BY <3>1
  <2> QED
    BY <1>1, <2>1, <2>2
<1> HIDE DEF at, new, k
<1>6. \A j, l \in 1 .. n : pend[j].k = pend[l].k => j = l
  BY DEF Queued
<1>k. k = pend[i].k
  BY DEF k
<1>7. ASSUME NEW j \in 1 .. n - 1, NEW l \in 1 .. n - 1, q[j].k = q[l].k
      PROVE  j = l
  BY <1>3, <1>4, <1>6, <1>7
<1>8. ASSUME NEW j \in 1 .. n - 1
      PROVE  q[j].k \in Requests /\ new[q[j].k] = "pending"
  <2>1. pend[at(j)].k # k
    BY <1>3, <1>6, <1>k
  <2> QED
    BY <1>2, <1>3, <2>1 DEF Queued
<1>9. ASSUME NEW l \in Requests, new[l] = "pending"
      PROVE  \E j \in 1 .. n - 1 : q[j].k = l
  <2>1. l # k /\ req[l] = "pending"
    BY <1>2, <1>9
  <2>2. PICK j \in 1 .. n : pend[j].k = l
    BY <2>1 DEF Queued
  <2>3. j # i
    BY <1>k, <2>1, <2>2
  <2>4. PICK h \in 1 .. n - 1 : at(h) = j
    BY <1>5, <2>3
  <2> QED
    BY <1>3, <2>2, <2>4
<1>10. ASSUME NEW l \in Requests, l > nreq PROVE new[l] = "none"
  <2>1. req[l] = "none" /\ l # k
    BY <1>1, <1>10 DEF Queued
  <2> QED
    BY <1>2, <2>1
<1> QED
  BY <1>7, <1>8, <1>9, <1>10 DEF Queued, new, k

LEMMA QueuedClear ==
  ASSUME NEW pend, NEW req, NEW nreq, Queued(pend, req, nreq)
  PROVE  Queued(<<>>, [k \in Requests |->
                         IF req[k] = "pending" THEN "dropped" ELSE req[k]], nreq)
  BY DEF Queued

-----------------------------------------------------------------------------
(***************************************************************************)
(* The invariant.  Core holds at every point between two functions of the  *)
(* client, Data and Hand when a handler has ended.                         *)
(***************************************************************************)
Connecting == {"TCP_CONNECTING", "MQTT_CONNECTING"}
Connacks == {"CONNACK", "CONNACK_REFUSED"}

Linked(s) == s.conn = (s.conn_state # "TCP_DISCONNECTED")
Idle(s) == s.conn_state = "TCP_DISCONNECTED" => s.pend = <<>>
Room(s) == Len(s.pend) <= MQTT_REQ_MAX_IN_FLIGHT /\ Len(s.ring) <= RingCap
First(s) ==
  /\ s.firstOut \in {"none", "CONNECT"}
  /\ s.conn /\ s.firstOut = "none" =>
       s.ring # <<>> /\ s.ring[1].type = "CONNECT"

Core(s, left) ==
  /\ s \in State
  /\ Linked(s) /\ Idle(s) /\ Room(s) /\ First(s)
  /\ Queued(s.pend, s.req, s.nreq)
  /\ Clock(s.pend, left)

(* Without data_cb no publish can be on its way.                           *)
Data(s) ==
  \/ s.data_cb
  \/ /\ ~s.granted
     /\ \A i \in 1 .. Len(s.rx) :
          s.rx[i].type \notin {"PUBLISH0", "PUBLISH1", "PUBLISH2", "SUBACK",
                               "SUBACK_DENIED"}
     /\ \A i \in 1 .. Len(s.tx) : s.tx[i].type # "SUBSCRIBE"
     /\ \A i \in 1 .. Len(s.ring) : s.ring[i].type # "SUBSCRIBE"

(* During the handshake the server has been sent CONNECT first, and what   *)
(* it has answered begins with a CONNACK.                                  *)
Hand(s) ==
  /\ s.conn_state \in Connecting =>
       /\ s.nreq + 2 <= MaxReqs /\ ~s.data_cb
       /\ s.rx # <<>> => /\ s.conn_state = "MQTT_CONNECTING"
                         /\ s.rx[1].type \in Connacks
       /\ s.rx = <<>> /\ s.tx # <<>> => s.tx[1].type = "CONNECT"
       /\ s.rx = <<>> /\ s.tx = <<>> => s.firstOut = "none"
  /\ ~s.conn => s.tx = <<>> /\ s.rx = <<>> /\ s.unacked = 0

LEMMA CoreFrame ==
  ASSUME NEW s, NEW left, Core(s, left), NEW t \in State,
         t.conn = s.conn, t.conn_state = s.conn_state, t.pend = s.pend,
         t.req = s.req, t.nreq = s.nreq, t.ring = s.ring, t.firstOut = s.firstOut
  PROVE  Core(t, left)
  BY DEF Core, Linked, Idle, Room, First

LEMMA WireFrame ==
  ASSUME NEW s, NEW t,
         t.conn = s.conn, t.conn_state = s.conn_state, t.nreq = s.nreq,
         t.ring = s.ring, t.tx = s.tx, t.rx = s.rx, t.firstOut = s.firstOut,
         t.data_cb = s.data_cb, t.granted = s.granted, t.unacked = s.unacked
  PROVE  /\ Data(s) => Data(t)
         /\ Hand(s) => Hand(t)
  BY DEF Data, Hand

LEMMA Append1Fields ==
  ASSUME NEW s \in State, NEW msg \in Msg, NEW t, t = Append1(s, msg)
  PROVE  /\ t \in State
         /\ t.ring = Append(s.ring, msg)
         /\ t.timers = s.timers /\ t.mem = s.mem /\ t.nullSend = s.nullSend
         /\ t.nullCall = s.nullCall /\ t.conn = s.conn
         /\ t.conn_state = s.conn_state /\ t.cyclic_tick = s.cyclic_tick
         /\ t.server_watchdog = s.server_watchdog
         /\ t.pkt_id_seq = s.pkt_id_seq /\ t.pend = s.pend
         /\ t.data_cb = s.data_cb /\ t.unacked = s.unacked /\ t.tx = s.tx
         /\ t.rx = s.rx /\ t.granted = s.granted /\ t.npub = s.npub
         /\ t.nreq = s.nreq /\ t.req = s.req /\ t.qos0 = s.qos0
         /\ t.served = s.served /\ t.firstOut = s.firstOut
<1>1. t \in State
  BY Append1Type
<1>2. t.ring = Append(s.ring, msg)
  BY DEF Append1, State
<1>3. /\ t.timers = s.timers /\ t.mem = s.mem /\ t.nullSend = s.nullSend
      /\ t.nullCall = s.nullCall /\ t.conn = s.conn
      /\ t.conn_state = s.conn_state /\ t.cyclic_tick = s.cyclic_tick
      /\ t.server_watchdog = s.server_watchdog
      /\ t.pkt_id_seq = s.pkt_id_seq /\ t.pend = s.pend
      /\ t.data_cb = s.data_cb /\ t.unacked = s.unacked /\ t.tx = s.tx
      /\ t.rx = s.rx /\ t.granted = s.granted /\ t.npub = s.npub
      /\ t.nreq = s.nreq /\ t.req = s.req /\ t.qos0 = s.qos0
      /\ t.served = s.served /\ t.firstOut = s.firstOut
  BY DEF Append1, State
<1> QED
  BY <1>1, <1>2, <1>3

(* A message is appended, only when CheckSpace found room for it.          *)
LEMMA Append1Core ==
  ASSUME NEW s, NEW left, Core(s, left), NEW msg \in Msg, CheckSpace(s)
  PROVE  /\ Core(Append1(s, msg), left)
         /\ (s.data_cb \/ msg.type # "SUBSCRIBE") /\ Data(s)
              => Data(Append1(s, msg))
         /\ Hand(s) => Hand(Append1(s, msg))
<1> SUFFICES ASSUME NEW t, t = Append1(s, msg)
             PROVE  /\ Core(t, left)
                    /\ (s.data_cb \/ msg.type # "SUBSCRIBE") /\ Data(s) => Data(t)
                    /\ Hand(s) => Hand(t)
  OBVIOUS
<1>1. s \in State /\ s.ring \in Seq(Msg) /\ Len(s.ring) \in Nat /\ RingCap \in Nat
  BY Constants, StateFields DEF Core
<1>0. s \in State
  BY DEF Core
<1>2. /\ t \in State /\ t.ring = Append(s.ring, msg)
      /\ t.conn = s.conn /\ t.conn_state = s.conn_state /\ t.pend = s.pend
      /\ t.req = s.req /\ t.nreq = s.nreq /\ t.firstOut = s.firstOut
      /\ t.tx = s.tx /\ t.rx = s.rx /\ t.data_cb = s.data_cb
      /\ t.granted = s.granted /\ t.unacked = s.unacked
  BY <1>0, Append1Fields
<1>a. /\ t.ring \in Seq(Msg) /\ Len(t.ring) = Len(s.ring) + 1
      /\ \A i \in 1 .. Len(s.ring) : t.ring[i] = s.ring[i]
      /\ t.ring[Len(s.ring) + 1] = msg
  BY <1>1, <1>2
<1>3. First(t)
  <2>1. s.ring # <<>> => t.ring # <<>> /\ t.ring[1] = s.ring[1]
    BY <1>1, <1>a
  <2> QED
    BY <1>2, <2>1 DEF Core, First
<1>4. Room(t)
  BY <1>1, <1>2, <1>a DEF Core, Room, CheckSpace
<1>5. Core(t, left)
  BY <1>2, <1>3, <1>4 DEF Core, Linked, Idle
<1>6. ASSUME s.data_cb \/ msg.type # "SUBSCRIBE", Data(s) PROVE Data(t)
  <2>1. \A i \in 1 .. Len(s.ring) + 1 : i \in 1 .. Len(s.ring) \/ i = Len(s.ring) + 1
    BY <1>1
  <2> QED
    BY <1>2, <1>a, <1>6, <2>1 DEF Data
<1>7. Hand(s) => Hand(t)
  BY <1>2 DEF Hand
<1> QED
  BY <1>5, <1>6, <1>7

LEMMA SendFields ==
  ASSUME NEW s \in State, NEW t, t = Send(s)
  PROVE  /\ t \in State
         /\ t.timers = s.timers /\ t.mem = s.mem /\ t.nullCall = s.nullCall
         /\ t.conn = s.conn /\ t.conn_state = s.conn_state
         /\ t.cyclic_tick = s.cyclic_tick /\ t.server_watchdog = s.server_watchdog
         /\ t.pkt_id_seq = s.pkt_id_seq /\ t.pend = s.pend
         /\ t.data_cb = s.data_cb /\ t.rx = s.rx /\ t.granted = s.granted
         /\ t.npub = s.npub /\ t.nreq = s.nreq /\ t.req = s.req
         /\ t.qos0 = s.qos0 /\ t.served = s.served
         /\ s.conn => t.nullSend = s.nullSend
<1>1. t \in State
  BY SendType
<1>2. CASE t = [s EXCEPT !.nullSend = TRUE] /\ ~s.conn
  BY <1>1, <1>2 DEF State
<1>3. CASE t = s
  BY <1>1, <1>3
<1>4. ASSUME NEW n \in 1 .. Len(s.ring),
             t = [s EXCEPT
                   !.ring = SubSeq(s.ring, n + 1, Len(s.ring)),
                   !.tx = s.tx \o SubSeq(s.ring, 1, n),
                   !.unacked = s.unacked + n,
                   !.firstOut = IF s.firstOut = "none" THEN s.ring[1].type
                                ELSE s.firstOut]
      PROVE  /\ t.timers = s.timers /\ t.mem = s.mem /\ t.nullCall = s.nullCall
             /\ t.conn = s.conn /\ t.conn_state = s.conn_state
             /\ t.cyclic_tick = s.cyclic_tick
             /\ t.server_watchdog = s.server_watchdog
             /\ t.pkt_id_seq = s.pkt_id_seq /\ t.pend = s.pend
             /\ t.data_cb = s.data_cb /\ t.rx = s.rx /\ t.granted = s.granted
             /\ t.npub = s.npub /\ t.nreq = s.nreq /\ t.req = s.req
             /\ t.qos0 = s.qos0 /\ t.served = s.served
             /\ t.nullSend = s.nullSend
  BY <1>4 DEF State
<1> QED
  BY <1>1, <1>2, <1>3, <1>4, SendCases

LEMMA SendMoves ==
  ASSUME NEW s \in State, NEW t, t = Send(s)
  PROVE  \/ /\ t.ring = s.ring /\ t.tx = s.tx /\ t.unacked = s.unacked
            /\ t.firstOut = s.firstOut
         \/ /\ s.conn
            /\ \E n \in 1 .. Len(s.ring) :
                 /\ t.ring = SubSeq(s.ring, n + 1, Len(s.ring))
                 /\ t.tx = s.tx \o SubSeq(s.ring, 1, n)
                 /\ t.firstOut = IF s.firstOut = "none" THEN s.ring[1].type
                                 ELSE s.firstOut
<1>2. CASE t = [s EXCEPT !.nullSend = TRUE]
  BY <1>2 DEF State
<1>3. CASE t = s
  BY <1>3
<1>4. ASSUME NEW n \in 1 .. Len(s.ring), s.conn,
             t = [s EXCEPT
                   !.ring = SubSeq(s.ring, n + 1, Len(s.ring)),
                   !.tx = s.tx \o SubSeq(s.ring, 1, n),
                   !.unacked = s.unacked + n,
                   !.firstOut = IF s.firstOut = "none" THEN s.ring[1].type
                                ELSE s.firstOut]
      PROVE  /\ t.ring = SubSeq(s.ring, n + 1, Len(s.ring))
             /\ t.tx = s.tx \o SubSeq(s.ring, 1, n)
             /\ t.firstOut = IF s.firstOut = "none" THEN s.ring[1].type
                             ELSE s.firstOut
  BY <1>4 DEF State
<1> QED
  BY <1>2, <1>3, <1>4, SendCases

(* A prefix of r is moved to the end of x: q is left of r, and x is now y. *)
Moved(r, x, q, y, T) ==
  /\ q \in Seq(T) /\ Len(q) <= Len(r)
  /\ \A i \in 1 .. Len(q) : \E j \in 1 .. Len(r) : q[i] = r[j]
  /\ y \in Seq(T) /\ y # <<>>
  /\ \A i \in 1 .. Len(y) : \/ \E j \in 1 .. Len(x) : y[i] = x[j]
                           \/ \E j \in 1 .. Len(r) : y[i] = r[j]
  /\ y[1] = IF x = <<>> THEN r[1] ELSE x[1]

LEMMA MovedPrefix ==
  ASSUME NEW T, NEW r \in Seq(T), NEW x \in Seq(T), NEW n \in 1 .. Len(r),
         NEW q, q = SubSeq(r, n + 1, Len(r)),
         NEW y, y = x \o SubSeq(r, 1, n)
  PROVE  Moved(r, x, q, y, T)
<1> DEFINE p == SubSeq(r, 1, n)
<1>1. /\ p \in Seq(T) /\ Len(p) = n
      /\ \A i \in 1 .. n : p[i] = r[i]
  OBVIOUS
<1>2. /\ q \in Seq(T)
      /\ Len(q) = Len(r) - n
      /\ \A i \in 1 .. Len(r) - n : q[i] = r[n + i]
  OBVIOUS
<1> HIDE DEF p
<1>3. /\ y \in Seq(T) /\ Len(y) = Len(x) + n
      /\ \A j \in 1 .. Len(x) : y[j] = x[j]
      /\ \A j \in 1 .. n : y[Len(x) + j] = p[j]
  <2>1. y = x \o p
    BY DEF p
  <2> QED
    BY <1>1, <2>1, Concatenation
<1>4. ASSUME NEW i \in 1 .. Len(y)
      PROVE  \/ \E j \in 1 .. Len(x) : y[i] = x[j]
             \/ \E j \in 1 .. Len(r) : y[i] = r[j]
  <2>1. CASE i \in 1 .. Len(x)
    BY <1>3, <2>1
  <2>2. CASE i \notin 1 .. Len(x)
    <3>1. i - Len(x) \in 1 .. n /\ Len(x) + (i - Len(x)) = i
      BY <1>3, <2>2
    <3>2. y[i] = p[i - Len(x)]
      BY <1>3, <3>1
    <3>3. p[i - Len(x)] = r[i - Len(x)] /\ i - Len(x) \in 1 .. Len(r)
      BY <1>1, <3>1
    <3> QED
      BY <3>2, <3>3
  <2> QED
    BY <2>1, <2>2
<1>5. ASSUME NEW i \in 1 .. Len(q)
      PROVE  \E j \in 1 .. Len(r) : q[i] = r[j]
  <2>1. i \in 1 .. Len(r) - n /\ n + i \in 1 .. Len(r)
    BY <1>2
  <2> QED
    BY <1>2, <2>1
<1>6. y[1] = IF x = <<>> THEN r[1] ELSE x[1]
  <2>1. CASE x = <<>>
    <3>1. 1 \in 1 .. n /\ Len(x) + 1 = 1
      BY <2>1
    <3>2. y[1] = p[1]
      BY <1>3, <3>1
    <3> QED
      BY <1>1, <2>1, <3>1, <3>2
  <2>2. CASE x # <<>>
    <3>1. 1 \in 1 .. Len(x)
      BY <2>2
    <3> QED
      BY <1>3, <2>2, <3>1
  <2> QED
    BY <2>1, <2>2
<1>7. y # <<>>
  <2>1. Len(x) + n # 0
    OBVIOUS
  <2>2. Len(y) # 0
    BY <1>3, <2>1
  <2> QED
    BY <2>2
<1>8. Len(q) <= Len(r)
  BY <1>2
<1>9. \A i \in 1 .. Len(q) : \E j \in 1 .. Len(r) : q[i] = r[j]
  BY <1>5
<1>10. \A i \in 1 .. Len(y) : \/ \E j \in 1 .. Len(x) : y[i] = x[j]
                            \/ \E j \in 1 .. Len(r) : y[i] = r[j]
  BY <1>4
<1> QED
  BY <1>2, <1>3, <1>6, <1>7, <1>8, <1>9, <1>10, Zenon DEF Moved

(* What is sent leaves the ring in order, CONNECT first.                   *)
LEMMA SendCore ==
  ASSUME NEW s, NEW left, Core(s, left)
  PROVE  /\ Core(Send(s), left)
         /\ Data(s) => Data(Send(s))
         /\ Hand(s) => Hand(Send(s))
<1> SUFFICES ASSUME NEW t, t = Send(s)
             PROVE  /\ Core(t, left)
                    /\ Data(s) => Data(t)
                    /\ Hand(s) => Hand(t)
  OBVIOUS
<1>1. s \in State
  BY DEF Core
<1>2. /\ t \in State /\ t.conn = s.conn /\ t.conn_state = s.conn_state
      /\ t.pend = s.pend /\ t.data_cb = s.data_cb /\ t.rx = s.rx
      /\ t.granted = s.granted /\ t.nreq = s.nreq /\ t.req = s.req
  BY <1>1, SendFields
<1>3. CASE /\ t.ring = s.ring /\ t.tx = s.tx /\ t.unacked = s.unacked
           /\ t.firstOut = s.firstOut
  BY <1>2, <1>3, CoreFrame, WireFrame
<1>4. ASSUME s.conn, NEW n \in 1 .. Len(s.ring),
             t.ring = SubSeq(s.ring, n + 1, Len(s.ring)),
             t.tx = s.tx \o SubSeq(s.ring, 1, n),
             t.firstOut = IF s.firstOut = "none" THEN s.ring[1].type
                          ELSE s.firstOut
      PROVE  /\ Core(t, left)
             /\ Data(s) => Data(t)
             /\ Hand(s) => Hand(t)
  <2>1. s.ring \in Seq(Msg) /\ s.tx \in Seq(Msg)
    BY <1>1, StateFields
  <2>2. /\ t.ring \in Seq(Msg) /\ Len(t.ring) <= Len(s.ring)
        /\ \A i \in 1 .. Len(t.ring) : \E j \in 1 .. Len(s.ring) : t.ring[i] = s.ring[j]
        /\ t.tx \in Seq(Msg) /\ t.tx # <<>>
        /\ \A i \in 1 .. Len(t.tx) :
             \/ \E j \in 1 .. Len(s.tx) : t.tx[i] = s.tx[j]
             \/ \E j \in 1 .. Len(s.ring) : t.tx[i] = s.ring[j]
        /\ t.tx[1] = IF s.tx = <<>> THEN s.ring[1] ELSE s.tx[1]
    <3>1. Moved(s.ring, s.tx, t.ring, t.tx, Msg)
      BY <1>4, <2>1, MovedPrefix
    <3> QED
      BY <3>1 DEF Moved
  <2>3. First(t) /\ t.firstOut # "none"
    BY <1>2, <1>4 DEF First, Core
  <2>4. Room(t)
    <3>1. t.ring \in Seq(Msg) /\ s.ring \in Seq(Msg)
      BY <2>1, <2>2
    <3>2. Len(t.ring) \in Nat /\ Len(s.ring) \in Nat
      BY <3>1
    <3>3. Len(t.ring) <= Len(s.ring) /\ RingCap \in Nat
      BY <2>2, Constants
    <3> QED
      BY <1>2, <3>2, <3>3 DEF Room, Core
  <2>5. Core(t, left)
    BY <1>2, <2>3, <2>4 DEF Core, Linked, Idle
  <2>6. Data(s) => Data(t)
    BY <1>2, <2>2 DEF Data
  <2>7. ASSUME Hand(s) PROVE Hand(t)
    <3>1. ASSUME s.conn_state \in Connecting, s.rx = <<>>
          PROVE  t.tx[1].type = "CONNECT"
      <4>1. CASE s.tx = <<>>
        <5>1. s.firstOut = "none"
          BY <2>7, <3>1, <4>1 DEF Hand
        <5>2. s.ring[1].type = "CONNECT"
          BY <1>4, <5>1 DEF Core, First
        <5> QED
          BY <2>2, <4>1, <5>2
      <4>2. CASE s.tx # <<>>
        BY <2>2, <2>7, <3>1, <4>2 DEF Hand
      <4> QED
        BY <4>1, <4>2
    <3>2. t.conn
      BY <1>2, <1>4
    <3> QED
      BY <1>2, <2>2, <2>7, <3>1, <3>2 DEF Hand
  <2> QED
    BY <2>5, <2>6, <2>7
<1> QED
  BY <1>1, <1>3, <1>4, SendMoves

-----------------------------------------------------------------------------
(***************************************************************************)
(* Requests.                                                               *)
(***************************************************************************)
AskKinds == {"SUBSCRIBE", "PUBLISH0", "PUBLISH1", "PUBLISH2"}

(* What a request never changes.                                           *)
SameLink(s, t) ==
  /\ t.timers = s.timers /\ t.mem = s.mem /\ t.nullSend = s.nullSend
  /\ t.nullCall = s.nullCall /\ t.conn = s.conn /\ t.conn_state = s.conn_state
  /\ t.data_cb = s.data_cb /\ t.rx = s.rx /\ t.granted = s.granted
  /\ t.npub = s.npub /\ t.served = s.served
  /\ t.cyclic_tick = s.cyclic_tick /\ t.server_watchdog = s.server_watchdog

NewId(s, kind) == IF kind = "PUBLISH0" THEN 0 ELSE GeneratePacketId(s.pkt_id_seq)
Numbered(s, kind) ==
  [s EXCEPT !.pkt_id_seq = IF NewId(s, kind) = 0 THEN s.pkt_id_seq
                           ELSE NewId(s, kind),
            !.nreq = s.nreq + 1]
NewReq(s, kind) ==
  [pkt_id |-> NewId(s, kind), timeout_diff |-> 0, k |-> s.nreq + 1, age |-> 0]
NewMsg(s, kind) ==
  [type |-> kind, id |-> NewId(s, kind), k |-> s.nreq + 1]
Enqueued(s, kind) ==
  [Numbered(s, kind) EXCEPT
     !.pend = AppendRequest(s.pend, NewReq(s, kind)),
     !.req = [s.req EXCEPT ![s.nreq + 1] = "pending"],
     !.qos0 = IF kind = "PUBLISH0" THEN s.qos0 \cup {s.nreq + 1} ELSE s.qos0]

LEMMA NewIdType ==
  ASSUME NEW s \in State, NEW kind PROVE NewId(s, kind) \in 0 .. IdMod - 1
<1>1. s.pkt_id_seq \in 0 .. IdMod - 1 /\ IdMod \in Nat /\ IdMod > 1
  BY StateFields, Constants
<1>2. (s.pkt_id_seq + 1) % IdMod \in 0 .. IdMod - 1
  BY <1>1
<1> QED
  BY <1>1, <1>2 DEF NewId, GeneratePacketId

IsNumbered(s, kind, t) ==
  /\ t \in State /\ SameLink(s, t) /\ t.nreq = s.nreq + 1
  /\ t.pend = s.pend /\ t.req = s.req /\ t.ring = s.ring /\ t.tx = s.tx
  /\ t.unacked = s.unacked /\ t.firstOut = s.firstOut /\ t.qos0 = s.qos0
  /\ t.pkt_id_seq = IF NewId(s, kind) = 0 THEN s.pkt_id_seq
                    ELSE NewId(s, kind)
IsEnqueued(s, kind, t) ==
  /\ t \in State /\ SameLink(s, t) /\ t.nreq = s.nreq + 1
  /\ t.pend = AppendRequest(s.pend, NewReq(s, kind))
  /\ t.req = [s.req EXCEPT ![s.nreq + 1] = "pending"]
  /\ t.ring = s.ring /\ t.tx = s.tx /\ t.unacked = s.unacked
  /\ t.firstOut = s.firstOut
  /\ t.pkt_id_seq = (IF NewId(s, kind) = 0 THEN s.pkt_id_seq
                     ELSE NewId(s, kind))
  /\ t.qos0 = IF kind = "PUBLISH0" THEN s.qos0 \cup {s.nreq + 1} ELSE s.qos0

LEMMA NumberedIs ==
  ASSUME NEW s \in State, NEW kind, s.nreq < MaxReqs,
         NEW t, t = Numbered(s, kind)
  PROVE  IsNumbered(s, kind, t)
<1>1. (IF NewId(s, kind) = 0 THEN s.pkt_id_seq ELSE NewId(s, kind))
        \in 0 .. IdMod - 1
  BY NewIdType, StateFields
<1>2. s.nreq + 1 \in 0 .. MaxReqs
  BY StateFields, Constants
<1>3. t \in State
  BY <1>1, <1>2, Zenon DEF Numbered, State
<1>4. SameLink(s, t)
  BY DEF Numbered, State, SameLink
<1>5. /\ t.nreq = s.nreq + 1
      /\ t.pend = s.pend /\ t.req = s.req /\ t.ring = s.ring /\ t.tx = s.tx
      /\ t.unacked = s.unacked /\ t.firstOut = s.firstOut /\ t.qos0 = s.qos0
      /\ t.pkt_id_seq = IF NewId(s, kind) = 0 THEN s.pkt_id_seq
                        ELSE NewId(s, kind)
  BY DEF Numbered, State
<1> QED
  BY <1>3, <1>4, <1>5 DEF IsNumbered

LEMMA NewReqType ==
  ASSUME NEW s \in State, NEW kind
  PROVE  NewReq(s, kind) \in PendReq
<1>1. NewId(s, kind) \in Nat
  BY NewIdType, Constants
<1>2. s.nreq + 1 \in Nat /\ 0 \in Int /\ 0 \in Nat
  BY StateFields, Constants
<1> QED
  BY <1>1, <1>2, Zenon DEF NewReq, PendReq

LEMMA NewReqFields ==
  ASSUME NEW s \in State, NEW kind
  PROVE  /\ NewReq(s, kind).k = s.nreq + 1 /\ NewReq(s, kind).age = 0
         /\ NewReq(s, kind).pkt_id = NewId(s, kind)
  BY DEF NewReq

LEMMA NewMsgType ==
  ASSUME NEW s \in State, NEW kind \in AskKinds, s.nreq < MaxReqs
  PROVE  NewMsg(s, kind) \in Msg
<1>1. NewId(s, kind) \in 0 .. IdMod
  BY NewIdType, Constants
<1>2. s.nreq + 1 \in 0 .. MaxReqs
  BY StateFields, Constants
<1>3. kind \in MsgTypes
  BY DEF AskKinds, MsgTypes
<1> QED
  BY <1>1, <1>2, <1>3, Zenon DEF NewMsg, Msg

LEMMA EnqueuedIs ==
  ASSUME NEW s \in State, NEW kind, s.nreq < MaxReqs,
         NEW t, t = Enqueued(s, kind)
  PROVE  IsEnqueued(s, kind, t)
<1> DEFINE n == Numbered(s, kind)
           pend == AppendRequest(s.pend, NewReq(s, kind))
           req == [s.req EXCEPT ![s.nreq + 1] = "pending"]
           qos0 == IF kind = "PUBLISH0" THEN s.qos0 \cup {s.nreq + 1} ELSE s.qos0
<1>1. /\ n \in State /\ SameLink(s, n) /\ n.nreq = s.nreq + 1
      /\ n.ring = s.ring /\ n.tx = s.tx /\ n.unacked = s.unacked
      /\ n.firstOut = s.firstOut
      /\ n.pkt_id_seq = (IF NewId(s, kind) = 0 THEN s.pkt_id_seq
                         ELSE NewId(s, kind))
  <2>1. IsNumbered(s, kind, n)
    BY NumberedIs
  <2> HIDE DEF n
  <2> QED
    BY <2>1 DEF IsNumbered
<1>2. pend \in Seq(PendReq)
  <2>1. s.pend \in Seq(PendReq) /\ NewReq(s, kind) \in PendReq
    BY StateFields, NewReqType
  <2>2. Extended(s.pend, NewReq(s, kind), pend)
    BY <2>1, AppendRequestIs
  <2> QED
    BY <2>2 DEF Extended
<1>3. req \in [Requests -> Fate]
  <2>1. s.req \in [Requests -> Fate] /\ "pending" \in Fate
    BY StateFields DEF Fate
  <2> QED
    BY <2>1
<1>4. qos0 \in SUBSET Nat
  BY StateFields
<1>5. t = [n EXCEPT !.pend = pend, !.req = req, !.qos0 = qos0]
  BY DEF Enqueued
<1> HIDE DEF n, pend, req, qos0
<1>6. t \in State
  BY <1>1, <1>2, <1>3, <1>4, <1>5, ZenonT(60) DEF State
<1>7. SameLink(n, t)
  BY <1>1, <1>5 DEF State, SameLink
<1>8. SameLink(s, t)
  BY <1>1, <1>7 DEF SameLink
<1>9. /\ t.nreq = n.nreq /\ t.ring = n.ring /\ t.tx = n.tx
      /\ t.unacked = n.unacked /\ t.firstOut = n.firstOut
      /\ t.pkt_id_seq = n.pkt_id_seq
      /\ t.pend = pend /\ t.req = req /\ t.qos0 = qos0
  BY <1>1, <1>5 DEF State
<1> QED
  BY <1>1, <1>6, <1>8, <1>9 DEF IsEnqueued, pend, req, qos0

LEMMA RequestCases ==
  ASSUME NEW s, NEW kind
  PROVE  \/ s.conn_state = "TCP_DISCONNECTED" /\ Request(s, kind) = s
         \/ /\ s.conn_state # "TCP_DISCONNECTED"
            /\ Request(s, kind) = Numbered(s, kind)
         \/ /\ s.conn_state # "TCP_DISCONNECTED"
            /\ Len(s.pend) # MQTT_REQ_MAX_IN_FLIGHT /\ CheckSpace(s)
            /\ Request(s, kind)
                 = Send(Append1(Enqueued(s, kind), NewMsg(s, kind)))
<1>1. CASE s.conn_state = "TCP_DISCONNECTED"
  BY <1>1 DEF Request
<1>2. CASE /\ s.conn_state # "TCP_DISCONNECTED"
           /\ Len(s.pend) = MQTT_REQ_MAX_IN_FLIGHT \/ ~CheckSpace(s)
  BY <1>2, Zenon DEF Request, Numbered, NewId
<1>3. CASE /\ s.conn_state # "TCP_DISCONNECTED"
           /\ ~(Len(s.pend) = MQTT_REQ_MAX_IN_FLIGHT \/ ~CheckSpace(s))
  BY <1>3, Zenon DEF Request, Numbered, NewId, NewReq, NewMsg, Enqueued
<1> QED
  BY <1>1, <1>2, <1>3

LEMMA EnqueuedCore ==
  ASSUME NEW s, Core(s, 0), NEW kind, s.nreq < MaxReqs,
         s.conn_state # "TCP_DISCONNECTED", Len(s.pend) # MQTT_REQ_MAX_IN_FLIGHT,
         NEW t, t = Enqueued(s, kind)
  PROVE  Core(t, 0)
<1>1. s \in State /\ s.pend \in Seq(PendReq) /\ s.req \in [Requests -> Fate]
      /\ s.nreq \in Nat /\ s.nreq + 1 \in Requests
  <2>1. s \in State
    BY DEF Core
  <2>2. s.nreq + 1 \in Requests /\ s.nreq \in Nat
    BY <2>1, StateFields, Constants DEF Requests
  <2> QED
    BY <2>1, <2>2, StateFields
<1>2. /\ t \in State /\ SameLink(s, t) /\ t.nreq = s.nreq + 1
      /\ t.pend = AppendRequest(s.pend, NewReq(s, kind))
      /\ t.req = [s.req EXCEPT ![s.nreq + 1] = "pending"]
      /\ t.ring = s.ring /\ t.firstOut = s.firstOut
  <2>1. s \in State
    BY <1>1
  <2>2. IsEnqueued(s, kind, t)
    BY <2>1, EnqueuedIs
  <2> QED
    BY <2>2 DEF IsEnqueued
<1>3. t.conn = s.conn /\ t.conn_state = s.conn_state
  BY <1>2 DEF SameLink
<1>4. NewReq(s, kind) \in PendReq
  BY <1>1, NewReqType
<1>5. /\ t.pend \in Seq(PendReq) /\ Len(t.pend) = Len(s.pend) + 1
      /\ \A i \in 1 .. Len(s.pend) : t.pend[i] = s.pend[i]
      /\ t.pend[Len(s.pend) + 1].timeout_diff = MQTT_REQ_TIMEOUT - TotalDiff(s.pend)
      /\ t.pend[Len(s.pend) + 1].k = NewReq(s, kind).k
      /\ t.pend[Len(s.pend) + 1].age = NewReq(s, kind).age
  <2>1. Extended(s.pend, NewReq(s, kind), t.pend)
    <3>1. s.pend \in Seq(PendReq) /\ t.pend = AppendRequest(s.pend, NewReq(s, kind))
      BY <1>1, <1>2
    <3> QED
      BY <1>4, <3>1, AppendRequestIs
  <2> QED
    BY <2>1 DEF Extended
<1>6. /\ t.pend[Len(s.pend) + 1].k = s.nreq + 1
      /\ t.pend[Len(s.pend) + 1].age = 0
  BY <1>1, <1>5, NewReqFields
<1>7. Clock(t.pend, 0)
  <2>1. Clock(s.pend, 0)
    BY DEF Core
  <2> QED
    BY <1>1, <1>5, <1>6, <2>1, ClockAppend
<1>8. Queued(t.pend, t.req, t.nreq)
  <2>1. Queued(s.pend, s.req, s.nreq)
    BY DEF Core
  <2>2. Queued(t.pend, [s.req EXCEPT ![s.nreq + 1] = "pending"], s.nreq + 1)
    <3>1. /\ s.pend \in Seq(PendReq) /\ s.req \in [Requests -> Fate]
          /\ s.nreq \in Nat /\ s.nreq + 1 \in Requests
      BY <1>1
    <3>2. Added(s.pend, t.pend, s.nreq + 1)
      BY <1>5, <1>6 DEF Added
    <3> QED
      BY <2>1, <3>1, <3>2, QueuedAdd
  <2> QED
    BY <1>2, <2>2
<1>9. Room(t)
  <2>1. /\ Len(s.pend) <= MQTT_REQ_MAX_IN_FLIGHT /\ Len(s.ring) <= RingCap
        /\ Len(s.pend) \in Nat /\ MQTT_REQ_MAX_IN_FLIGHT \in Nat
    BY <1>1, Constants DEF Core, Room
  <2>2. Len(s.pend) + 1 <= MQTT_REQ_MAX_IN_FLIGHT
    BY <2>1
  <2> QED
    BY <1>2, <1>5, <2>1, <2>2 DEF Room
<1>10. First(t) /\ Linked(t) /\ Idle(t)
  BY <1>2, <1>3 DEF Core, First, Linked, Idle
<1> QED
  BY <1>2, <1>7, <1>8, <1>9, <1>10 DEF Core

(* mqtt_publish and mqtt_sub_unsub.                                        *)
LEMMA RequestCore ==
  ASSUME NEW s, Core(s, 0), NEW kind \in AskKinds, s.nreq < MaxReqs,
         NEW t, t = Request(s, kind)
  PROVE  /\ Core(t, 0) /\ SameLink(s, t)
         /\ t.nreq = s.nreq \/ t.nreq = s.nreq + 1
         /\ (s.data_cb \/ kind # "SUBSCRIBE") /\ Data(s) => Data(t)
         /\ Hand(s) /\ (s.conn_state \in Connecting => s.nreq + 3 <= MaxReqs)
              => Hand(t)
<1>1. s \in State /\ s.nreq \in Nat /\ MaxReqs \in Nat
  BY StateFields, Constants DEF Core
<1>2. CASE t = s
  BY <1>2 DEF SameLink
<1>3. CASE t = Numbered(s, kind)
  <2>1. /\ t \in State /\ SameLink(s, t) /\ t.nreq = s.nreq + 1
        /\ t.pend = s.pend /\ t.req = s.req /\ t.ring = s.ring /\ t.tx = s.tx
        /\ t.unacked = s.unacked /\ t.firstOut = s.firstOut
    <3>1. s \in State
      BY <1>1
    <3>2. IsNumbered(s, kind, t)
      BY <1>3, <3>1, NumberedIs
    <3> QED
      BY <3>2 DEF IsNumbered
  <2>2. Queued(t.pend, t.req, t.nreq)
    BY <1>1, <2>1 DEF Core, Queued, Requests
  <2>3. Core(t, 0)
    BY <2>1, <2>2 DEF Core, SameLink, First, Linked, Idle, Room
  <2>4. Data(s) => Data(t)
    BY <2>1 DEF Data, SameLink
  <2>5. Hand(s) /\ (s.conn_state \in Connecting => s.nreq + 3 <= MaxReqs) => Hand(t)
    BY <1>1, <2>1 DEF Hand, SameLink
  <2> QED
    BY <2>1, <2>3, <2>4, <2>5
<1>4. CASE /\ s.conn_state # "TCP_DISCONNECTED"
           /\ Len(s.pend) # MQTT_REQ_MAX_IN_FLIGHT /\ CheckSpace(s)
           /\ t = Send(Append1(Enqueued(s, kind), NewMsg(s, kind)))
  <2>0. PICK e : e = Enqueued(s, kind)
    OBVIOUS
  <2>1. /\ e \in State /\ SameLink(s, e) /\ e.nreq = s.nreq + 1
        /\ e.ring = s.ring /\ e.tx = s.tx /\ e.unacked = s.unacked
        /\ e.firstOut = s.firstOut
    <3>1. s \in State
      BY <1>1
    <3>2. IsEnqueued(s, kind, e)
      BY <2>0, <3>1, EnqueuedIs
    <3> QED
      BY <3>2 DEF IsEnqueued
  <2>2. Core(e, 0)
    BY <1>4, <2>0, EnqueuedCore
  <2>3. NewMsg(s, kind) \in Msg /\ NewMsg(s, kind).type = kind
    BY <1>1, NewMsgType DEF NewMsg
  <2>4. PICK a : a = Append1(e, NewMsg(s, kind))
    OBVIOUS
  <2>5. CheckSpace(e)
    BY <1>4, <2>1 DEF CheckSpace
  <2>6. /\ Core(a, 0)
        /\ (e.data_cb \/ kind # "SUBSCRIBE") /\ Data(e) => Data(a)
        /\ Hand(e) => Hand(a)
    BY <2>2, <2>3, <2>4, <2>5, Append1Core
  <2>7. SameLink(e, a) /\ a.nreq = e.nreq
    BY <2>1, <2>3, <2>4, Append1Fields DEF SameLink
  <2>8. t = Send(a)
    BY <1>4, <2>0, <2>4
  <2>9. Core(t, 0) /\ (Data(a) => Data(t)) /\ (Hand(a) => Hand(t))
    BY <2>6, <2>8, SendCore
  <2>10. a.conn
    BY <1>4, <2>1, <2>7 DEF SameLink, Core, Linked
  <2>11. SameLink(a, t) /\ t.nreq = a.nreq
    <3>1. a \in State
      BY <2>6 DEF Core
    <3> QED
      BY <2>8, <2>10, <3>1, SendFields, ZenonT(60) DEF SameLink
  <2>12. SameLink(s, t) /\ t.nreq = s.nreq + 1
    BY <2>1, <2>7, <2>11 DEF SameLink
  <2>13. Data(s) => Data(e)
    BY <2>1 DEF Data, SameLink
  <2>14. Hand(s) /\ (s.conn_state \in Connecting => s.nreq + 3 <= MaxReqs) => Hand(e)
    BY <1>1, <2>1 DEF Hand, SameLink
  <2>15. s.data_cb = e.data_cb
    BY <2>1 DEF SameLink
  <2> QED
    BY <2>6, <2>9, <2>12, <2>13, <2>14, <2>15
<1> QED
  BY <1>2, <1>3, <1>4, RequestCases

-----------------------------------------------------------------------------
(***************************************************************************)
(* Connecting and closing.                                                 *)
(***************************************************************************)
(* What is left alone by everything but the timer, the output and the      *)
(* reception of publishes.                                                 *)
SameGhosts(s, t) ==
  t.mem = s.mem /\ t.nullSend = s.nullSend /\ t.nullCall = s.nullCall

LEMMA WipeIs ==
  ASSUME NEW s \in State, NEW t, t = Wipe(s)
  PROVE  /\ t \in State /\ SameGhosts(s, t) /\ t.timers = s.timers
         /\ t.conn = FALSE /\ t.conn_state = "TCP_DISCONNECTED" /\ t.pend = <<>>
         /\ t.ring = <<>> /\ t.tx = <<>> /\ t.rx = <<>> /\ t.unacked = 0
         /\ t.granted = FALSE /\ t.data_cb = FALSE /\ t.nreq = 0
         /\ t.req = [k \in Requests |-> "none"] /\ t.firstOut = "none"
         /\ t.pkt_id_seq = 0 /\ t.served = {} /\ t.qos0 = {}
<1>1. t \in State
  BY WipeType
<1> QED
  BY <1>1 DEF Wipe, Wiped, SameGhosts

LEMMA QueuedNone ==
  Queued(<<>>, [k \in Requests |-> "none"], 0)
  BY DEF Queued

LEMMA WipeCore ==
  ASSUME NEW s \in State, NEW t, t = Wipe(s)
  PROVE  (\A left : Core(t, left)) /\ Data(t) /\ Hand(t)
<1>1. /\ t \in State /\ t.conn = FALSE /\ t.conn_state = "TCP_DISCONNECTED"
      /\ t.pend = <<>> /\ t.ring = <<>> /\ t.tx = <<>> /\ t.rx = <<>>
      /\ t.unacked = 0 /\ t.granted = FALSE /\ t.nreq = 0
      /\ t.req = [k \in Requests |-> "none"] /\ t.firstOut = "none"
  BY WipeIs
<1>2. Queued(t.pend, t.req, t.nreq)
  BY <1>1, QueuedNone
<1>3. Room(t)
  BY <1>1, Constants DEF Room
<1>4. Linked(t) /\ Idle(t) /\ First(t) /\ Hand(t)
  BY <1>1 DEF Linked, Idle, First, Hand, Connecting
<1>5. Data(t)
  BY <1>1 DEF Data
<1>6. \A left : Clock(t.pend, left)
  BY <1>1, ClockEmpty
<1> QED
  BY <1>1, <1>2, <1>3, <1>4, <1>5, <1>6 DEF Core

Opened(w) == [w EXCEPT !.conn = TRUE, !.conn_state = "TCP_CONNECTING"]
ConnectMsg == [type |-> "CONNECT", id |-> 0, k |-> 0]

LEMMA ConnectMsgType == ConnectMsg \in Msg /\ ConnectMsg.type = "CONNECT"
<1>1. "CONNECT" \in MsgTypes /\ 0 \in 0 .. IdMod /\ 0 \in 0 .. MaxReqs
  BY Constants DEF MsgTypes
<1>2. ConnectMsg \in Msg
  BY <1>1, Zenon DEF ConnectMsg, Msg
<1> QED
  BY <1>2 DEF ConnectMsg

LEMMA ClientConnectCases ==
  ASSUME NEW s
  PROVE  \/ s.conn_state # "TCP_DISCONNECTED" /\ ClientConnect(s) = s
         \/ s.conn_state = "TCP_DISCONNECTED" /\ ClientConnect(s) = Wipe(s)
         \/ /\ s.conn_state = "TCP_DISCONNECTED"
            /\ ClientConnect(s) = Append1(Opened(Wipe(s)), ConnectMsg)
  BY Zenon DEF ClientConnect, Opened, ConnectMsg

LEMMA OpenedIs ==
  ASSUME NEW s \in State, NEW o, o = Opened(Wipe(s))
  PROVE  /\ o \in State /\ SameGhosts(s, o) /\ o.timers = s.timers
         /\ o.conn = TRUE /\ o.conn_state = "TCP_CONNECTING" /\ o.pend = <<>>
         /\ o.ring = <<>> /\ o.tx = <<>> /\ o.rx = <<>>
         /\ o.granted = FALSE /\ o.data_cb = FALSE /\ o.nreq = 0
         /\ o.req = [k \in Requests |-> "none"] /\ o.firstOut = "none"
         /\ o.pkt_id_seq = 0 /\ o.served = {} /\ o.qos0 = {}
<1> SUFFICES ASSUME NEW w, w = Wipe(s), o = Opened(w)
             PROVE  /\ o \in State /\ SameGhosts(s, o) /\ o.timers = s.timers
                    /\ o.conn = TRUE /\ o.conn_state = "TCP_CONNECTING"
                    /\ o.pend = <<>>
                    /\ o.ring = <<>> /\ o.tx = <<>> /\ o.rx = <<>>
                    /\ o.granted = FALSE /\ o.data_cb = FALSE /\ o.nreq = 0
                    /\ o.req = [k \in Requests |-> "none"] /\ o.firstOut = "none"
                    /\ o.pkt_id_seq = 0 /\ o.served = {} /\ o.qos0 = {}
  OBVIOUS
<1>1. /\ w \in State /\ SameGhosts(s, w) /\ w.timers = s.timers
      /\ w.pend = <<>> /\ w.ring = <<>> /\ w.tx = <<>> /\ w.rx = <<>>
      /\ w.granted = FALSE /\ w.data_cb = FALSE /\ w.nreq = 0
      /\ w.req = [k \in Requests |-> "none"] /\ w.firstOut = "none"
      /\ w.pkt_id_seq = 0 /\ w.served = {} /\ w.qos0 = {}
  BY WipeIs
<1>2. TRUE \in BOOLEAN /\ "TCP_CONNECTING" \in ConnStates
  BY DEF ConnStates
<1>3. o \in State
  BY <1>1, <1>2, Zenon DEF Opened, State
<1>4. /\ o.timers = w.timers /\ o.mem = w.mem /\ o.nullSend = w.nullSend
      /\ o.nullCall = w.nullCall
      /\ o.conn = TRUE /\ o.conn_state = "TCP_CONNECTING" /\ o.pend = w.pend
      /\ o.ring = w.ring /\ o.tx = w.tx /\ o.rx = w.rx
      /\ o.granted = w.granted /\ o.data_cb = w.data_cb /\ o.nreq = w.nreq
      /\ o.req = w.req /\ o.firstOut = w.firstOut
      /\ o.pkt_id_seq = w.pkt_id_seq /\ o.served = w.served /\ o.qos0 = w.qos0
  BY <1>1 DEF Opened, State
<1>5. SameGhosts(s, o)
  BY <1>1, <1>4 DEF SameGhosts
<1> QED
  BY <1>1, <1>3, <1>4, <1>5

Connected(s, t) ==
  /\ \A left : Core(t, left)
  /\ Data(t) /\ Hand(t)
  /\ SameGhosts(s, t) /\ t.timers = s.timers
  /\ t.conn_state \in {"TCP_DISCONNECTED", "TCP_CONNECTING"}

(* mqtt_client_connect on a client that is not connected.                  *)
LEMMA ClientConnectCore ==
  ASSUME NEW s \in State, s.conn_state = "TCP_DISCONNECTED",
         NEW t, t = ClientConnect(s)
  PROVE  Connected(s, t)
<1>1. CASE t = Wipe(s)
  <2>1. (\A left : Core(t, left)) /\ Data(t) /\ Hand(t)
    BY <1>1, WipeCore
  <2>2. SameGhosts(s, t) /\ t.timers = s.timers /\ t.conn_state = "TCP_DISCONNECTED"
    BY <1>1, WipeIs
  <2> QED
    BY <2>1, <2>2 DEF Connected
<1>2. CASE t = Append1(Opened(Wipe(s)), ConnectMsg)
  <2>1. PICK o : o = Opened(Wipe(s))
    OBVIOUS
  <2>2. t = Append1(o, ConnectMsg)
    BY <1>2, <2>1
  <2>3. /\ o \in State /\ SameGhosts(s, o) /\ o.timers = s.timers
        /\ o.conn = TRUE /\ o.conn_state = "TCP_CONNECTING" /\ o.pend = <<>>
        /\ o.ring = <<>> /\ o.tx = <<>> /\ o.rx = <<>>
        /\ o.granted = FALSE /\ o.data_cb = FALSE /\ o.nreq = 0
        /\ o.req = [k \in Requests |-> "none"] /\ o.firstOut = "none"
    BY <2>1, OpenedIs
  <2>4. /\ t \in State /\ t.ring = Append(o.ring, ConnectMsg)
        /\ t.timers = o.timers /\ t.mem = o.mem /\ t.nullSend = o.nullSend
        /\ t.nullCall = o.nullCall /\ t.conn = o.conn
        /\ t.conn_state = o.conn_state /\ t.pend = o.pend
        /\ t.data_cb = o.data_cb /\ t.tx = o.tx
        /\ t.rx = o.rx /\ t.granted = o.granted
        /\ t.nreq = o.nreq /\ t.req = o.req /\ t.firstOut = o.firstOut
    BY <2>2, <2>3, ConnectMsgType, Append1Fields
  <2>5. /\ t.ring # <<>> /\ Len(t.ring) = 1 /\ t.ring[1] = ConnectMsg
        /\ \A i \in 1 .. Len(t.ring) : t.ring[i] = ConnectMsg
    BY <2>3, <2>4
  <2>6. Queued(t.pend, t.req, t.nreq)
    BY <2>3, <2>4, QueuedNone
  <2>7. Room(t)
    BY <2>3, <2>4, <2>5, Constants DEF Room
  <2>8. Linked(t) /\ Idle(t) /\ First(t)
    BY <2>3, <2>4, <2>5, ConnectMsgType DEF Linked, Idle, First
  <2>9. \A left : Clock(t.pend, left)
    BY <2>3, <2>4, ClockEmpty
  <2>10. \A left : Core(t, left)
    BY <2>4, <2>6, <2>7, <2>8, <2>9 DEF Core
  <2>11. Data(t)
    BY <2>3, <2>4, <2>5, ConnectMsgType DEF Data
  <2>12. Hand(t)
    BY <2>3, <2>4, Constants DEF Hand, Connecting
  <2>13. SameGhosts(s, t)
    BY <2>3, <2>4 DEF SameGhosts
  <2> QED
    BY <2>3, <2>4, <2>10, <2>11, <2>12, <2>13 DEF Connected
<1> QED
  BY <1>1, <1>2, ClientConnectCases

LEMMA SetInpubCallbackIs ==
  ASSUME NEW s \in State, NEW t, t = SetInpubCallback(s)
  PROVE  /\ t \in State /\ SameGhosts(s, t) /\ t.timers = s.timers
         /\ t.conn = s.conn /\ t.conn_state = s.conn_state /\ t.pend = s.pend
         /\ t.req = s.req /\ t.nreq = s.nreq /\ t.ring = s.ring
         /\ t.firstOut = s.firstOut /\ t.data_cb = TRUE /\ t.rx = s.rx
         /\ t.tx = s.tx /\ t.granted = s.granted /\ t.npub = s.npub
         /\ t.served = s.served /\ t.pkt_id_seq = s.pkt_id_seq /\ t.qos0 = s.qos0
         /\ t.cyclic_tick = s.cyclic_tick
<1>1. TRUE \in BOOLEAN
  OBVIOUS
<1>2. t \in State
  BY <1>1, Zenon DEF SetInpubCallback, State
<1> QED
  BY <1>2 DEF SetInpubCallback, State, SameGhosts

(* Ali_Mqtt_Connect_accepted, in a client that has just connected.         *)
LEMMA AcceptedCore ==
  ASSUME NEW s, Core(s, 0), s.conn_state = "MQTT_CONNECTED",
         s.nreq + 2 <= MaxReqs, NEW t, t = Accepted(s)
  PROVE  /\ Core(t, 0) /\ Data(t) /\ Hand(t) /\ SameGhosts(s, t)
         /\ t.timers = s.timers /\ t.conn_state = s.conn_state
         /\ t.data_cb = TRUE /\ t.rx = s.rx /\ t.cyclic_tick = s.cyclic_tick
<1>0. s.nreq \in Nat /\ s.nreq < MaxReqs /\ MaxReqs \in Nat
  BY StateFields, Constants DEF Core
<1>1. PICK a : a = Request(s, "SUBSCRIBE")
  OBVIOUS
<1>2. "SUBSCRIBE" \in AskKinds /\ "PUBLISH1" \in AskKinds
  BY DEF AskKinds
<1>3. /\ Core(a, 0) /\ SameLink(s, a)
      /\ a.nreq = s.nreq \/ a.nreq = s.nreq + 1
  BY <1>0, <1>1, <1>2, RequestCore
<1>4. PICK b : b = SetInpubCallback(a)
  OBVIOUS
<1>5. /\ b \in State /\ SameGhosts(a, b) /\ b.timers = a.timers
      /\ b.conn = a.conn /\ b.conn_state = a.conn_state /\ b.pend = a.pend
      /\ b.req = a.req /\ b.nreq = a.nreq /\ b.ring = a.ring
      /\ b.firstOut = a.firstOut /\ b.data_cb = TRUE /\ b.rx = a.rx
      /\ b.cyclic_tick = a.cyclic_tick
  BY <1>3, <1>4, SetInpubCallbackIs, ZenonT(60) DEF Core
<1>6. Core(b, 0)
  BY <1>3, <1>5, CoreFrame
<1>7. t = Request(b, "PUBLISH1")
  BY <1>1, <1>4 DEF Accepted
<1>8. b.nreq < MaxReqs
  BY <1>0, <1>3, <1>5
<1>9. Core(t, 0) /\ SameLink(b, t)
  BY <1>2, <1>6, <1>7, <1>8, RequestCore
<1>10. /\ t.timers = s.timers /\ t.conn_state = s.conn_state
       /\ t.data_cb = TRUE /\ t.rx = s.rx /\ SameGhosts(s, t)
       /\ t.conn = s.conn /\ t.cyclic_tick = s.cyclic_tick
  BY <1>3, <1>5, <1>9 DEF SameLink, SameGhosts
<1>11. Data(t) /\ Hand(t)
  BY <1>10 DEF Data, Hand, Connecting, Core, Linked
<1> QED
  BY <1>9, <1>10, <1>11

(* What mqtt_close needs of the state it is called in.                     *)
Closable(s) ==
  /\ s \in State /\ Queued(s.pend, s.req, s.nreq)
  /\ Len(s.ring) <= RingCap
  /\ s.firstOut \in {"none", "CONNECT"}

LEMMA CoreClosable ==
  ASSUME NEW s, NEW left, Core(s, left) PROVE Closable(s)
  BY DEF Core, Closable, Room, First

Dropped(req) == [k \in Requests |-> IF req[k] = "pending" THEN "dropped" ELSE req[k]]
Closed(s) == Untimeout(ClearRequests(ClosePcb(s)))
OneLess(n) == IF n = 0 THEN 0 ELSE n - 1

IsPcbClosed(s, t) ==
  /\ t \in State
  /\ t.conn = FALSE /\ t.tx = <<>> /\ t.rx = <<>> /\ t.unacked = 0
  /\ t.granted = FALSE
  /\ t.timers = s.timers /\ SameGhosts(s, t)
  /\ t.conn_state = s.conn_state /\ t.cyclic_tick = s.cyclic_tick
  /\ t.server_watchdog = s.server_watchdog
  /\ t.pkt_id_seq = s.pkt_id_seq /\ t.pend = s.pend
  /\ t.data_cb = s.data_cb /\ t.ring = s.ring /\ t.npub = s.npub
  /\ t.nreq = s.nreq /\ t.req = s.req /\ t.qos0 = s.qos0
  /\ t.served = s.served /\ t.firstOut = s.firstOut

LEMMA ClosePcbIs ==
  ASSUME NEW s \in State, NEW t, t = ClosePcb(s)
  PROVE  IsPcbClosed(s, t)
<1>1. FALSE \in BOOLEAN /\ <<>> \in Seq(Msg) /\ 0 \in 0 .. SndBuf
  BY Empties, Constants
<1>2. t \in State
  BY <1>1, Zenon DEF ClosePcb, State
<1> QED
  BY <1>2, SMTT(60) DEF ClosePcb, State, SameGhosts, IsPcbClosed

IsCleared(s, t) ==
  /\ t \in State
  /\ t.pend = <<>> /\ t.req = Dropped(s.req)
  /\ t.conn = s.conn /\ t.tx = s.tx /\ t.rx = s.rx /\ t.unacked = s.unacked
  /\ t.granted = s.granted
  /\ t.timers = s.timers /\ SameGhosts(s, t)
  /\ t.conn_state = s.conn_state /\ t.cyclic_tick = s.cyclic_tick
  /\ t.server_watchdog = s.server_watchdog
  /\ t.pkt_id_seq = s.pkt_id_seq
  /\ t.data_cb = s.data_cb /\ t.ring = s.ring /\ t.npub = s.npub
  /\ t.nreq = s.nreq /\ t.qos0 = s.qos0
  /\ t.served = s.served /\ t.firstOut = s.firstOut

LEMMA ClearRequestsIs ==
  ASSUME NEW s \in State, NEW t, t = ClearRequests(s)
  PROVE  IsCleared(s, t)
<1>1. <<>> \in Seq(PendReq)
  BY Empties
<1>2. Dropped(s.req) \in [Requests -> Fate]
  BY StateFields DEF Dropped, Fate
<1>3. t = [s EXCEPT !.pend = <<>>, !.req = Dropped(s.req)]
  BY DEF ClearRequests, Dropped
<1>4. t \in State
  BY <1>1, <1>2, <1>3, ZenonT(60) DEF State
<1> QED
  BY <1>3, <1>4 DEF State, SameGhosts, IsCleared

IsUntimed(s, t) ==
  /\ t \in State /\ t.timers = OneLess(s.timers)
  /\ t.pend = s.pend /\ t.req = s.req
  /\ t.conn = s.conn /\ t.tx = s.tx /\ t.rx = s.rx /\ t.unacked = s.unacked
  /\ t.granted = s.granted /\ SameGhosts(s, t)
  /\ t.conn_state = s.conn_state /\ t.cyclic_tick = s.cyclic_tick
  /\ t.server_watchdog = s.server_watchdog
  /\ t.pkt_id_seq = s.pkt_id_seq
  /\ t.data_cb = s.data_cb /\ t.ring = s.ring /\ t.npub = s.npub
  /\ t.nreq = s.nreq /\ t.qos0 = s.qos0
  /\ t.served = s.served /\ t.firstOut = s.firstOut

LEMMA UntimeoutIs ==
  ASSUME NEW s \in State, NEW t, t = Untimeout(s)
  PROVE  IsUntimed(s, t)
<1>1. OneLess(s.timers) \in Nat
  BY StateFields DEF OneLess
<1>2. t = [s EXCEPT !.timers = OneLess(s.timers)]
  BY Zenon DEF Untimeout, OneLess
<1>3. t \in State
  BY <1>1, <1>2, ZenonT(60) DEF State
<1> QED
  BY <1>2, <1>3 DEF State, SameGhosts, IsUntimed

IsClosed(s, t) ==
  /\ t \in State
  /\ t.conn = FALSE /\ t.tx = <<>> /\ t.rx = <<>> /\ t.unacked = 0
  /\ t.granted = FALSE /\ t.pend = <<>> /\ t.req = Dropped(s.req)
  /\ t.timers = OneLess(s.timers) /\ SameGhosts(s, t)
  /\ t.conn_state = s.conn_state
  /\ t.cyclic_tick = s.cyclic_tick /\ t.server_watchdog = s.server_watchdog
  /\ t.pkt_id_seq = s.pkt_id_seq
  /\ t.data_cb = s.data_cb /\ t.ring = s.ring /\ t.npub = s.npub
  /\ t.nreq = s.nreq /\ t.qos0 = s.qos0
  /\ t.served = s.served /\ t.firstOut = s.firstOut

LEMMA ClosedIs ==
  ASSUME NEW s \in State, NEW t, t = Closed(s)
  PROVE  IsClosed(s, t)
<1>1. PICK a : a = ClosePcb(s)
  OBVIOUS
<1>2. PICK b : b = ClearRequests(a)
  OBVIOUS
<1>3. t = Untimeout(b)
  BY <1>1, <1>2 DEF Closed
<1>4. IsPcbClosed(s, a)
  BY <1>1, ClosePcbIs
<1>5. a \in State
  BY <1>4 DEF IsPcbClosed
<1>6. IsCleared(a, b)
  BY <1>2, <1>5, ClearRequestsIs
<1>7. b \in State
  BY <1>6 DEF IsCleared
<1>8. IsUntimed(b, t)
  BY <1>3, <1>7, UntimeoutIs
<1> QED
  BY <1>4, <1>6, <1>8
  DEF IsPcbClosed, IsCleared, IsUntimed, IsClosed, SameGhosts

LEMMA ClosedCore ==
  ASSUME NEW s, Closable(s), NEW t, IsClosed(s, t),
         NEW u \in State, u = [t EXCEPT !.conn_state = "TCP_DISCONNECTED"]
  PROVE  /\ \A left : Core(u, left)
         /\ Hand(u) /\ (Data(s) => Data(u))
         /\ SameGhosts(s, u) /\ u.timers = OneLess(s.timers)
         /\ u.conn_state = "TCP_DISCONNECTED" /\ u.data_cb = s.data_cb
         /\ u.pend = <<>> /\ u.req = Dropped(s.req) /\ u.rx = <<>>
         /\ u.pkt_id_seq = s.pkt_id_seq /\ u.ring = s.ring /\ u.tx = <<>>
         /\ u.nreq = s.nreq /\ u.qos0 = s.qos0 /\ u.served = s.served
<1>1. /\ t \in State
      /\ t.conn = FALSE /\ t.tx = <<>> /\ t.rx = <<>> /\ t.unacked = 0
      /\ t.granted = FALSE /\ t.pend = <<>> /\ t.req = Dropped(s.req)
      /\ t.timers = OneLess(s.timers) /\ SameGhosts(s, t)
      /\ t.data_cb = s.data_cb /\ t.ring = s.ring /\ t.npub = s.npub
      /\ t.nreq = s.nreq /\ t.qos0 = s.qos0 /\ t.pkt_id_seq = s.pkt_id_seq
      /\ t.served = s.served /\ t.firstOut = s.firstOut
  BY DEF IsClosed
<1>2. /\ u.conn = t.conn /\ u.tx = t.tx /\ u.rx = t.rx /\ u.unacked = t.unacked
      /\ u.granted = t.granted /\ u.pend = t.pend /\ u.req = t.req
      /\ u.timers = t.timers /\ u.data_cb = t.data_cb /\ u.ring = t.ring
      /\ u.nreq = t.nreq /\ u.firstOut = t.firstOut
      /\ u.qos0 = t.qos0 /\ u.pkt_id_seq = t.pkt_id_seq /\ u.served = t.served
      /\ u.conn_state = "TCP_DISCONNECTED" /\ SameGhosts(t, u)
  BY <1>1 DEF State, SameGhosts
<1>3. Queued(<<>>, Dropped(s.req), s.nreq)
  <2>1. Queued(s.pend, s.req, s.nreq)
    BY DEF Closable
  <2> QED
    BY <2>1, QueuedClear DEF Dropped
<1>4. Linked(u) /\ Idle(u) /\ First(u) /\ Hand(u)
  BY <1>1, <1>2 DEF Linked, Idle, First, Hand, Closable, Connecting
<1>5. Room(u)
  BY <1>1, <1>2, Constants DEF Room, Closable
<1>6. \A left : Core(u, left)
  <2>1. \A left : Clock(u.pend, left)
    BY <1>1, <1>2, ClockEmpty
  <2> QED
    BY <1>1, <1>2, <1>3, <1>4, <1>5, <2>1 DEF Core
<1>7. Data(s) => Data(u)
  BY <1>1, <1>2 DEF Data
<1>8. SameGhosts(s, u)
  BY <1>1, <1>2 DEF SameGhosts
<1> QED
  BY <1>1, <1>2, <1>4, <1>6, <1>7, <1>8

Down(s, u) ==
  /\ \A left : Core(u, left)
  /\ Hand(u) /\ (Data(s) => Data(u))
  /\ SameGhosts(s, u) /\ u.timers = OneLess(s.timers)
  /\ u.conn_state \in {"TCP_DISCONNECTED", "TCP_CONNECTING"}
  /\ u.data_cb = s.data_cb \/ u.conn_state = "TCP_CONNECTING"
     \/ OnDown = "reconnect"

(* mqtt_close with the connection callback, whatever that one does.        *)
LEMMA CloseCore ==
  ASSUME NEW s, Closable(s), s.conn_state # "TCP_DISCONNECTED",
         NEW reason, reason # "MQTT_CONNECT_ACCEPTED", NEW t, t = Close(s, reason)
  PROVE  Down(s, t)
<1>1. PICK c : c = Closed(s)
  OBVIOUS
<1>2. PICK u : u = [c EXCEPT !.conn_state = "TCP_DISCONNECTED"]
  OBVIOUS
<1>3. t = ConnectCb(u, reason)
  BY <1>1, <1>2 DEF Close, Closed
<1>4. s \in State /\ IsClosed(s, c)
  BY <1>1, ClosedIs DEF Closable
<1>5. u \in State
  <2>1. c \in State /\ "TCP_DISCONNECTED" \in ConnStates
    BY <1>4 DEF IsClosed, ConnStates
  <2> QED
    BY <1>2, <2>1, ZenonT(60) DEF State
<1>6. /\ \A left : Core(u, left)
      /\ Hand(u) /\ (Data(s) => Data(u))
      /\ SameGhosts(s, u) /\ u.timers = OneLess(s.timers)
      /\ u.conn_state = "TCP_DISCONNECTED" /\ u.data_cb = s.data_cb
  BY <1>2, <1>4, <1>5, ClosedCore
<1>7. CASE t = u
  BY <1>6, <1>7 DEF Down
<1>8. CASE t = ClientConnect(u) /\ OnDown = "reconnect"
  <2>1. Connected(u, t)
    BY <1>5, <1>6, <1>8, ClientConnectCore
  <2> QED
    BY <1>6, <1>8, <2>1 DEF Connected, Down, SameGhosts
<1> QED
  BY <1>3, <1>7, <1>8 DEF ConnectCb

(* mqtt_disconnect: no connection callback.                                *)
LEMMA DisconnectCore ==
  ASSUME NEW s, Closable(s), s.conn_state # "TCP_DISCONNECTED",
         NEW t, t = Disconnect(s)
  PROVE  /\ \A left : Core(t, left)
         /\ Hand(t) /\ (Data(s) => Data(t))
         /\ SameGhosts(s, t) /\ t.timers = OneLess(s.timers)
         /\ t.conn_state = "TCP_DISCONNECTED" /\ t.data_cb = s.data_cb
         /\ t.pend = <<>> /\ t.req = Dropped(s.req) /\ t.rx = <<>>
         /\ t.pkt_id_seq = s.pkt_id_seq /\ t.ring = s.ring /\ t.tx = <<>>
         /\ t.nreq = s.nreq /\ t.qos0 = s.qos0 /\ t.served = s.served
<1>1. PICK d : d = [s EXCEPT !.conn_state = "TCP_DISCONNECTED"]
  OBVIOUS
<1>2. s \in State /\ "TCP_DISCONNECTED" \in ConnStates
  BY DEF Closable, ConnStates
<1>3. d \in State
  BY <1>1, <1>2, ZenonT(60) DEF State
<1>4. /\ d.conn_state = "TCP_DISCONNECTED" /\ d.pend = s.pend /\ d.req = s.req
      /\ d.nreq = s.nreq /\ d.ring = s.ring /\ d.firstOut = s.firstOut
      /\ d.timers = s.timers /\ SameGhosts(s, d) /\ d.data_cb = s.data_cb
      /\ d.granted = s.granted /\ d.rx = s.rx /\ d.tx = s.tx
      /\ d.pkt_id_seq = s.pkt_id_seq /\ d.qos0 = s.qos0 /\ d.served = s.served
  BY <1>1, <1>2 DEF State, SameGhosts
<1>5. t = Closed(d)
  BY <1>1, <1>4 DEF Disconnect, Close, Closed
<1>6. IsClosed(d, t)
  BY <1>3, <1>5, ClosedIs
<1>7. Closable(d)
  BY <1>3, <1>4 DEF Closable
<1>8. t \in State /\ t = [t EXCEPT !.conn_state = "TCP_DISCONNECTED"]
  BY <1>4, <1>6 DEF IsClosed, State
<1>9. /\ \A left : Core(t, left)
      /\ Hand(t) /\ (Data(d) => Data(t))
      /\ SameGhosts(d, t) /\ t.timers = OneLess(d.timers)
      /\ t.conn_state = "TCP_DISCONNECTED" /\ t.data_cb = d.data_cb
      /\ t.pend = <<>> /\ t.req = Dropped(d.req) /\ t.rx = <<>>
      /\ t.pkt_id_seq = d.pkt_id_seq /\ t.ring = d.ring /\ t.tx = <<>>
      /\ t.nreq = d.nreq /\ t.qos0 = d.qos0 /\ t.served = d.served
  BY <1>6, <1>7, <1>8, ClosedCore
<1>10. Data(s) => Data(d)
  BY <1>4 DEF Data
<1> QED
  BY <1>4, <1>9, <1>10 DEF SameGhosts

-----------------------------------------------------------------------------
(***************************************************************************)
(* A request ends.                                                         *)
(***************************************************************************)
(* q is the queue without its entry i.                                     *)
Without(pend, i, q) ==
  /\ q \in Seq(PendReq) /\ Len(q) = Len(pend) - 1
  /\ \A j \in 1 .. i - 1 : q[j].k = pend[j].k
  /\ \A j \in i .. Len(pend) - 1 : q[j].k = pend[j + 1].k

WithEnd(s, i, q, err) == [s EXCEPT !.pend = q, !.req = [s.req EXCEPT ![s.pend[i].k] = err]]

IsWithEnd(s, i, q, err, e) ==
  /\ e \in State /\ e.pend = q /\ e.req = [s.req EXCEPT ![s.pend[i].k] = err]
  /\ e.conn = s.conn /\ e.tx = s.tx /\ e.rx = s.rx /\ e.unacked = s.unacked
  /\ e.granted = s.granted /\ e.timers = s.timers /\ SameGhosts(s, e)
  /\ e.conn_state = s.conn_state /\ e.cyclic_tick = s.cyclic_tick
  /\ e.server_watchdog = s.server_watchdog
  /\ e.pkt_id_seq = s.pkt_id_seq
  /\ e.data_cb = s.data_cb /\ e.ring = s.ring /\ e.npub = s.npub
  /\ e.nreq = s.nreq /\ e.qos0 = s.qos0
  /\ e.served = s.served /\ e.firstOut = s.firstOut

LEMMA WithEndIs ==
  ASSUME NEW s \in State, NEW i \in 1 .. Len(s.pend), s.pend[i].k \in Requests,
         NEW q \in Seq(PendReq), NEW err \in Fate, NEW e, e = WithEnd(s, i, q, err)
  PROVE  IsWithEnd(s, i, q, err, e)
<1>1. [s.req EXCEPT ![s.pend[i].k] = err] \in [Requests -> Fate]
  <2>1. s.req \in [Requests -> Fate]
    BY StateFields
  <2> QED
    BY <2>1
<1>2. e \in State
  BY <1>1, Zenon DEF WithEnd, State
<1>3. e.pend = q /\ e.req = [s.req EXCEPT ![s.pend[i].k] = err]
  BY DEF WithEnd, State
<1>4. /\ e.conn = s.conn /\ e.tx = s.tx /\ e.rx = s.rx /\ e.unacked = s.unacked
      /\ e.granted = s.granted /\ e.timers = s.timers /\ SameGhosts(s, e)
      /\ e.conn_state = s.conn_state /\ e.cyclic_tick = s.cyclic_tick
      /\ e.server_watchdog = s.server_watchdog
      /\ e.pkt_id_seq = s.pkt_id_seq
      /\ e.data_cb = s.data_cb /\ e.ring = s.ring /\ e.npub = s.npub
      /\ e.nreq = s.nreq /\ e.qos0 = s.qos0
      /\ e.served = s.served /\ e.firstOut = s.firstOut
  BY DEF WithEnd, State, SameGhosts
<1> QED
  BY <1>2, <1>3, <1>4 DEF IsWithEnd

LEMMA RequestCbCases ==
  ASSUME NEW s \in State, NEW i, NEW q, NEW err
  PROVE  LET t == RequestCb([s EXCEPT !.pend = q], s.pend[i], err)
             e == WithEnd(s, i, q, err)
         IN  \/ t = e
             \/ err # "ERR_OK" /\ OnRequestFail = "disconnect" /\ t = Disconnect(e)
<1>1. PICK p : p = [s EXCEPT !.pend = q]
  OBVIOUS
<1>2. [p EXCEPT !.req[s.pend[i].k] = err] = WithEnd(s, i, q, err)
  BY <1>1 DEF WithEnd, State
<1> QED
  BY <1>1, <1>2 DEF RequestCb

Ends == {"ERR_OK", "ERR_ABRT", "ERR_TIMEOUT"}

(* The counters of keep-alive and the output are as they were.             *)
Calm(s, t) ==
  /\ t.cyclic_tick = s.cyclic_tick /\ t.server_watchdog = s.server_watchdog
  /\ t.ring = s.ring /\ t.unacked = s.unacked

Ended(s, t, err, left) ==
  /\ Core(t, left)
  /\ Data(s) => Data(t)
  /\ Hand(s) => Hand(t)
  /\ SameGhosts(s, t) /\ t.data_cb = s.data_cb
  /\ \/ t.conn_state = s.conn_state /\ t.timers = s.timers /\ Calm(s, t)
     \/ /\ t.conn_state = "TCP_DISCONNECTED" /\ err # "ERR_OK"
        /\ OnRequestFail = "disconnect"
  /\ Len(t.pend) <= Len(s.pend) - 1

LEMMA RequestCbCore ==
  ASSUME NEW s, NEW left, Core(s, left), NEW i \in 1 .. Len(s.pend),
         NEW q, Without(s.pend, i, q), NEW rest, Clock(q, rest),
         NEW err \in Ends,
         NEW t, t = RequestCb([s EXCEPT !.pend = q], s.pend[i], err)
  PROVE  Ended(s, t, err, rest)
<1>1. /\ s \in State /\ s.pend \in Seq(PendReq) /\ s.req \in [Requests -> Fate]
      /\ s.nreq \in Nat /\ Queued(s.pend, s.req, s.nreq)
  <2>1. s \in State /\ Queued(s.pend, s.req, s.nreq)
    BY DEF Core
  <2>2. s.nreq \in Nat
    BY <2>1, StateFields, Constants
  <2> QED
    BY <2>1, <2>2, StateFields
<1>2. s.pend[i].k \in Requests
  BY <1>1 DEF Queued
<1>3. err \in Fate /\ err # "pending"
  BY DEF Ends, Fate
<1>4. q \in Seq(PendReq) /\ Len(q) = Len(s.pend) - 1
  BY DEF Without
<1>5. PICK e : e = WithEnd(s, i, q, err)
  OBVIOUS
<1>6. IsWithEnd(s, i, q, err, e)
  <2>1. s \in State
    BY <1>1
  <2>2. q \in Seq(PendReq)
    BY <1>4
  <2>3. err \in Fate
    BY <1>3
  <2> QED
    BY <1>2, <1>5, <2>1, <2>2, <2>3, WithEndIs
<1>7. Queued(q, [s.req EXCEPT ![s.pend[i].k] = err], s.nreq)
  <2>1. /\ Len(q) = Len(s.pend) - 1
        /\ \A j \in 1 .. i - 1 : q[j].k = s.pend[j].k
        /\ \A j \in i .. Len(s.pend) - 1 : q[j].k = s.pend[j + 1].k
    BY DEF Without
  <2> QED
    BY <1>1, <1>3, <2>1, QueuedEnd
<1>8. s.conn_state # "TCP_DISCONNECTED"
  BY <1>1 DEF Core, Idle
<1>9. Room(e)
  <2>1. /\ Len(s.pend) <= MQTT_REQ_MAX_IN_FLIGHT /\ Len(s.ring) <= RingCap
        /\ Len(s.pend) \in Nat /\ MQTT_REQ_MAX_IN_FLIGHT \in Nat
    BY <1>1, Constants DEF Core, Room
  <2>2. Len(q) <= MQTT_REQ_MAX_IN_FLIGHT
    BY <1>4, <2>1
  <2> QED
    BY <1>6, <2>1, <2>2 DEF Room, IsWithEnd
<1>10. Core(e, rest)
  <2>1. Linked(e) /\ Idle(e) /\ First(e)
    BY <1>6, <1>8 DEF Core, Linked, Idle, First, IsWithEnd
  <2>2. e \in State /\ Queued(e.pend, e.req, e.nreq) /\ Clock(e.pend, rest)
    BY <1>6, <1>7 DEF IsWithEnd
  <2> QED
    BY <1>9, <2>1, <2>2 DEF Core
<1>11. (Data(s) => Data(e)) /\ (Hand(s) => Hand(e))
  BY <1>6 DEF Data, Hand, IsWithEnd
<1>12. CASE t = e
  BY <1>4, <1>6, <1>10, <1>11, <1>12 DEF Ended, Calm, IsWithEnd
<1>13. CASE err # "ERR_OK" /\ OnRequestFail = "disconnect" /\ t = Disconnect(e)
  <2>1. Closable(e) /\ e.conn_state # "TCP_DISCONNECTED"
    BY <1>6, <1>8, <1>10, CoreClosable DEF IsWithEnd
  <2>2. /\ \A l : Core(t, l)
        /\ Hand(t) /\ (Data(e) => Data(t))
        /\ SameGhosts(e, t)
        /\ t.conn_state = "TCP_DISCONNECTED" /\ t.data_cb = e.data_cb
        /\ t.pend = <<>>
    BY <1>13, <2>1, DisconnectCore
  <2>3. SameGhosts(s, t) /\ t.data_cb = s.data_cb
    BY <1>6, <2>2 DEF SameGhosts, IsWithEnd
  <2>4. Len(t.pend) <= Len(s.pend) - 1
    BY <1>1, <2>2
  <2> QED
    BY <1>11, <1>13, <2>2, <2>3, <2>4 DEF Ended
<1> QED
  BY <1>1, <1>5, <1>12, <1>13, RequestCbCases

-----------------------------------------------------------------------------
(***************************************************************************)
(* Receiving.                                                              *)
(***************************************************************************)
Pubs == {"PUBLISH0", "PUBLISH1", "PUBLISH2"}
Settling == {"MQTT_CONNECTED", "TCP_DISCONNECTED"}

(* The counter of the interval timer is reset with the connection, or kept.*)
Ticks(s, t) ==
  \/ t.cyclic_tick = 0
  \/ s.conn_state = "MQTT_CONNECTED" /\ t.cyclic_tick = s.cyclic_tick

(* One message, in a client that is connected or has given up.             *)
Step(s, t) ==
  /\ Core(t, 0) /\ Data(t) /\ Hand(t)
  /\ s.data_cb => t.data_cb
  /\ t.mem = s.mem /\ t.nullCall = s.nullCall
  /\ t.conn_state \in Settling
  /\ s.conn_state # "TCP_DISCONNECTED" /\ OnRequestFail = "ignore" =>
       /\ t.conn_state = "MQTT_CONNECTED"
       /\ t.timers = s.timers /\ t.nullSend = s.nullSend /\ Ticks(s, t)

LEMMA StepSelf ==
  ASSUME NEW s, Core(s, 0), Data(s), Hand(s), s.conn_state \in Settling
  PROVE  Step(s, s)
  BY DEF Step, Settling, Ticks

LEMMA MsgWith ==
  ASSUME NEW msg \in Msg, NEW type \in MsgTypes,
         NEW r, r = [msg EXCEPT !.type = type]
  PROVE  r \in Msg /\ r.type = type /\ r.id = msg.id /\ r.k = msg.k
<1>1. r \in Msg
  BY Zenon DEF Msg
<1> QED
  BY <1>1 DEF Msg

LEMMA PubResponseCore ==
  ASSUME NEW s, Core(s, 0), Data(s), Hand(s), s.conn_state \in Settling,
         NEW msg \in Msg, NEW type \in MsgTypes, type # "SUBSCRIBE",
         NEW t, t = PubResponse(s, type, msg)
  PROVE  Step(s, t)
<1>1. CASE ~CheckSpace(s)
  BY <1>1, StepSelf DEF PubResponse
<1>2. CASE CheckSpace(s)
  <2>1. PICK r : r = [msg EXCEPT !.type = type]
    OBVIOUS
  <2>2. r \in Msg /\ r.type = type
    BY <2>1, MsgWith
  <2>3. PICK a : a = Append1(s, r)
    OBVIOUS
  <2>4. Core(a, 0) /\ Data(a) /\ Hand(a)
    BY <1>2, <2>2, <2>3, Append1Core
  <2>5. t = Send(a)
    BY <1>2, <2>1, <2>3 DEF PubResponse
  <2>6. Core(t, 0) /\ Data(t) /\ Hand(t)
    BY <2>4, <2>5, SendCore
  <2>7. s \in State /\ a \in State
    BY <2>4 DEF Core
  <2>8. /\ a.data_cb = s.data_cb /\ a.mem = s.mem /\ a.nullCall = s.nullCall
        /\ a.conn_state = s.conn_state /\ a.timers = s.timers
        /\ a.nullSend = s.nullSend /\ a.conn = s.conn
        /\ a.cyclic_tick = s.cyclic_tick
    BY <2>2, <2>3, <2>7, Append1Fields
  <2>9. /\ t.cyclic_tick = a.cyclic_tick /\ t.data_cb = a.data_cb /\ t.mem = a.mem /\ t.nullCall = a.nullCall
        /\ t.conn_state = a.conn_state /\ t.timers = a.timers
        /\ a.conn => t.nullSend = a.nullSend
    BY <2>5, <2>7, SendFields
  <2>10. s.conn_state # "TCP_DISCONNECTED" => s.conn /\ s.conn_state = "MQTT_CONNECTED"
    BY DEF Core, Linked, Settling
  <2> QED
    BY <2>6, <2>8, <2>9, <2>10 DEF Step, Ticks
<1> QED
  BY <1>1, <1>2

LEMMA CalledIs ==
  ASSUME NEW s, Core(s, 0), Data(s), Hand(s), s.data_cb,
         NEW t, t = [s EXCEPT !.nullCall = s.nullCall \/ ~s.data_cb]
  PROVE  t = s
<1>1. s \in State /\ s.nullCall \in BOOLEAN
  BY StateFields DEF Core
<1>2. (s.nullCall \/ ~s.data_cb) = s.nullCall
  BY <1>1
<1>3. t = [s EXCEPT !.nullCall = s.nullCall]
  BY <1>2
<1> QED
  BY <1>1, <1>3 DEF State

(* A SUBACK, PUBACK or PUBCOMP.                                            *)
LEMMA TakeWithout ==
  ASSUME NEW pend \in Seq(PendReq), NEW id, HasRequest(pend, id)
  PROVE  /\ FindRequest(pend, id) \in 1 .. Len(pend)
         /\ Without(pend, FindRequest(pend, id), TakeRequest(pend, id))
<1>1. PICK i : i = FindRequest(pend, id)
  OBVIOUS
<1>2. PICK q : q = TakeRequest(pend, id)
  OBVIOUS
<1>3. /\ i \in 1 .. Len(pend)
      /\ q \in Seq(PendReq) /\ Len(q) = Len(pend) - 1
      /\ \A j \in 1 .. i - 1 : q[j] = pend[j]
      /\ \A j \in i .. Len(pend) - 1 : q[j].k = pend[j + 1].k
  BY <1>1, <1>2, TakeRequestFields
<1>4. Without(pend, i, q)
  BY <1>3 DEF Without
<1> QED
  BY <1>1, <1>2, <1>3, <1>4

LEMMA EndedStep ==
  ASSUME NEW s, Core(s, 0), Data(s), Hand(s), s.conn_state \in Settling,
         NEW err, NEW t, Ended(s, t, err, 0)
  PROVE  Step(s, t)
  BY DEF Ended, Calm, Step, SameGhosts, Settling, Ticks

LEMMA TakenCore ==
  ASSUME NEW s, NEW left \in Int, Core(s, left), NEW id, HasRequest(s.pend, id),
         NEW err \in Ends,
         NEW t, t = RequestCb([s EXCEPT !.pend = TakeRequest(s.pend, id)],
                              s.pend[FindRequest(s.pend, id)], err)
  PROVE  Ended(s, t, err, left)
<1>1. s.pend \in Seq(PendReq) /\ Clock(s.pend, left)
  BY StateFields DEF Core
<1>2. PICK i : i = FindRequest(s.pend, id)
  OBVIOUS
<1>3. PICK q : q = TakeRequest(s.pend, id)
  OBVIOUS
<1>4. i \in 1 .. Len(s.pend) /\ Without(s.pend, i, q)
  BY <1>1, <1>2, <1>3, TakeWithout
<1>5. Clock(q, left)
  BY <1>1, <1>3, ClockTake
<1>6. t = RequestCb([s EXCEPT !.pend = q], s.pend[i], err)
  BY <1>2, <1>3
<1> QED
  BY <1>4, <1>5, <1>6, RequestCbCore

LEMMA ReceiveAnswerCore ==
  ASSUME NEW s, Core(s, 0), Data(s), Hand(s), s.conn_state \in Settling,
         NEW msg
  PROVE  \E t : ReceiveAnswer(s, msg) = Continue(t) /\ Step(s, t)
<1>1. CASE ~HasRequest(s.pend, msg.id)
  BY <1>1, StepSelf DEF ReceiveAnswer
<1>2. CASE HasRequest(s.pend, msg.id)
  <2>1. PICK err \in Ends : err = IF msg.type = "SUBACK_DENIED" THEN "ERR_ABRT" ELSE "ERR_OK"
    BY DEF Ends
  <2>2. PICK t : t = RequestCb([s EXCEPT !.pend = TakeRequest(s.pend, msg.id)],
                               s.pend[FindRequest(s.pend, msg.id)], err)
    OBVIOUS
  <2>3. ReceiveAnswer(s, msg) = Continue(t)
    BY <1>2, <2>1, <2>2 DEF ReceiveAnswer
  <2>4. Ended(s, t, err, 0)
    BY <1>2, <2>2, TakenCore
  <2> QED
    BY <2>3, <2>4, EndedStep
<1> QED
  BY <1>1, <1>2

LEMMA ReceivePublishCore ==
  ASSUME NEW s, Core(s, 0), Data(s), Hand(s), s.conn_state \in Settling,
         s.data_cb, NEW msg \in Msg
  PROVE  \E t : ReceivePublish(s, msg) = Continue(t) /\ Step(s, t)
<1>1. [s EXCEPT !.nullCall = s.nullCall \/ ~s.data_cb] = s
  BY CalledIs
<1>2. CASE msg.type = "PUBLISH0"
  <2>1. ReceivePublish(s, msg) = Continue(s)
    BY <1>1, <1>2 DEF ReceivePublish
  <2> QED
    BY <2>1, StepSelf
<1>3. CASE msg.type # "PUBLISH0"
  <2>1. PICK type : type = IF msg.type = "PUBLISH1" THEN "PUBACK" ELSE "PUBREC"
    OBVIOUS
  <2>2. type \in MsgTypes /\ type # "SUBSCRIBE"
    BY <2>1 DEF MsgTypes
  <2>3. ReceivePublish(s, msg) = Continue(PubResponse(s, type, msg))
    BY <1>1, <1>3, <2>1 DEF ReceivePublish
  <2> QED
    BY <2>2, <2>3, PubResponseCore
<1> QED
  BY <1>2, <1>3

LEMMA MessageReceivedCore ==
  ASSUME NEW s, Core(s, 0), Data(s), Hand(s), s.conn_state \in Settling,
         NEW msg \in Msg, msg.type \in Pubs => s.data_cb
  PROVE  \E t : MessageReceived(s, msg) = Continue(t) /\ Step(s, t)
<1>1. CASE msg.type \in {"CONNACK", "CONNACK_REFUSED"}
  <2>1. MessageReceived(s, msg) = Continue(s)
    BY <1>1 DEF MessageReceived, ReceiveConnack, Settling
  <2> QED
    BY <2>1, StepSelf
<1>2. CASE msg.type = "PINGRESP"
  <2>1. MessageReceived(s, msg) = Continue(s)
    BY <1>2 DEF MessageReceived
  <2> QED
    BY <2>1, StepSelf
<1>3. CASE msg.type \in Pubs
  <2>1. MessageReceived(s, msg) = ReceivePublish(s, msg)
    BY <1>3 DEF MessageReceived, Pubs
  <2> QED
    BY <1>3, <2>1, ReceivePublishCore
<1>4. CASE msg.type = "PUBREC"
  <2>1. MessageReceived(s, msg) = Continue(PubResponse(s, "PUBREL", msg))
    BY <1>4 DEF MessageReceived
  <2>2. "PUBREL" \in MsgTypes
    BY DEF MsgTypes
  <2> QED
    BY <2>1, <2>2, PubResponseCore
<1>5. CASE msg.type = "PUBREL"
  <2>1. MessageReceived(s, msg) = Continue(PubResponse(s, "PUBCOMP", msg))
    BY <1>5 DEF MessageReceived
  <2>2. "PUBCOMP" \in MsgTypes
    BY DEF MsgTypes
  <2> QED
    BY <2>1, <2>2, PubResponseCore
<1>6. CASE /\ msg.type \notin {"CONNACK", "CONNACK_REFUSED"}
           /\ msg.type # "PINGRESP" /\ msg.type \notin Pubs
           /\ msg.type # "PUBREC" /\ msg.type # "PUBREL"
  <2>1. MessageReceived(s, msg) = ReceiveAnswer(s, msg)
    BY <1>6 DEF MessageReceived, Pubs
  <2> QED
    BY <2>1, ReceiveAnswerCore
<1> QED
  BY <1>1, <1>2, <1>3, <1>4, <1>5, <1>6

LEMMA ParseIncomingUnrolled ==
  ASSUME NEW s, NEW T, NEW msgs \in Seq(T)
  PROVE  \E f : /\ Unrolled(f, "parse_incoming", Continue(s), Len(msgs), msgs)
                /\ ParseIncoming(s, msgs) = f[Len(msgs)]
<1> DEFINE n == Len(msgs)
           Fix(f) == f = [i \in 0 .. n |-> IF i = 0 THEN Continue(s)
                                           ELSE Parse(f[i - 1], msgs[i])]
           g == CHOOSE f : Fix(f)
<1>1. PICK f : Unrolled(f, "parse_incoming", Continue(s), n, msgs)
  <2>1. n \in Nat
    OBVIOUS
  <2> QED
    BY <2>1, LoopExists
<1>2. \A x, e : Turn("parse_incoming", x, e) = Parse(x, e)
  BY DEF Turn
<1>3. Fix(f)
  <2> DEFINE h == [i \in 0 .. n |-> IF i = 0 THEN Continue(s)
                                    ELSE Parse(f[i - 1], msgs[i])]
  <2>1. \A i \in 0 .. n : f[i] = h[i]
    BY <1>1, <1>2 DEF Unrolled
  <2>2. f = [i \in 0 .. n |-> f[i]]
    BY <1>1 DEF Unrolled
  <2> QED
    BY <2>1, <2>2
<1>4. Fix(g)
  BY <1>3
<1>5. ParseIncoming(s, msgs) = g[n]
  BY DEF ParseIncoming
<1> HIDE DEF g
<1>6. Unrolled(g, "parse_incoming", Continue(s), n, msgs)
  BY <1>2, <1>4 DEF Unrolled
<1> QED
  BY <1>5, <1>6
(* The first message of a connection is a CONNACK.                         *)
Up(s) == [s EXCEPT !.cyclic_tick = 0, !.conn_state = "MQTT_CONNECTED"]

LEMMA UpIs ==
  ASSUME NEW s \in State, NEW u, u = Up(s)
  PROVE  /\ u \in State /\ u.conn_state = "MQTT_CONNECTED" /\ u.conn = s.conn
         /\ u.pend = s.pend /\ u.req = s.req /\ u.nreq = s.nreq
         /\ u.ring = s.ring /\ u.firstOut = s.firstOut /\ u.rx = s.rx
         /\ u.tx = s.tx /\ u.data_cb = s.data_cb /\ SameGhosts(s, u)
         /\ u.timers = s.timers /\ u.pkt_id_seq = s.pkt_id_seq
         /\ u.cyclic_tick = 0 /\ u.qos0 = s.qos0 /\ u.served = s.served
<1>1. "MQTT_CONNECTED" \in ConnStates /\ 0 \in Nat
  BY DEF ConnStates
<1>2. u \in State
  BY <1>1, Zenon DEF Up, State
<1> QED
  BY <1>2 DEF Up, State, SameGhosts

Refused(s) == [st |-> s, status |-> "MQTT_CONNECT_REFUSED"]

LEMMA ReceiveConnackCore ==
  ASSUME NEW s, Core(s, 0), s.conn_state = "MQTT_CONNECTING",
         s.nreq + 2 <= MaxReqs, NEW msg, msg.type \in Connacks
  PROVE  \/ MessageReceived(s, msg) = Refused(s)
         \/ \E t : MessageReceived(s, msg) = Continue(t) /\ Step(s, t)
<1>1. MessageReceived(s, msg) = ReceiveConnack(s, msg)
  BY DEF MessageReceived, Connacks
<1>2. CASE msg.type = "CONNACK"
  <2>1. PICK u : u = Up(s)
    OBVIOUS
  <2>2. MessageReceived(s, msg) = Continue(Accepted(u))
    BY <1>1, <1>2, <2>1 DEF ReceiveConnack, ConnectCb, Up
  <2>3. /\ u \in State /\ u.conn_state = "MQTT_CONNECTED" /\ u.conn = s.conn
        /\ u.pend = s.pend /\ u.req = s.req /\ u.nreq = s.nreq
        /\ u.ring = s.ring /\ u.firstOut = s.firstOut
        /\ u.data_cb = s.data_cb /\ SameGhosts(s, u) /\ u.timers = s.timers
        /\ u.cyclic_tick = 0
    BY <2>1, UpIs DEF Core
  <2>4. Core(u, 0)
    BY <2>3 DEF Core, Linked, Idle, Room, First
  <2>5. PICK t : t = Accepted(u)
    OBVIOUS
  <2>6. u.nreq + 2 <= MaxReqs
    BY <2>3
  <2>7. /\ Core(t, 0) /\ Data(t) /\ Hand(t) /\ SameGhosts(u, t)
        /\ t.timers = u.timers /\ t.conn_state = u.conn_state
        /\ t.data_cb = TRUE /\ t.cyclic_tick = u.cyclic_tick
    BY <2>3, <2>4, <2>5, <2>6, AcceptedCore
  <2>8. Step(s, t)
    BY <2>3, <2>7 DEF Step, SameGhosts, Settling, Ticks
  <2> QED
    BY <2>2, <2>5, <2>8
<1>3. CASE msg.type # "CONNACK"
  BY <1>1, <1>3 DEF ReceiveConnack, Refused
<1> QED
  BY <1>2, <1>3

LEMMA StepTransitive ==
  ASSUME NEW s, NEW t, NEW u, Step(s, t), Step(t, u)
  PROVE  Step(s, u)
  BY DEF Step, Ticks

LEMMA ContinueIs ==
  \A t : Continue(t).st = t /\ Continue(t).status = "MQTT_CONNECT_ACCEPTED"
  BY DEF Continue

LEMMA RefusedIs ==
  \A t : Refused(t).st = t /\ Refused(t).status # "MQTT_CONNECT_ACCEPTED"
         /\ Refused(t).status = "MQTT_CONNECT_REFUSED"
  BY DEF Refused

(* Messages that the invariant lets arrive in state s.                     *)
Arriving(s, msgs) ==
  /\ msgs \in Seq(Msg) /\ msgs # <<>>
  /\ \A i \in 1 .. Len(msgs) : msgs[i].type \in Pubs => s.data_cb
  /\ \/ s.conn_state = "MQTT_CONNECTED" /\ Hand(s)
     \/ /\ s.conn_state = "MQTT_CONNECTING" /\ s.nreq + 2 <= MaxReqs
        /\ msgs[1].type \in Connacks

ParseEnds(s, acc) ==
  \/ \E t : acc = Continue(t) /\ Step(s, t)
  \/ acc = Refused(s) /\ s.conn_state = "MQTT_CONNECTING"

LEMMA ParseIncomingCore ==
  ASSUME NEW s, Core(s, 0), Data(s), NEW msgs, Arriving(s, msgs)
  PROVE  ParseEnds(s, ParseIncoming(s, msgs))
<1> DEFINE n == Len(msgs)
<1>1. PICK f : /\ Unrolled(f, "parse_incoming", Continue(s), n, msgs)
               /\ ParseIncoming(s, msgs) = f[n]
  <2>1. msgs \in Seq(Msg)
    BY DEF Arriving
  <2> QED
    BY <2>1, ParseIncomingUnrolled
<1>2. \A x, e : Turn("parse_incoming", x, e) = Parse(x, e)
  BY DEF Turn
<1>3. n \in Nat /\ n >= 1 /\ \A i \in 1 .. n : msgs[i] \in Msg
  BY DEF Arriving
<1>4. f[0] = Continue(s)
  BY <1>1, <1>3 DEF Unrolled
<1>5. ASSUME NEW i \in 1 .. n
      PROVE  f[i] = Parse(f[i - 1], msgs[i])
  <2>1. i \in 0 .. n /\ i # 0
    BY <1>3
  <2> QED
    BY <1>1, <1>2, <2>1 DEF Unrolled
<1>6. ASSUME NEW i \in 1 .. n, NEW t, Step(s, t), f[i - 1] = Continue(t)
      PROVE  ParseEnds(s, f[i])
  <2>1. f[i] = MessageReceived(t, msgs[i])
    BY <1>5, <1>6, ContinueIs DEF Parse
  <2>2. msgs[i] \in Msg /\ (msgs[i].type \in Pubs => t.data_cb)
    BY <1>3, <1>6 DEF Arriving, Step
  <2>3. \E u : MessageReceived(t, msgs[i]) = Continue(u) /\ Step(t, u)
    BY <1>6, <2>2, MessageReceivedCore DEF Step
  <2> QED
    BY <1>6, <2>1, <2>3, StepTransitive DEF ParseEnds
<1>7. ParseEnds(s, f[1])
  <2>1. 1 \in 1 .. n /\ f[1 - 1] = Continue(s)
    BY <1>3, <1>4
  <2>2. CASE s.conn_state = "MQTT_CONNECTED"
    <3>1. Step(s, s)
      BY <2>2, StepSelf DEF Arriving, Settling
    <3> QED
      BY <1>6, <2>1, <3>1
  <2>3. CASE s.conn_state = "MQTT_CONNECTING"
    <3>1. f[1] = MessageReceived(s, msgs[1])
      BY <1>5, <2>1, ContinueIs DEF Parse
    <3>2. msgs[1].type \in Connacks /\ s.nreq + 2 <= MaxReqs
      BY <2>3 DEF Arriving
    <3> QED
      BY <2>3, <3>1, <3>2, ReceiveConnackCore DEF ParseEnds
  <2> QED
    BY <2>2, <2>3 DEF Arriving
<1>8. ASSUME NEW i \in 2 .. n, ParseEnds(s, f[i - 1])
      PROVE  ParseEnds(s, f[i])
  <2>1. i \in 1 .. n
    BY <1>3
  <2>2. CASE \E t : f[i - 1] = Continue(t) /\ Step(s, t)
    BY <1>6, <2>1, <2>2
  <2>3. CASE f[i - 1] = Refused(s) /\ s.conn_state = "MQTT_CONNECTING"
    <3>1. f[i] = f[i - 1]
      BY <1>5, <2>1, <2>3, RefusedIs DEF Parse
    <3> QED
      BY <2>3, <3>1 DEF ParseEnds
  <2> QED
    BY <1>8, <2>2, <2>3 DEF ParseEnds
<1> DEFINE Parsed == {i \in Nat : i + 1 <= n => ParseEnds(s, f[i + 1])}
<1>9. n - 1 \in Parsed
  <2>1. 0 \in Parsed
    BY <1>7
  <2>2. ASSUME NEW i \in Nat, i \in Parsed PROVE i + 1 \in Parsed
    <3> SUFFICES ASSUME (i + 1) + 1 <= n PROVE ParseEnds(s, f[(i + 1) + 1])
      OBVIOUS
    <3>1. (i + 1) + 1 \in 2 .. n /\ ((i + 1) + 1) - 1 = i + 1 /\ i + 1 <= n
      BY <1>3
    <3>2. ParseEnds(s, f[i + 1])
      BY <2>2, <3>1
    <3> QED
      BY <1>8, <3>1, <3>2
  <2>3. n - 1 \in Nat
    BY <1>3
  <2> HIDE DEF Parsed
  <2> QED
    BY <2>1, <2>2, <2>3, SetInduction
<1>10. (n - 1) + 1 = n
  BY <1>3
<1> QED
  BY <1>1, <1>9, <1>10

(* What a handler leaves: everything the invariant says, and the interval  *)
(* timer and the pcb in order as long as the application does not          *)
(* disconnect from a request's callback.                                   *)
Timed(s) ==
  s.timers = IF s.conn_state \in {"MQTT_CONNECTING", "MQTT_CONNECTED"}
             THEN 1 ELSE 0

After(s, t) ==
  /\ Core(t, 0) /\ Data(t) /\ Hand(t)
  /\ t.nullCall = s.nullCall
  /\ OnRequestFail = "ignore" /\ Timed(s) => Timed(t) /\ t.nullSend = s.nullSend

LEMMA DownAfter ==
  ASSUME NEW s, Data(s), s.timers \in {0, 1}, NEW t, Down(s, t)
  PROVE  /\ Core(t, 0) /\ Data(t) /\ Hand(t)
         /\ t.nullCall = s.nullCall /\ Timed(t) /\ t.nullSend = s.nullSend
         /\ t.conn_state \in {"TCP_DISCONNECTED", "TCP_CONNECTING"}
  BY DEF Down, Timed, SameGhosts, OneLess

LEMMA DownAfter2 ==
  ASSUME NEW s, Data(s), NEW t, Down(s, t)
  PROVE  After(s, t)
<1>1. Core(t, 0) /\ Data(t) /\ Hand(t) /\ t.nullCall = s.nullCall
  BY DEF Down, SameGhosts
<1>2. Timed(s) => s.timers \in {0, 1}
  BY DEF Timed
<1>3. Timed(s) => Timed(t) /\ t.nullSend = s.nullSend
  BY <1>2, DownAfter
<1> QED
  BY <1>1, <1>3 DEF After

IsReceiving(s, n, r) ==
  /\ r.cyclic_tick = s.cyclic_tick
  /\ r \in State /\ r.rx = SubSeq(s.rx, n + 1, Len(s.rx)) /\ SameGhosts(s, r)
  /\ r.conn_state = s.conn_state /\ r.conn = s.conn /\ r.timers = s.timers
  /\ r.pend = s.pend /\ r.req = s.req /\ r.nreq = s.nreq /\ r.ring = s.ring
  /\ r.firstOut = s.firstOut /\ r.tx = s.tx /\ r.data_cb = s.data_cb
  /\ r.granted = s.granted /\ r.unacked = s.unacked /\ r.npub = s.npub
  /\ r.pkt_id_seq = s.pkt_id_seq /\ r.qos0 = s.qos0 /\ r.served = s.served

LEMMA ReceivingIs ==
  ASSUME NEW s \in State, NEW n \in 1 .. Len(s.rx),
         NEW r, r = [s EXCEPT !.rx = SubSeq(s.rx, n + 1, Len(s.rx))]
  PROVE  IsReceiving(s, n, r)
<1>1. SubSeq(s.rx, n + 1, Len(s.rx)) \in Seq(Msg)
  <2>1. s.rx \in Seq(Msg)
    BY StateFields
  <2> QED
    BY <2>1
<1>2. r \in State
  BY <1>1, ZenonT(60) DEF State
<1> QED
  BY <1>2 DEF IsReceiving, State, SameGhosts

IsSplit(q, front, back, T) ==
  /\ front \in Seq(T) /\ front # <<>> /\ front[1] = q[1]
  /\ \A i \in 1 .. Len(front) : \E j \in 1 .. Len(q) : front[i] = q[j]
  /\ back \in Seq(T)
  /\ \A i \in 1 .. Len(back) : \E j \in 1 .. Len(q) : back[i] = q[j]

LEMMA Split ==
  ASSUME NEW T, NEW q \in Seq(T), NEW n \in 1 .. Len(q),
         NEW front, front = SubSeq(q, 1, n),
         NEW back, back = SubSeq(q, n + 1, Len(q))
  PROVE  IsSplit(q, front, back, T)
<1>1. /\ front \in Seq(T) /\ Len(front) = n
      /\ \A i \in 1 .. n : front[i] = q[i]
  OBVIOUS
<1>2. /\ back \in Seq(T) /\ Len(back) = Len(q) - n
      /\ \A i \in 1 .. Len(q) - n : back[i] = q[n + i]
  OBVIOUS
<1>3. front # <<>> /\ front[1] = q[1]
  <2>1. Len(front) # 0 /\ 1 \in 1 .. n
    BY <1>1
  <2> QED
    BY <1>1, <2>1
<1>4. ASSUME NEW i \in 1 .. Len(front)
      PROVE  \E j \in 1 .. Len(q) : front[i] = q[j]
  BY <1>1
<1>5. ASSUME NEW i \in 1 .. Len(back)
      PROVE  \E j \in 1 .. Len(q) : back[i] = q[j]
  <2>1. i \in 1 .. Len(q) - n /\ n + i \in 1 .. Len(q)
    BY <1>2
  <2> QED
    BY <1>2, <2>1
<1> QED
  BY <1>1, <1>2, <1>3, <1>4, <1>5 DEF IsSplit

LEMMA WatchdogResetIs ==
  ASSUME NEW s \in State, NEW t, t = [s EXCEPT !.server_watchdog = 0]
  PROVE  /\ t \in State /\ SameGhosts(s, t) /\ t.timers = s.timers
         /\ t.conn_state = s.conn_state /\ t.conn = s.conn
         /\ t.pend = s.pend /\ t.req = s.req /\ t.nreq = s.nreq /\ t.ring = s.ring
         /\ t.firstOut = s.firstOut /\ t.tx = s.tx /\ t.rx = s.rx
         /\ t.data_cb = s.data_cb /\ t.granted = s.granted /\ t.unacked = s.unacked
         /\ t.pkt_id_seq = s.pkt_id_seq /\ t.qos0 = s.qos0 /\ t.served = s.served
         /\ t.server_watchdog = 0 /\ t.cyclic_tick = s.cyclic_tick
<1>1. 0 \in Nat
  OBVIOUS
<1>2. t \in State
  BY <1>1, ZenonT(60) DEF State
<1> QED
  BY <1>2 DEF State, SameGhosts

LEMMA WatchdogResetAfter ==
  ASSUME NEW s, NEW c, After(s, c), NEW t, t = [c EXCEPT !.server_watchdog = 0]
  PROVE  After(s, t)
<1>1. c \in State /\ Core(c, 0) /\ Data(c) /\ Hand(c)
  BY DEF After, Core
<1>2. /\ t \in State /\ SameGhosts(c, t) /\ t.timers = c.timers
      /\ t.conn_state = c.conn_state /\ t.conn = c.conn
      /\ t.pend = c.pend /\ t.req = c.req /\ t.nreq = c.nreq /\ t.ring = c.ring
      /\ t.firstOut = c.firstOut /\ t.tx = c.tx /\ t.rx = c.rx
      /\ t.data_cb = c.data_cb /\ t.granted = c.granted /\ t.unacked = c.unacked
  BY <1>1, WatchdogResetIs
<1>3. Core(t, 0)
  BY <1>1, <1>2, CoreFrame
<1>4. Data(t) /\ Hand(t)
  BY <1>1, <1>2, WireFrame
<1> QED
  BY <1>2, <1>3, <1>4 DEF After, SameGhosts, Timed

(* What arrives is what the invariant lets arrive.                         *)
LEMMA ReceivingArrives ==
  ASSUME NEW s, Core(s, 0), Data(s), Hand(s), NEW n \in 1 .. Len(s.rx),
         NEW r, r = [s EXCEPT !.rx = SubSeq(s.rx, n + 1, Len(s.rx))],
         NEW msgs, msgs = SubSeq(s.rx, 1, n)
  PROVE  /\ Core(r, 0) /\ Data(r) /\ Arriving(r, msgs)
         /\ s.conn_state \in {"MQTT_CONNECTING", "MQTT_CONNECTED"}
<1>1. s \in State /\ s.rx \in Seq(Msg)
  BY StateFields DEF Core
<1>2. IsReceiving(s, n, r)
  BY <1>1, ReceivingIs
<1>3. /\ msgs \in Seq(Msg) /\ msgs # <<>> /\ msgs[1] = s.rx[1]
      /\ \A i \in 1 .. Len(msgs) : \E j \in 1 .. Len(s.rx) : msgs[i] = s.rx[j]
      /\ \A i \in 1 .. Len(r.rx) : \E j \in 1 .. Len(s.rx) : r.rx[i] = s.rx[j]
  <2>1. r.rx = SubSeq(s.rx, n + 1, Len(s.rx))
    BY <1>2 DEF IsReceiving
  <2>2. IsSplit(s.rx, msgs, r.rx, Msg)
    BY <1>1, <2>1, Split
  <2> QED
    BY <2>2 DEF IsSplit
<1>4. s.conn /\ s.rx # <<>> /\ s.conn_state \in {"MQTT_CONNECTING", "MQTT_CONNECTED"}
  <2>1. s.rx # <<>>
    BY <1>1
  <2>2. s.conn
    BY <2>1 DEF Hand
  <2> QED
    BY <1>1, <2>1, <2>2, StateFields DEF Hand, Core, Linked, Connecting, ConnStates
<1>5. Core(r, 0)
  BY <1>2, CoreFrame DEF IsReceiving
<1>6. Data(r)
  BY <1>2, <1>3, ZenonT(60) DEF Data, IsReceiving
<1>7. Arriving(r, msgs)
  <2>1. ASSUME NEW i \in 1 .. Len(msgs), msgs[i].type \in Pubs PROVE r.data_cb
    <3>1. PICK j \in 1 .. Len(s.rx) : msgs[i] = s.rx[j]
      BY <1>3
    <3> QED
      BY <1>2, <2>1, <3>1 DEF Data, Pubs, IsReceiving
  <2>2. CASE s.conn_state = "MQTT_CONNECTED"
    <3>1. Hand(r)
      BY <1>2, <1>4, <2>2 DEF Hand, Connecting, IsReceiving
    <3> QED
      BY <1>2, <1>3, <2>1, <2>2, <3>1 DEF Arriving, IsReceiving
  <2>3. CASE s.conn_state = "MQTT_CONNECTING"
    <3>1. msgs[1].type \in Connacks /\ s.nreq + 2 <= MaxReqs
      BY <1>3, <1>4, <2>3 DEF Hand, Connecting
    <3> QED
      BY <1>2, <1>3, <2>1, <2>3, <3>1 DEF Arriving, IsReceiving
  <2> QED
    BY <1>4, <2>2, <2>3
<1> QED
  BY <1>4, <1>5, <1>6, <1>7

(* mqtt_tcp_recv_cb with a pbuf.                                           *)
LEMMA RecvCbAfter ==
  ASSUME NEW s, Core(s, 0), Data(s), Hand(s), NEW n \in 1 .. Len(s.rx),
         NEW t, t = RecvCb([s EXCEPT !.rx = SubSeq(s.rx, n + 1, Len(s.rx))],
                           SubSeq(s.rx, 1, n))
  PROVE  After(s, t)
<1>1. s \in State /\ s.rx \in Seq(Msg)
  BY StateFields DEF Core
<1>2. PICK r : r = [s EXCEPT !.rx = SubSeq(s.rx, n + 1, Len(s.rx))]
  OBVIOUS
<1>3. PICK msgs : msgs = SubSeq(s.rx, 1, n)
  OBVIOUS
<1>4. IsReceiving(s, n, r)
  BY <1>1, <1>2, ReceivingIs
<1>5. /\ Core(r, 0) /\ Data(r) /\ Arriving(r, msgs)
      /\ s.conn_state \in {"MQTT_CONNECTING", "MQTT_CONNECTED"}
  BY <1>1, <1>2, <1>3, ReceivingArrives
<1>6. ParseEnds(r, ParseIncoming(r, msgs))
  BY <1>5, ParseIncomingCore
<1>7. PICK closed : /\ closed = (IF ParseIncoming(r, msgs).status = "MQTT_CONNECT_ACCEPTED"
                                  THEN ParseIncoming(r, msgs).st
                                  ELSE Close(ParseIncoming(r, msgs).st,
                                             ParseIncoming(r, msgs).status))
                     /\ t = IF KeepAlive = 0 THEN closed
                            ELSE [closed EXCEPT !.server_watchdog = 0]
  BY <1>2, <1>3 DEF RecvCb
<1>8. After(s, closed)
  <2>1. ASSUME NEW u, ParseIncoming(r, msgs) = Continue(u), Step(r, u)
        PROVE  After(s, closed)
    <3>1. closed = u
      BY <1>7, <2>1, ContinueIs
    <3>2. r.conn_state # "TCP_DISCONNECTED"
      BY <1>4, <1>5 DEF IsReceiving
    <3>3. /\ r.timers = s.timers /\ r.nullCall = s.nullCall
          /\ r.nullSend = s.nullSend
      BY <1>4 DEF IsReceiving, SameGhosts
    <3> QED
      BY <1>5, <2>1, <3>1, <3>2, <3>3 DEF Step, After, Timed
  <2>2. ASSUME ParseIncoming(r, msgs) = Refused(r), r.conn_state = "MQTT_CONNECTING"
        PROVE  After(s, closed)
    <3>1. closed = Close(r, "MQTT_CONNECT_REFUSED")
      BY <1>7, <2>2, RefusedIs
    <3>2. Down(r, closed)
      BY <1>5, <2>2, <3>1, CloseCore, CoreClosable
    <3>3. After(r, closed)
      BY <1>5, <3>2, DownAfter2
    <3> QED
      BY <1>4, <3>3 DEF After, Timed, IsReceiving, SameGhosts
  <2> QED
    BY <1>6, <2>1, <2>2 DEF ParseEnds
<1> QED
  BY <1>7, <1>8, WatchdogResetAfter

-----------------------------------------------------------------------------
(***************************************************************************)
(* TCP acknowledges.                                                       *)
(***************************************************************************)
Done(s, t) ==
  /\ Core(t, 0) /\ Data(t) /\ Hand(t)
  /\ SameGhosts(s, t) /\ t.conn_state = s.conn_state /\ t.timers = s.timers

LEMMA CompleteOneDone ==
  ASSUME NEW s, Core(s, 0), Data(s), Hand(s), NEW t, t = CompleteOne(s)
  PROVE  Done(s, t) /\ Calm(s, t)
<1>1. CASE ~HasRequest(s.pend, 0)
  BY <1>1 DEF CompleteOne, Done, SameGhosts, Calm
<1>2. CASE HasRequest(s.pend, 0)
  <2>1. t = RequestCb([s EXCEPT !.pend = TakeRequest(s.pend, 0)],
                      s.pend[FindRequest(s.pend, 0)], "ERR_OK")
    BY <1>2 DEF CompleteOne
  <2>2. 0 \in Int /\ "ERR_OK" \in Ends
    BY DEF Ends
  <2>3. Ended(s, t, "ERR_OK", 0)
    BY <1>2, <2>1, <2>2, TakenCore
  <2> QED
    BY <2>3 DEF Ended, Done, Ends
<1> QED
  BY <1>1, <1>2

LEMMA DoneTransitive ==
  ASSUME NEW s, NEW t, NEW u, Done(s, t), Done(t, u)
  PROVE  Done(s, u)
  BY DEF Done, SameGhosts

LEMMA CompleteQos0Unrolled ==
  ASSUME NEW s, s.pend \in Seq(PendReq)
  PROVE  \E f : /\ Unrolled(f, "complete_qos0", s, Len(s.pend), s.pend)
                /\ CompleteQos0(s) = f[Len(s.pend)]
<1> DEFINE n == Len(s.pend)
           Fix(f) == f = [i \in 0 .. n |-> IF i = 0 THEN s
                                           ELSE CompleteOne(f[i - 1])]
           g == CHOOSE f : Fix(f)
<1>1. PICK f : Unrolled(f, "complete_qos0", s, n, s.pend)
  <2>1. n \in Nat
    OBVIOUS
  <2> QED
    BY <2>1, LoopExists
<1>2. \A x, e : Turn("complete_qos0", x, e) = CompleteOne(x)
  BY DEF Turn
<1>3. Fix(f)
  <2> DEFINE h == [i \in 0 .. n |-> IF i = 0 THEN s ELSE CompleteOne(f[i - 1])]
  <2>1. \A i \in 0 .. n : f[i] = h[i]
    BY <1>1, <1>2 DEF Unrolled
  <2>2. f = [i \in 0 .. n |-> f[i]]
    BY <1>1 DEF Unrolled
  <2> QED
    BY <2>1, <2>2
<1>4. Fix(g)
  BY <1>3
<1>5. CompleteQos0(s) = g[n]
  BY DEF CompleteQos0
<1> HIDE DEF g
<1>6. Unrolled(g, "complete_qos0", s, n, s.pend)
  BY <1>2, <1>4 DEF Unrolled
<1> QED
  BY <1>5, <1>6

LEMMA CompleteQos0Done ==
  ASSUME NEW s, Core(s, 0), Data(s), Hand(s)
  PROVE  Done(s, CompleteQos0(s)) /\ Calm(s, CompleteQos0(s))
<1> DEFINE n == Len(s.pend)
<1>1. s.pend \in Seq(PendReq) /\ n \in Nat
  BY StateFields DEF Core
<1>2. PICK f : /\ Unrolled(f, "complete_qos0", s, n, s.pend)
               /\ CompleteQos0(s) = f[n]
  BY <1>1, CompleteQos0Unrolled
<1>3. \A x, e : Turn("complete_qos0", x, e) = CompleteOne(x)
  BY DEF Turn
<1> DEFINE Good == {i \in Nat : i <= n => Done(s, f[i]) /\ Calm(s, f[i])}
<1>4. 0 \in Good
  <2>1. f[0] = s
    <3>1. 0 \in 0 .. n
      BY <1>1
    <3> QED
      BY <1>2, <3>1 DEF Unrolled
  <2>2. Done(s, s) /\ Calm(s, s)
    BY DEF Done, SameGhosts, Calm
  <2> QED
    BY <2>1, <2>2
<1>5. ASSUME NEW i \in Nat, i \in Good PROVE i + 1 \in Good
  <2> SUFFICES ASSUME i + 1 <= n PROVE Done(s, f[i + 1]) /\ Calm(s, f[i + 1])
    OBVIOUS
  <2>1. i <= n /\ i + 1 \in 0 .. n /\ i + 1 # 0 /\ (i + 1) - 1 = i
    BY <1>1
  <2>2. f[i + 1] = CompleteOne(f[i])
    BY <1>2, <1>3, <2>1 DEF Unrolled
  <2>3. Done(s, f[i]) /\ Calm(s, f[i])
    BY <1>5, <2>1
  <2>4. Done(f[i], f[i + 1]) /\ Calm(f[i], f[i + 1])
    <3>1. Core(f[i], 0) /\ Data(f[i]) /\ Hand(f[i])
      BY <2>3 DEF Done
    <3> QED
      BY <2>2, <3>1, CompleteOneDone
  <2> QED
    BY <2>3, <2>4, DoneTransitive DEF Calm
<1> HIDE DEF Good
<1>6. n \in Good
  BY <1>1, <1>4, <1>5, SetInduction
<1> QED
  BY <1>1, <1>2, <1>6 DEF Good

IsAcked(s, k, n, a) ==
  /\ a \in State /\ a.unacked = k /\ SameGhosts(s, a) /\ a.timers = s.timers
  /\ a.cyclic_tick = n \/ a.cyclic_tick = s.cyclic_tick
  /\ a.conn_state = s.conn_state /\ a.conn = s.conn
  /\ a.pend = s.pend /\ a.req = s.req /\ a.nreq = s.nreq /\ a.ring = s.ring
  /\ a.firstOut = s.firstOut /\ a.tx = s.tx /\ a.rx = s.rx
  /\ a.data_cb = s.data_cb /\ a.granted = s.granted /\ a.npub = s.npub
  /\ a.pkt_id_seq = s.pkt_id_seq /\ a.qos0 = s.qos0 /\ a.served = s.served

LEMMA AckedIs ==
  ASSUME NEW s \in State, NEW k \in 0 .. SndBuf,
         NEW a, a = [s EXCEPT !.unacked = k]
  PROVE  IsAcked(s, k, 0, a)
<1>1. a \in State
  BY ZenonT(60) DEF State
<1> QED
  BY <1>1 DEF IsAcked, State, SameGhosts

LEMMA TicksResetIs ==
  ASSUME NEW s \in State, NEW k \in 0 .. SndBuf, s.unacked = k,
         NEW a, a = [s EXCEPT !.cyclic_tick = 0, !.server_watchdog = 0]
  PROVE  IsAcked(s, k, 0, a) /\ a.cyclic_tick = 0 /\ a.server_watchdog = 0
<1>1. 0 \in Nat
  OBVIOUS
<1>2. a \in State
  BY <1>1, ZenonT(60) DEF State
<1> QED
  BY <1>2 DEF IsAcked, State, SameGhosts

LEMMA AckedDone ==
  ASSUME NEW s, Core(s, 0), Data(s), Hand(s), s.conn, NEW k, NEW a, IsAcked(s, k, 0, a)
  PROVE  Done(s, a)
<1>1. Core(a, 0)
  BY CoreFrame DEF IsAcked
<1>2. Data(a) /\ Hand(a)
  BY DEF IsAcked, Data, Hand
<1> QED
  BY <1>1, <1>2 DEF IsAcked, Done

LEMMA SendDone ==
  ASSUME NEW s, Core(s, 0), Data(s), Hand(s), s.conn, NEW t, t = Send(s)
  PROVE  Done(s, t)
<1>1. s \in State
  BY DEF Core
<1>2. /\ t.timers = s.timers /\ t.conn_state = s.conn_state /\ SameGhosts(s, t)
  BY <1>1, SendFields DEF SameGhosts
<1>3. Core(t, 0) /\ Data(t) /\ Hand(t)
  BY SendCore
<1> QED
  BY <1>2, <1>3 DEF Done

LEMMA DoneAfter ==
  ASSUME NEW s, NEW t, Done(s, t)
  PROVE  After(s, t)
  BY DEF Done, After, Timed, SameGhosts

(* mqtt_tcp_sent_cb.                                                       *)
LEMMA SentCbAfter ==
  ASSUME NEW s, Core(s, 0), Data(s), Hand(s), s.conn, NEW n \in 1 .. s.unacked,
         NEW t, t = SentCb(s, n)
  PROVE  After(s, t)
<1>1. s \in State /\ s.unacked - n \in 0 .. SndBuf
  <2>1. s \in State /\ s.unacked \in 0 .. SndBuf /\ SndBuf \in Nat
    BY StateFields, Constants DEF Core
  <2> QED
    BY <2>1
<1>2. PICK k : k = s.unacked - n
  OBVIOUS
<1>3. PICK a : a = [s EXCEPT !.unacked = k]
  OBVIOUS
<1>4. k \in 0 .. SndBuf /\ IsAcked(s, k, 0, a)
  BY <1>1, <1>2, <1>3, AckedIs
<1>5. Done(s, a)
  BY <1>4, AckedDone
<1>6. PICK b : b = [a EXCEPT !.cyclic_tick = 0, !.server_watchdog = 0]
  OBVIOUS
<1>7. CASE s.conn_state # "MQTT_CONNECTED"
  <2>1. t = a
    BY <1>2, <1>3, <1>7 DEF SentCb
  <2> QED
    BY <1>5, <2>1, DoneAfter
<1>8. CASE s.conn_state = "MQTT_CONNECTED"
  <2>1. t = Send(CompleteQos0(b))
    BY <1>2, <1>3, <1>6, <1>8 DEF SentCb
  <2>2. a \in State /\ a.unacked = k /\ a.conn
    BY <1>4 DEF IsAcked
  <2>3. IsAcked(a, k, 0, b)
    BY <1>4, <1>6, <2>2, TicksResetIs
  <2>4. Core(a, 0) /\ Data(a) /\ Hand(a)
    BY <1>5 DEF Done
  <2>5. Done(a, b)
    BY <2>2, <2>3, <2>4, AckedDone
  <2>6. Core(b, 0) /\ Data(b) /\ Hand(b)
    BY <2>5 DEF Done
  <2>7. PICK c : c = CompleteQos0(b)
    OBVIOUS
  <2>8. Done(b, c)
    BY <2>6, <2>7, CompleteQos0Done
  <2>9. Core(c, 0) /\ Data(c) /\ Hand(c) /\ c.conn_state = b.conn_state
    BY <2>8 DEF Done
  <2>10. c.conn
    BY <1>5, <1>8, <2>5, <2>9 DEF Done, Core, Linked
  <2>11. Done(c, t)
    BY <2>1, <2>7, <2>9, <2>10, SendDone
  <2>12. Done(s, t)
    BY <1>5, <2>5, <2>8, <2>11, DoneTransitive
  <2> QED
    BY <2>12, DoneAfter
<1> QED
  BY <1>7, <1>8

-----------------------------------------------------------------------------
(***************************************************************************)
(* The interval timer.                                                     *)
(***************************************************************************)
IsRequeued(s, q, t) ==
  /\ t \in State /\ t.pend = q
  /\ SameGhosts(s, t) /\ t.timers = s.timers
  /\ t.cyclic_tick = s.cyclic_tick /\ t.server_watchdog = s.server_watchdog
  /\ t.conn_state = s.conn_state /\ t.conn = s.conn
  /\ t.req = s.req /\ t.nreq = s.nreq /\ t.ring = s.ring
  /\ t.firstOut = s.firstOut /\ t.tx = s.tx /\ t.rx = s.rx
  /\ t.data_cb = s.data_cb /\ t.granted = s.granted /\ t.npub = s.npub
  /\ t.pkt_id_seq = s.pkt_id_seq /\ t.qos0 = s.qos0 /\ t.served = s.served
  /\ t.unacked = s.unacked

LEMMA RequeuedIs ==
  ASSUME NEW s \in State, NEW q \in Seq(PendReq), NEW t, t = [s EXCEPT !.pend = q]
  PROVE  IsRequeued(s, q, t)
<1>1. t \in State
  BY ZenonT(60) DEF State
<1> QED
  BY <1>1 DEF IsRequeued, State, SameGhosts

(* The same requests with other clocks.                                    *)
Reclocked(pend, q, left) ==
  /\ q \in Seq(PendReq) /\ Len(q) = Len(pend) /\ Clock(q, left)
  /\ \A i \in 1 .. Len(pend) : q[i].k = pend[i].k

Requeued(s, t, q, left) ==
  /\ Core(t, left) /\ SameGhosts(s, t) /\ t.timers = s.timers
  /\ t.conn_state = s.conn_state /\ t.pend = q /\ t.data_cb = s.data_cb
  /\ Calm(s, t)
  /\ Data(s) => Data(t)
  /\ Hand(s) => Hand(t)

LEMMA RequeuedCore ==
  ASSUME NEW s, NEW before, Core(s, before), NEW left, NEW q, Reclocked(s.pend, q, left),
         NEW t, t = [s EXCEPT !.pend = q]
  PROVE  Requeued(s, t, q, left)
<1>1. s \in State /\ s.pend \in Seq(PendReq) /\ q \in Seq(PendReq)
  BY StateFields DEF Core, Reclocked
<1>2. IsRequeued(s, q, t)
  BY <1>1, RequeuedIs
<1>3. Queued(q, s.req, s.nreq)
  <2>1. Queued(s.pend, s.req, s.nreq)
    BY DEF Core
  <2>2. Len(q) = Len(s.pend) /\ \A i \in 1 .. Len(s.pend) : q[i].k = s.pend[i].k
    BY DEF Reclocked
  <2> QED
    BY <1>1, <2>1, <2>2, QueuedSame
<1>4. q = <<>> <=> s.pend = <<>>
  <2>1. Len(q) = Len(s.pend)
    BY DEF Reclocked
  <2> QED
    BY <1>1, <2>1
<1>5. Core(t, left)
  <2>1. Len(q) = Len(s.pend) /\ Clock(q, left)
    BY DEF Reclocked
  <2>2. Idle(t) /\ Room(t) /\ Linked(t) /\ First(t)
    BY <1>2, <1>4, <2>1 DEF Core, IsRequeued, Idle, Room, Linked, First
  <2> QED
    BY <1>2, <1>3, <2>1, <2>2 DEF Core, IsRequeued
<1>6. (Data(s) => Data(t)) /\ (Hand(s) => Hand(t))
  BY <1>2, WireFrame DEF IsRequeued
<1> QED
  BY <1>2, <1>5, <1>6 DEF IsRequeued, Requeued, Calm

(* After some turns of mqtt_request_time_elapsed: at most k requests may   *)
(* still have to be looked at.                                             *)
Elapsing(s, st, left, k) ==
  /\ left \in Nat /\ Core(st, left)
  /\ Data(s) => Data(st)
  /\ Hand(s) => Hand(st)
  /\ left = 0 \/ Len(st.pend) <= k
  /\ SameGhosts(s, st) /\ st.data_cb = s.data_cb
  /\ \/ st.conn_state = s.conn_state /\ st.timers = s.timers /\ Calm(s, st)
     \/ OnRequestFail = "disconnect"

LEMMA ElapsingLeft ==
  ASSUME NEW s, NEW st, NEW left, NEW k \in Nat, Elapsing(s, st, left, k + 1),
         left = 0 \/ st.pend = <<>>
  PROVE  Elapsing(s, st, left, k)
<1>1. left = 0 \/ Len(st.pend) <= k
  OBVIOUS
<1> QED
  BY <1>1 DEF Elapsing

LEMMA ElapseExpires ==
  ASSUME NEW s, NEW st, NEW left, NEW k \in Nat, Elapsing(s, st, left, k + 1),
         left # 0, st.pend # <<>>, left >= Head(st.pend).timeout_diff,
         NEW t, t = RequestCb([st EXCEPT !.pend = Tail(st.pend)], Head(st.pend),
                              "ERR_TIMEOUT"),
         NEW rest, rest = left - Head(st.pend).timeout_diff
  PROVE  Elapsing(s, t, rest, k)
<1>1. /\ st \in State /\ st.pend \in Seq(PendReq) /\ Core(st, left)
      /\ left \in Int /\ left \in Nat /\ Clock(st.pend, left)
  BY StateFields DEF Core, Elapsing
<1>2. PICK q : q = Tail(st.pend)
  OBVIOUS
<1>3. /\ Head(st.pend) = st.pend[1] /\ st.pend[1] \in PendReq
      /\ q \in Seq(PendReq) /\ Len(q) = Len(st.pend) - 1
      /\ \A i \in 1 .. Len(st.pend) - 1 : q[i] = st.pend[i + 1]
  BY <1>1, <1>2, TailIs
<1>4. 1 \in 1 .. Len(st.pend)
  BY <1>1
<1>5. Without(st.pend, 1, q)
  BY <1>1, <1>3 DEF Without
<1>6. Clock(q, rest)
  BY <1>1, <1>2, <1>3, ClockExpire
<1>7. t = RequestCb([st EXCEPT !.pend = q], st.pend[1], "ERR_TIMEOUT")
  BY <1>2, <1>3
<1>8. "ERR_TIMEOUT" \in Ends
  BY DEF Ends
<1>9. Ended(st, t, "ERR_TIMEOUT", rest)
  BY <1>1, <1>4, <1>5, <1>6, <1>7, <1>8, RequestCbCore
<1>10. rest \in Nat
  <2>1. st.pend[1].timeout_diff \in Int
    BY <1>3, PendReqFields
  <2> QED
    BY <1>1, <1>3, <2>1
<1>11. Len(t.pend) <= k
  <2>1. Len(st.pend) <= k + 1
    BY DEF Elapsing
  <2>2. Len(t.pend) <= Len(st.pend) - 1 /\ Core(t, rest)
    BY <1>9 DEF Ended
  <2>3. Len(t.pend) \in Nat /\ Len(st.pend) \in Nat
    BY <1>1, <2>2, StateFields DEF Core
  <2> QED
    BY <2>1, <2>2, <2>3
<1> QED
  BY <1>9, <1>10, <1>11 DEF Ended, Elapsing, SameGhosts, Calm

LEMMA ElapseRests ==
  ASSUME NEW s, NEW st, NEW left, NEW k \in Nat, Elapsing(s, st, left, k + 1),
         st.pend # <<>>, left < Head(st.pend).timeout_diff,
         NEW t, t = [st EXCEPT !.pend = [st.pend EXCEPT ![1] =
                       [st.pend[1] EXCEPT !.timeout_diff =
                          st.pend[1].timeout_diff - left]]]
  PROVE  Elapsing(s, t, 0, k)
<1>1. /\ st \in State /\ st.pend \in Seq(PendReq) /\ Core(st, left)
      /\ left \in Int /\ Clock(st.pend, left)
  BY StateFields DEF Core, Elapsing
<1>2. PICK q : q = [st.pend EXCEPT ![1] = [st.pend[1] EXCEPT !.timeout_diff =
                       st.pend[1].timeout_diff - left]]
  OBVIOUS
<1>3. left < st.pend[1].timeout_diff
  BY <1>1, TailIs
<1>4. Rested(st.pend, q)
  BY <1>1, <1>2, <1>3, ClockElapse
<1>5. Reclocked(st.pend, q, 0)
  BY <1>4 DEF Reclocked, Rested
<1>6. t = [st EXCEPT !.pend = q]
  BY <1>2
<1>7. Requeued(st, t, q, 0)
  BY <1>1, <1>5, <1>6, RequeuedCore
<1> QED
  BY <1>7 DEF Elapsing, SameGhosts, Requeued, Calm

ElapsesTo(st, left, x, y) ==
  \/ (left = 0 \/ st.pend = <<>>) /\ y = x
  \/ /\ left # 0 /\ st.pend # <<>> /\ left >= Head(st.pend).timeout_diff
     /\ y = [st |-> RequestCb([st EXCEPT !.pend = Tail(st.pend)],
                              Head(st.pend), "ERR_TIMEOUT"),
             left |-> left - Head(st.pend).timeout_diff]
  \/ /\ left # 0 /\ st.pend # <<>> /\ ~(left >= Head(st.pend).timeout_diff)
     /\ y = [st |-> [st EXCEPT !.pend = [st.pend EXCEPT ![1] =
                       [st.pend[1] EXCEPT !.timeout_diff =
                          st.pend[1].timeout_diff - left]]],
             left |-> 0]

LEMMA ElapseOneCases ==
  ASSUME NEW st, NEW left, NEW x, x = [st |-> st, left |-> left],
         NEW y, y = ElapseOne(x)
  PROVE  ElapsesTo(st, left, x, y)
<1> USE DEF ElapsesTo
<1>1. x.st = st /\ x.left = left
  OBVIOUS
<1>2. CASE left = 0 \/ st.pend = <<>>
  BY <1>1, <1>2 DEF ElapseOne
<1>3. CASE left # 0 /\ st.pend # <<>> /\ left >= Head(st.pend).timeout_diff
  <2>1. y = [st |-> RequestCb([x.st EXCEPT !.pend = Tail(x.st.pend)],
                              Head(x.st.pend), "ERR_TIMEOUT"),
             left |-> x.left - Head(x.st.pend).timeout_diff]
    BY <1>1, <1>3 DEF ElapseOne
  <2> QED
    BY <1>1, <1>3, <2>1
<1>4. CASE left # 0 /\ st.pend # <<>> /\ ~(left >= Head(st.pend).timeout_diff)
  <2>1. y = [st |-> [x.st EXCEPT !.pend = [x.st.pend EXCEPT ![1] =
                       [x.st.pend[1] EXCEPT !.timeout_diff =
                          x.st.pend[1].timeout_diff - x.left]]],
             left |-> 0]
    <3>1. /\ ~(x.left = 0 \/ x.st.pend = <<>>)
          /\ ~(x.left >= Head(x.st.pend).timeout_diff)
      BY <1>1, <1>4
    <3> QED
      BY <3>1, Zenon DEF ElapseOne
  <2> QED
    BY <1>1, <1>4, <2>1
<1> QED
  BY <1>2, <1>3, <1>4

LEMMA ElapseOneCore ==
  ASSUME NEW s, NEW x, NEW k \in Nat, Elapsing(s, x.st, x.left, k + 1),
         x = [st |-> x.st, left |-> x.left],
         NEW y, y = ElapseOne(x)
  PROVE  /\ Elapsing(s, y.st, y.left, k)
         /\ y = [st |-> y.st, left |-> y.left]
<1>1. PICK st, left : st = x.st /\ left = x.left
  OBVIOUS
<1>2. x = [st |-> st, left |-> left] /\ Elapsing(s, st, left, k + 1)
  BY <1>1
<1>3. /\ left \in Nat /\ st.pend \in Seq(PendReq)
  BY <1>2, StateFields DEF Elapsing, Core
<1>4. CASE (left = 0 \/ st.pend = <<>>) /\ y = x
  BY <1>2, <1>4, ElapsingLeft
<1>5. CASE /\ left # 0 /\ st.pend # <<>> /\ left >= Head(st.pend).timeout_diff
           /\ y = [st |-> RequestCb([st EXCEPT !.pend = Tail(st.pend)],
                                    Head(st.pend), "ERR_TIMEOUT"),
                   left |-> left - Head(st.pend).timeout_diff]
  <2>1. PICK t : t = RequestCb([st EXCEPT !.pend = Tail(st.pend)], Head(st.pend),
                               "ERR_TIMEOUT")
    OBVIOUS
  <2>2. PICK rest : rest = left - Head(st.pend).timeout_diff
    OBVIOUS
  <2>3. Elapsing(s, t, rest, k)
    BY <1>2, <1>5, <2>1, <2>2, ElapseExpires
  <2>4. y = [st |-> t, left |-> rest]
    BY <1>5, <2>1, <2>2
  <2> QED
    BY <2>3, <2>4
<1>6. CASE /\ left # 0 /\ st.pend # <<>> /\ ~(left >= Head(st.pend).timeout_diff)
           /\ y = [st |-> [st EXCEPT !.pend = [st.pend EXCEPT ![1] =
                             [st.pend[1] EXCEPT !.timeout_diff =
                                st.pend[1].timeout_diff - left]]],
                   left |-> 0]
  <2>1. PICK t : t = [st EXCEPT !.pend = [st.pend EXCEPT ![1] =
                        [st.pend[1] EXCEPT !.timeout_diff =
                           st.pend[1].timeout_diff - left]]]
    OBVIOUS
  <2>2. left < Head(st.pend).timeout_diff
    <3>1. Head(st.pend).timeout_diff \in Int
      BY <1>3, <1>6, TailIs, PendReqFields
    <3> QED
      BY <1>3, <1>6, <3>1
  <2>3. Elapsing(s, t, 0, k)
    BY <1>2, <1>6, <2>1, <2>2, ElapseRests
  <2>4. y = [st |-> t, left |-> 0]
    BY <1>6, <2>1
  <2> QED
    BY <2>3, <2>4
<1>7. ElapsesTo(st, left, x, y)
  BY <1>2, ElapseOneCases
<1> QED
  BY <1>4, <1>5, <1>6, <1>7, Zenon DEF ElapsesTo

LEMMA TimeElapsedUnrolled ==
  ASSUME NEW s, s.pend \in Seq(PendReq), NEW t
  PROVE  \E f : /\ Unrolled(f, "time_elapsed", [st |-> s, left |-> t],
                            Len(s.pend), s.pend)
                /\ TimeElapsed(s, t) = f[Len(s.pend)].st
<1> DEFINE n == Len(s.pend)
           start == [st |-> s, left |-> t]
           Fix(f) == f = [i \in 0 .. n |-> IF i = 0 THEN start
                                           ELSE ElapseOne(f[i - 1])]
           g == CHOOSE f : Fix(f)
<1>1. PICK f : Unrolled(f, "time_elapsed", start, n, s.pend)
  <2>1. n \in Nat
    OBVIOUS
  <2> QED
    BY <2>1, LoopExists
<1>2. \A x, e : Turn("time_elapsed", x, e) = ElapseOne(x)
  BY DEF Turn
<1>3. Fix(f)
  <2> DEFINE h == [i \in 0 .. n |-> IF i = 0 THEN start ELSE ElapseOne(f[i - 1])]
  <2> HIDE DEF start
  <2>1. \A i \in 0 .. n : f[i] = h[i]
    BY <1>1, <1>2 DEF Unrolled
  <2>2. f = [i \in 0 .. n |-> f[i]]
    BY <1>1 DEF Unrolled
  <2> QED
    BY <2>1, <2>2
<1>4. Fix(g)
  BY <1>3
<1>5. TimeElapsed(s, t) = g[n].st
  BY DEF TimeElapsed
<1> HIDE DEF g
<1>6. Unrolled(g, "time_elapsed", start, n, s.pend)
  <2> HIDE DEF start
  <2> QED
    BY <1>2, <1>4 DEF Unrolled
<1> QED
  BY <1>5, <1>6

(* mqtt_request_time_elapsed: after t of aging, the clocks are in order.   *)
LEMMA TimeElapsedCore ==
  ASSUME NEW s, NEW t \in Nat, Core(s, t), NEW u, u = TimeElapsed(s, t)
  PROVE  Elapsing(s, u, 0, 0)
<1> DEFINE n == Len(s.pend)
<1>1. s.pend \in Seq(PendReq) /\ n \in Nat
  BY StateFields DEF Core
<1>2. PICK f : /\ Unrolled(f, "time_elapsed", [st |-> s, left |-> t], n, s.pend)
               /\ TimeElapsed(s, t) = f[n].st
  BY <1>1, TimeElapsedUnrolled
<1>3. \A x, e : Turn("time_elapsed", x, e) = ElapseOne(x)
  BY DEF Turn
<1> DEFINE OK(i) == /\ Elapsing(s, f[i].st, f[i].left, n - i)
                    /\ f[i] = [st |-> f[i].st, left |-> f[i].left]
           Good == {i \in Nat : i <= n => OK(i)}
<1>4. 0 \in Good
  <2>1. f[0] = [st |-> s, left |-> t]
    <3>1. 0 \in 0 .. n
      BY <1>1
    <3> QED
      BY <1>2, <3>1 DEF Unrolled
  <2>2. Elapsing(s, s, t, n - 0)
    BY <1>1 DEF Elapsing, SameGhosts, Calm
  <2>3. OK(0)
    BY <2>1, <2>2
  <2> QED
    BY <2>3
<1>5. ASSUME NEW i \in Nat, i \in Good PROVE i + 1 \in Good
  <2> SUFFICES ASSUME i + 1 <= n PROVE OK(i + 1)
    OBVIOUS
  <2>1. i <= n /\ i + 1 \in 0 .. n /\ i + 1 # 0 /\ (i + 1) - 1 = i
    BY <1>1
  <2>2. f[i + 1] = ElapseOne(f[i])
    BY <1>2, <1>3, <2>1 DEF Unrolled
  <2>3. OK(i)
    BY <1>5, <2>1
  <2>4. PICK k \in Nat : n - i = k + 1 /\ n - (i + 1) = k
    <3>1. n - (i + 1) \in Nat /\ n - i = (n - (i + 1)) + 1
      BY <1>1
    <3> QED
      BY <3>1
  <2>5. Elapsing(s, f[i].st, f[i].left, k + 1)
    BY <2>3, <2>4
  <2>6. /\ Elapsing(s, f[i + 1].st, f[i + 1].left, k)
        /\ f[i + 1] = [st |-> f[i + 1].st, left |-> f[i + 1].left]
    BY <2>2, <2>3, <2>5, ElapseOneCore
  <2> QED
    BY <2>4, <2>6
<1>6. n \in Good
  <2> HIDE DEF Good
  <2> QED
    BY <1>1, <1>4, <1>5, SetInduction
<1>7. PICK v : v = f[n]
  OBVIOUS
<1>8. Elapsing(s, u, v.left, 0)
  <2>1. n <= n /\ n - n = 0
    BY <1>1
  <2> QED
    BY <1>2, <1>6, <1>7, <2>1
<1>9. CASE v.left = 0
  BY <1>8, <1>9
<1>10. CASE v.left # 0
  <2>1. Core(u, v.left) /\ Len(u.pend) <= 0
    BY <1>8, <1>10 DEF Elapsing
  <2>2. u.pend = <<>>
    <3>1. u.pend \in Seq(PendReq)
      BY <2>1, StateFields DEF Core
    <3> QED
      BY <2>1, <3>1
  <2>3. Core(u, 0)
    BY <2>1, <2>2, ClockEmpty DEF Core
  <2> QED
    BY <1>8, <2>3 DEF Elapsing
<1> QED
  BY <1>9, <1>10

LEMMA AgedCore ==
  ASSUME NEW s, Core(s, 0), NEW t, t = Aged(s)
  PROVE  Requeued(s, t, t.pend, MQTT_CYCLIC_TIMER_INTERVAL)
<1>1. s.pend \in Seq(PendReq) /\ Clock(s.pend, 0)
      /\ MQTT_CYCLIC_TIMER_INTERVAL \in Nat
  BY StateFields, Constants DEF Core
<1>2. PICK q : q = [i \in DOMAIN s.pend |->
                      [s.pend[i] EXCEPT !.age = s.pend[i].age
                                                  + MQTT_CYCLIC_TIMER_INTERVAL]]
  OBVIOUS
<1>3. t = [s EXCEPT !.pend = q]
  BY <1>2 DEF Aged
<1>4. AgedTo(s.pend, q, MQTT_CYCLIC_TIMER_INTERVAL)
  BY <1>1, <1>2, ClockAged
<1>5. Reclocked(s.pend, q, MQTT_CYCLIC_TIMER_INTERVAL)
  BY <1>4 DEF Reclocked, AgedTo
<1>6. Requeued(s, t, q, MQTT_CYCLIC_TIMER_INTERVAL)
  BY <1>3, <1>5, RequeuedCore
<1> QED
  BY <1>6 DEF Requeued

(* Counters and the timer list, which the wire and the queue do not see.   *)
Unmoved(s, t) ==
  /\ t \in State
  /\ t.nullSend = s.nullSend /\ t.nullCall = s.nullCall
  /\ t.conn_state = s.conn_state /\ t.conn = s.conn
  /\ t.pend = s.pend /\ t.req = s.req /\ t.nreq = s.nreq /\ t.ring = s.ring
  /\ t.firstOut = s.firstOut /\ t.tx = s.tx /\ t.rx = s.rx
  /\ t.data_cb = s.data_cb /\ t.granted = s.granted /\ t.npub = s.npub
  /\ t.pkt_id_seq = s.pkt_id_seq /\ t.qos0 = s.qos0 /\ t.served = s.served
  /\ t.unacked = s.unacked

LEMMA TimersIs ==
  ASSUME NEW s \in State, NEW n \in Nat, NEW t, t = [s EXCEPT !.timers = n]
  PROVE  /\ Unmoved(s, t) /\ t.timers = n /\ t.mem = s.mem
         /\ t.cyclic_tick = s.cyclic_tick /\ t.server_watchdog = s.server_watchdog
<1>1. t \in State
  BY ZenonT(60) DEF State
<1> QED
  BY <1>1 DEF Unmoved, State

LEMMA TickIs ==
  ASSUME NEW s \in State, NEW n \in Nat, NEW t, t = [s EXCEPT !.cyclic_tick = n]
  PROVE  /\ Unmoved(s, t) /\ t.timers = s.timers /\ t.mem = s.mem
         /\ t.cyclic_tick = n /\ t.server_watchdog = s.server_watchdog
<1>1. t \in State
  BY ZenonT(60) DEF State
<1> QED
  BY <1>1 DEF Unmoved, State

LEMMA WatchedIs ==
  ASSUME NEW s \in State, NEW n \in Nat, NEW t, t = [s EXCEPT !.server_watchdog = n]
  PROVE  /\ Unmoved(s, t) /\ t.timers = s.timers /\ t.mem = s.mem
         /\ t.cyclic_tick = s.cyclic_tick /\ t.server_watchdog = n
<1>1. t \in State
  BY ZenonT(60) DEF State
<1> QED
  BY <1>1 DEF Unmoved, State

LEMMA MemoryIs ==
  ASSUME NEW s \in State, NEW mem \in BOOLEAN, NEW t, t = [s EXCEPT !.mem = mem]
  PROVE  /\ Unmoved(s, t) /\ t.timers = s.timers /\ t.mem = mem
         /\ t.cyclic_tick = s.cyclic_tick /\ t.server_watchdog = s.server_watchdog
<1>1. t \in State
  BY ZenonT(60) DEF State
<1> QED
  BY <1>1 DEF Unmoved, State

LEMMA UnmovedCore ==
  ASSUME NEW s, NEW left, Core(s, left), NEW t, Unmoved(s, t)
  PROVE  /\ Core(t, left)
         /\ Data(s) => Data(t)
         /\ Hand(s) => Hand(t)
<1>1. Core(t, left)
  BY CoreFrame DEF Unmoved
<1>2. (Data(s) => Data(t)) /\ (Hand(s) => Hand(t))
  BY WireFrame DEF Unmoved
<1> QED
  BY <1>1, <1>2

(* Keep-alive appends, and sends nothing.                                  *)
PingMsg == [type |-> "PINGREQ", id |-> 0, k |-> 0]

LEMMA PingMsgType == PingMsg \in Msg /\ PingMsg.type # "SUBSCRIBE"
  BY Constants DEF PingMsg, Msg, MsgTypes

LEMMA KeepAliveCases ==
  ASSUME NEW s \in State, NEW t, t = KeepAliveSend(s)
  PROVE  \/ t = s
         \/ t = [s EXCEPT !.cyclic_tick = s.cyclic_tick + 1]
         \/ CheckSpace(s) /\ t = Append1([s EXCEPT !.cyclic_tick = 0], PingMsg)
  BY DEF KeepAliveSend, PingMsg

LEMMA KeepAliveDone ==
  ASSUME NEW s, Core(s, 0), Data(s), Hand(s), NEW t, t = KeepAliveSend(s)
  PROVE  Done(s, t)
<1>1. s \in State /\ s.cyclic_tick \in Nat
  BY StateFields DEF Core
<1>2. CASE t = s
  BY <1>2 DEF Done, SameGhosts
<1>3. ASSUME NEW n \in Nat, NEW u, u = [s EXCEPT !.cyclic_tick = n]
      PROVE  Done(s, u)
  <2>1. Unmoved(s, u) /\ u.timers = s.timers /\ u.mem = s.mem
    BY <1>1, <1>3, TickIs
  <2>2. Core(u, 0) /\ Data(u) /\ Hand(u)
    BY <2>1, UnmovedCore
  <2> QED
    BY <2>1, <2>2 DEF Done, Unmoved, SameGhosts
<1>4. CASE t = [s EXCEPT !.cyclic_tick = s.cyclic_tick + 1]
  <2>1. s.cyclic_tick + 1 \in Nat
    BY <1>1
  <2> QED
    BY <1>3, <1>4, <2>1
<1>5. CASE CheckSpace(s) /\ t = Append1([s EXCEPT !.cyclic_tick = 0], PingMsg)
  <2>1. PICK u : u = [s EXCEPT !.cyclic_tick = 0]
    OBVIOUS
  <2>2. Done(s, u)
    BY <1>3, <2>1
  <2>3. u.ring = s.ring
    BY <1>1, <2>1 DEF State
  <2>4. CheckSpace(u) /\ Core(u, 0) /\ Data(u) /\ Hand(u)
    BY <1>5, <2>2, <2>3 DEF CheckSpace, Done
  <2>5. t = Append1(u, PingMsg)
    BY <1>5, <2>1
  <2>6. Core(t, 0) /\ Data(t) /\ Hand(t)
    BY <2>4, <2>5, PingMsgType, Append1Core
  <2>7. t.timers = u.timers /\ t.conn_state = u.conn_state /\ SameGhosts(u, t)
    <3>1. u \in State
      BY <2>4 DEF Core
    <3> QED
      BY <3>1, <2>5, PingMsgType, Append1Fields DEF SameGhosts
  <2>8. Done(u, t)
    BY <2>6, <2>7 DEF Done
  <2> QED
    BY <2>2, <2>8, DoneTransitive
<1> QED
  BY <1>1, <1>2, <1>4, <1>5, KeepAliveCases

LEMMA CloseAgain ==
  ASSUME NEW s, Closable(s), s.conn_state = "TCP_DISCONNECTED",
         NEW reason, NEW t, t = Close(s, reason)
  PROVE  Down(s, t)
<1>1. t = Closed(s) /\ s \in State
  BY DEF Close, Closed, Closable
<1>2. IsClosed(s, t)
  BY <1>1, ClosedIs
<1>3. t \in State /\ t.conn_state = "TCP_DISCONNECTED"
  BY <1>2 DEF IsClosed
<1>4. t = [t EXCEPT !.conn_state = "TCP_DISCONNECTED"]
  BY <1>3 DEF State
<1> QED
  BY <1>2, <1>3, <1>4, ClosedCore DEF Down

LEMMA CloseDown ==
  ASSUME NEW s, Closable(s), NEW reason, reason # "MQTT_CONNECT_ACCEPTED",
         NEW t, t = Close(s, reason)
  PROVE  Down(s, t)
  BY CloseAgain, CloseCore

(* The timer has fired, or been set.                                       *)
LEMMA SetTimeoutIs ==
  ASSUME NEW s, Core(s, 0), Data(s), Hand(s), NEW t, t = SetTimeout(s)
  PROVE  /\ Core(t, 0) /\ Data(t) /\ Hand(t) /\ t.timers = s.timers + 1
         /\ t.conn_state = s.conn_state /\ t.mem = s.mem
         /\ t.nullSend = s.nullSend /\ t.nullCall = s.nullCall
<1>1. s \in State /\ s.timers + 1 \in Nat
  BY StateFields DEF Core
<1>2. t = [s EXCEPT !.timers = s.timers + 1]
  BY DEF SetTimeout
<1>3. Unmoved(s, t) /\ t.timers = s.timers + 1 /\ t.mem = s.mem
  BY <1>1, <1>2, TimersIs
<1>4. Core(t, 0) /\ Data(t) /\ Hand(t)
  BY <1>3, UnmovedCore
<1> QED
  BY <1>3, <1>4 DEF Unmoved

(* The timer has fired: t is what a tick makes of it.                      *)
Ticked(s, t) ==
  /\ Core(t, 0) /\ Data(t) /\ Hand(t)
  /\ t.nullCall = s.nullCall
  /\ OnRequestFail = "ignore" /\ s.timers = 0 => Timed(t) /\ t.nullSend = s.nullSend

LEMMA ConnectingTickCore ==
  ASSUME NEW s, Core(s, 0), Data(s), Hand(s), s.conn_state = "MQTT_CONNECTING",
         NEW t, t = ConnectingTick(s)
  PROVE  Ticked(s, t)
<1>1. s \in State /\ s.cyclic_tick + 1 \in Nat
  BY StateFields DEF Core
<1>2. PICK u : u = [s EXCEPT !.cyclic_tick = s.cyclic_tick + 1]
  OBVIOUS
<1>3. Unmoved(s, u) /\ u.timers = s.timers /\ u.mem = s.mem
  BY <1>1, <1>2, TickIs
<1>4. Core(u, 0) /\ Data(u) /\ Hand(u)
  BY <1>3, UnmovedCore
<1>5. t = Close(u, "MQTT_CONNECT_TIMEOUT") \/ t = SetTimeout(u)
  BY <1>2 DEF ConnectingTick
<1>6. CASE t = Close(u, "MQTT_CONNECT_TIMEOUT")
  <2>1. Down(u, t)
    BY <1>4, <1>6, CloseDown, CoreClosable
  <2>2. u.timers \in {0, 1} => Timed(t) /\ t.nullSend = u.nullSend
    BY <1>4, <2>1, DownAfter
  <2> QED
    BY <1>3, <1>4, <2>1, <2>2 DEF Down, Ticked, Unmoved, SameGhosts
<1>7. CASE t = SetTimeout(u)
  <2>1. /\ Core(t, 0) /\ Data(t) /\ Hand(t) /\ t.timers = u.timers + 1
        /\ t.conn_state = u.conn_state
        /\ t.nullSend = u.nullSend /\ t.nullCall = u.nullCall
    BY <1>4, <1>7, SetTimeoutIs
  <2> QED
    BY <1>3, <2>1 DEF Ticked, Unmoved, Timed
<1> QED
  BY <1>5, <1>6, <1>7

LEMMA ConnectedTickCore ==
  ASSUME NEW s, Core(s, 0), Data(s), Hand(s), s.conn_state = "MQTT_CONNECTED",
         NEW t, t = ConnectedTick(s)
  PROVE  Ticked(s, t)
<1>1. PICK a : a = Aged(s)
  OBVIOUS
<1>2. Requeued(s, a, a.pend, MQTT_CYCLIC_TIMER_INTERVAL)
  BY <1>1, AgedCore
<1>3. /\ Core(a, MQTT_CYCLIC_TIMER_INTERVAL) /\ Data(a) /\ Hand(a)
      /\ SameGhosts(s, a) /\ a.timers = s.timers /\ a.conn_state = s.conn_state
  BY <1>2 DEF Requeued
<1>4. PICK e : e = TimeElapsed(a, MQTT_CYCLIC_TIMER_INTERVAL)
  OBVIOUS
<1>5. Elapsing(a, e, 0, 0)
  BY <1>3, <1>4, Constants, TimeElapsedCore
<1>6. /\ Core(e, 0) /\ Data(e) /\ Hand(e) /\ SameGhosts(s, e)
      /\ OnRequestFail = "ignore" =>
           e.timers = s.timers /\ e.conn_state = "MQTT_CONNECTED"
  BY <1>3, <1>5 DEF Elapsing, SameGhosts
<1>7. e \in State /\ e.server_watchdog + 1 \in Nat
  BY <1>6, StateFields DEF Core
<1>8. PICK w : w = [e EXCEPT !.server_watchdog = e.server_watchdog + 1]
  OBVIOUS
<1>9. Unmoved(e, w) /\ w.timers = e.timers /\ w.mem = e.mem
  BY <1>7, <1>8, WatchedIs
<1>10. Core(w, 0) /\ Data(w) /\ Hand(w)
  BY <1>6, <1>9, UnmovedCore
<1>11. \/ t = SetTimeout(e)
       \/ t = KeepAliveSend(Close(w, "MQTT_CONNECT_TIMEOUT"))
       \/ t = SetTimeout(KeepAliveSend(w))
  BY <1>1, <1>4, <1>8 DEF ConnectedTick
<1>12. CASE t = SetTimeout(e)
  <2>1. /\ Core(t, 0) /\ Data(t) /\ Hand(t) /\ t.timers = e.timers + 1
        /\ t.conn_state = e.conn_state
        /\ t.nullSend = e.nullSend /\ t.nullCall = e.nullCall
    BY <1>6, <1>12, SetTimeoutIs
  <2> QED
    BY <1>6, <2>1 DEF Ticked, Timed, SameGhosts
<1>13. CASE t = KeepAliveSend(Close(w, "MQTT_CONNECT_TIMEOUT"))
  <2>1. PICK c : c = Close(w, "MQTT_CONNECT_TIMEOUT")
    OBVIOUS
  <2>2. Down(w, c)
    BY <1>10, <2>1, CloseDown, CoreClosable
  <2>3. Core(c, 0) /\ Data(c) /\ Hand(c) /\ c.nullCall = w.nullCall
    BY <1>10, <2>2 DEF Down, SameGhosts
  <2>4. w.timers \in {0, 1} => Timed(c) /\ c.nullSend = w.nullSend
    BY <1>10, <2>2, DownAfter
  <2>5. Done(c, t)
    BY <1>13, <2>1, <2>3, KeepAliveDone
  <2> QED
    BY <1>6, <1>9, <2>3, <2>4, <2>5 DEF Done, Ticked, Unmoved, SameGhosts, Timed
<1>14. CASE t = SetTimeout(KeepAliveSend(w))
  <2>1. PICK k : k = KeepAliveSend(w)
    OBVIOUS
  <2>2. Done(w, k)
    BY <1>10, <2>1, KeepAliveDone
  <2>3. Core(k, 0) /\ Data(k) /\ Hand(k)
    BY <2>2 DEF Done
  <2>4. /\ Core(t, 0) /\ Data(t) /\ Hand(t) /\ t.timers = k.timers + 1
        /\ t.conn_state = k.conn_state
        /\ t.nullSend = k.nullSend /\ t.nullCall = k.nullCall
    BY <1>14, <2>1, <2>3, SetTimeoutIs
  <2> QED
    BY <1>6, <1>9, <2>2, <2>4 DEF Done, Ticked, Unmoved, SameGhosts, Timed
<1> QED
  BY <1>11, <1>12, <1>13, <1>14

(* mqtt_cyclic_timer, taken off the timer list.                            *)
LEMMA CyclicTimerAfter ==
  ASSUME NEW s, Core(s, 0), Data(s), Hand(s), s.timers > 0,
         NEW t, t = CyclicTimer(s)
  PROVE  After(s, t)
<1>1. s \in State /\ s.timers \in Nat /\ s.timers - 1 \in Nat
  BY StateFields DEF Core
<1>2. PICK f : f = [s EXCEPT !.timers = s.timers - 1]
  OBVIOUS
<1>3. Unmoved(s, f) /\ f.timers = s.timers - 1 /\ f.mem = s.mem
  BY <1>1, <1>2, TimersIs
<1>4. Core(f, 0) /\ Data(f) /\ Hand(f)
  BY <1>3, UnmovedCore
<1>5. Timed(s) => /\ s.conn_state \in {"MQTT_CONNECTING", "MQTT_CONNECTED"}
                  /\ f.timers = 0
  BY <1>1, <1>3 DEF Timed
<1>6. ASSUME Ticked(f, t) PROVE After(s, t)
  BY <1>3, <1>5, <1>6 DEF Ticked, After, Unmoved
<1>7. CASE s.conn_state = "MQTT_CONNECTING"
  <2>1. t = ConnectingTick(f)
    BY <1>2, <1>7 DEF CyclicTimer
  <2> QED
    BY <1>3, <1>4, <1>6, <1>7, <2>1, ConnectingTickCore DEF Unmoved
<1>8. CASE s.conn_state = "MQTT_CONNECTED"
  <2>1. t = ConnectedTick(f)
    BY <1>2, <1>8 DEF CyclicTimer
  <2> QED
    BY <1>3, <1>4, <1>6, <1>8, <2>1, ConnectedTickCore DEF Unmoved
<1>9. CASE s.conn_state \notin {"MQTT_CONNECTING", "MQTT_CONNECTED"}
  <2>1. t = f
    BY <1>2, <1>9 DEF CyclicTimer
  <2> QED
    BY <1>3, <1>4, <1>5, <1>9, <2>1 DEF After, Unmoved
<1> QED
  BY <1>7, <1>8, <1>9

-----------------------------------------------------------------------------
(***************************************************************************)
(* The other handlers.                                                     *)
(***************************************************************************)
Good(s) == Core(s, 0) /\ Data(s) /\ Hand(s)

LEMMA PollCbAfter ==
  ASSUME NEW s, Good(s), NEW t, t = PollCb(s)
  PROVE  After(s, t)
<1>1. CASE s.conn_state # "MQTT_CONNECTED"
  BY <1>1 DEF PollCb, Good, After
<1>2. CASE s.conn_state = "MQTT_CONNECTED"
  <2>1. t = Send(s) /\ s.conn
    BY <1>2 DEF PollCb, Good, Core, Linked
  <2>2. Done(s, t)
    BY <2>1, SendDone DEF Good
  <2> QED
    BY <2>2, DoneAfter
<1> QED
  BY <1>1, <1>2

LEMMA CloseAfter ==
  ASSUME NEW s, Good(s), NEW t, t = Close(s, "MQTT_CONNECT_DISCONNECTED")
  PROVE  After(s, t)
<1>1. Down(s, t)
  BY CloseDown, CoreClosable DEF Good
<1> QED
  BY <1>1, DownAfter2 DEF Good

LEMMA LostIs ==
  ASSUME NEW s \in State, NEW l, l = [s EXCEPT !.conn = FALSE]
  PROVE  /\ l \in State /\ l.pend = s.pend /\ l.req = s.req /\ l.nreq = s.nreq
         /\ l.ring = s.ring /\ l.firstOut = s.firstOut /\ l.tx = s.tx
         /\ l.rx = s.rx /\ l.data_cb = s.data_cb /\ l.granted = s.granted
         /\ SameGhosts(s, l) /\ l.timers = s.timers /\ l.conn_state = s.conn_state
         /\ l.pkt_id_seq = s.pkt_id_seq /\ l.qos0 = s.qos0
         /\ l.served = s.served
<1>1. l \in State
  BY ZenonT(60) DEF State
<1> QED
  BY <1>1 DEF State, SameGhosts

LEMMA ErrCbAfter ==
  ASSUME NEW s, Good(s), NEW t, t = ErrCb(s)
  PROVE  After(s, t)
<1>1. PICK l : l = [s EXCEPT !.conn = FALSE]
  OBVIOUS
<1>2. s \in State
  BY DEF Good, Core
<1>3. /\ l \in State /\ l.pend = s.pend /\ l.req = s.req /\ l.nreq = s.nreq
      /\ l.ring = s.ring /\ l.firstOut = s.firstOut /\ l.tx = s.tx
      /\ l.rx = s.rx /\ l.data_cb = s.data_cb /\ l.granted = s.granted
      /\ SameGhosts(s, l) /\ l.timers = s.timers /\ l.conn_state = s.conn_state
  BY <1>1, <1>2, LostIs
<1>4. Closable(l)
  <2>1. Closable(s)
    BY CoreClosable DEF Good
  <2> QED
    BY <1>3, <2>1 DEF Closable
<1>5. Data(l)
  BY <1>3 DEF Data, Good
<1>6. t = Close(l, "MQTT_CONNECT_DISCONNECTED")
  BY <1>1 DEF ErrCb
<1>7. Down(l, t)
  BY <1>4, <1>6, CloseDown
<1>8. After(l, t)
  BY <1>5, <1>7, DownAfter2
<1> QED
  BY <1>3, <1>8 DEF After, Timed, SameGhosts

LEMMA HandshakeIs ==
  ASSUME NEW s \in State,
         NEW h, h = [s EXCEPT !.conn_state = "MQTT_CONNECTING", !.cyclic_tick = 0]
  PROVE  /\ h \in State /\ h.conn_state = "MQTT_CONNECTING" /\ h.conn = s.conn
         /\ h.pend = s.pend /\ h.req = s.req /\ h.nreq = s.nreq
         /\ h.ring = s.ring /\ h.firstOut = s.firstOut /\ h.tx = s.tx
         /\ h.rx = s.rx /\ h.data_cb = s.data_cb /\ h.granted = s.granted
         /\ h.unacked = s.unacked /\ SameGhosts(s, h) /\ h.timers = s.timers
         /\ h.pkt_id_seq = s.pkt_id_seq /\ h.qos0 = s.qos0
         /\ h.served = s.served
<1>1. "MQTT_CONNECTING" \in ConnStates /\ 0 \in Nat
  BY DEF ConnStates
<1>2. h \in State
  BY <1>1, ZenonT(60) DEF State
<1> QED
  BY <1>2 DEF State, SameGhosts

(* The TCP connection is up: the client sends CONNECT.                     *)
LEMMA TcpConnectCbAfter ==
  ASSUME NEW s, Good(s), s.conn_state = "TCP_CONNECTING",
         NEW t, t = TcpConnectCb(s)
  PROVE  After(s, t) /\ t.conn_state = "MQTT_CONNECTING"
<1>1. PICK h : h = [s EXCEPT !.conn_state = "MQTT_CONNECTING", !.cyclic_tick = 0]
  OBVIOUS
<1>2. s \in State
  BY DEF Good, Core
<1>3. /\ h \in State /\ h.conn_state = "MQTT_CONNECTING" /\ h.conn = s.conn
      /\ h.pend = s.pend /\ h.req = s.req /\ h.nreq = s.nreq
      /\ h.ring = s.ring /\ h.firstOut = s.firstOut /\ h.tx = s.tx
      /\ h.rx = s.rx /\ h.data_cb = s.data_cb /\ h.granted = s.granted
      /\ h.unacked = s.unacked /\ SameGhosts(s, h) /\ h.timers = s.timers
  BY <1>1, <1>2, HandshakeIs, ZenonT(60)
<1>4. Core(h, 0)
  BY <1>3 DEF Good, Core, Linked, Idle, Room, First
<1>5. Data(h)
  BY <1>3 DEF Good, Data
<1>6. Hand(h)
  BY <1>3 DEF Good, Hand, Connecting
<1>7. PICK u : u = SetTimeout(h)
  OBVIOUS
<1>8. /\ Core(u, 0) /\ Data(u) /\ Hand(u) /\ u.timers = h.timers + 1
      /\ u.conn_state = h.conn_state
      /\ u.nullSend = h.nullSend /\ u.nullCall = h.nullCall
  BY <1>4, <1>5, <1>6, <1>7, SetTimeoutIs
<1>9. u.conn
  BY <1>3, <1>8 DEF Core, Linked
<1>10. Done(u, t)
  <2>1. t = Send(u)
    BY <1>1, <1>7 DEF TcpConnectCb
  <2> QED
    BY <1>8, <1>9, <2>1, SendDone
<1> QED
  BY <1>3, <1>8, <1>10 DEF Done, After, Timed, SameGhosts

LEMMA DisconnectAfter ==
  ASSUME NEW s, Good(s), s.conn_state # "TCP_DISCONNECTED", NEW t, t = Disconnect(s)
  PROVE  After(s, t)
<1>1. /\ Core(t, 0) /\ Data(t) /\ Hand(t)
      /\ SameGhosts(s, t) /\ t.timers = OneLess(s.timers)
      /\ t.conn_state = "TCP_DISCONNECTED"
  BY DisconnectCore, CoreClosable DEF Good
<1> QED
  BY <1>1 DEF After, Timed, SameGhosts, OneLess

LEMMA ClientConnectAfter ==
  ASSUME NEW s, Good(s), s.conn_state = "TCP_DISCONNECTED",
         NEW t, t = ClientConnect(s)
  PROVE  After(s, t)
<1>1. s \in State
  BY DEF Good, Core
<1>2. Connected(s, t)
  BY <1>1, ClientConnectCore
<1> QED
  BY <1>2 DEF Connected, After, Timed, SameGhosts

LEMMA RequestAfter ==
  ASSUME NEW s, Good(s), s.conn_state # "TCP_DISCONNECTED",
         s.nreq + (IF s.conn_state = "MQTT_CONNECTED" THEN 0 ELSE 2) < MaxReqs,
         NEW kind \in Kinds, NEW t, t = Request(s, kind)
  PROVE  After(s, t)
<1>1. kind \in AskKinds /\ kind # "SUBSCRIBE"
  BY ClientConstants DEF AskKinds
<1>2. s.nreq \in Nat /\ MaxReqs \in Nat
  <2>1. s.nreq \in 0 .. MaxReqs /\ MaxReqs \in Nat
    BY StateFields, Constants DEF Good, Core
  <2> QED
    BY <2>1
<1>3. s.nreq < MaxReqs /\ (s.conn_state \in Connecting => s.nreq + 3 <= MaxReqs)
  BY <1>2 DEF Connecting
<1>4. Core(t, 0) /\ SameLink(s, t) /\ Data(t) /\ Hand(t)
  BY <1>1, <1>3, RequestCore DEF Good
<1> QED
  BY <1>4 DEF After, SameLink, Timed

-----------------------------------------------------------------------------
(***************************************************************************)
(* The server.                                                             *)
(***************************************************************************)
LEMMA AnswersAre ==
  ASSUME NEW msg, NEW type \in Answers(msg)
  PROVE  /\ type \in MsgTypes
         /\ msg.type = "CONNECT" => type \in Connacks
         /\ msg.type # "SUBSCRIBE" =>
              type \notin {"PUBLISH0", "PUBLISH1", "PUBLISH2", "SUBACK",
                           "SUBACK_DENIED"}
         /\ type \notin {"PUBLISH0", "PUBLISH1", "PUBLISH2"}
  BY DEF Answers, MsgTypes, Connacks

IsRead(s, tx, rx, granted, served, t) ==
  /\ t \in State /\ t.tx = tx /\ t.rx = rx /\ t.granted = granted
  /\ t.served = served
  /\ t.timers = s.timers /\ SameGhosts(s, t) /\ t.conn = s.conn
  /\ t.conn_state = s.conn_state /\ t.cyclic_tick = s.cyclic_tick
  /\ t.server_watchdog = s.server_watchdog /\ t.pkt_id_seq = s.pkt_id_seq
  /\ t.pend = s.pend /\ t.ring = s.ring /\ t.data_cb = s.data_cb
  /\ t.unacked = s.unacked /\ t.nreq = s.nreq /\ t.req = s.req
  /\ t.qos0 = s.qos0 /\ t.firstOut = s.firstOut

LEMMA ReadIs ==
  ASSUME NEW s \in State, NEW tx \in Seq(Msg), NEW rx \in Seq(Msg),
         NEW granted \in BOOLEAN, NEW served \in SUBSET Nat,
         NEW t, t = [s EXCEPT !.tx = tx, !.rx = rx, !.granted = granted,
                       !.served = served]
  PROVE  IsRead(s, tx, rx, granted, served, t)
<1>1. t \in State
  BY ZenonT(60) DEF State
<1> QED
  BY <1>1, SMTT(60) DEF IsRead, State, SameGhosts

LEMMA PublishedIs ==
  ASSUME NEW s \in State, NEW rx \in Seq(Msg), NEW npub \in 0 .. MaxPub,
         NEW t, t = [s EXCEPT !.npub = npub, !.rx = rx]
  PROVE  IsRead(s, s.tx, rx, s.granted, s.served, t)
<1>1. t \in State
  BY ZenonT(60) DEF State
<1> QED
  BY <1>1 DEF IsRead, State, SameGhosts

LEMMA ReadAfter ==
  ASSUME NEW s, Good(s), NEW tx, NEW rx, NEW granted, NEW served,
         NEW t, IsRead(s, tx, rx, granted, served, t), Data(t), Hand(t)
  PROVE  After(s, t)
<1>1. Core(t, 0)
  BY CoreFrame DEF Good, IsRead
<1> QED
  BY <1>1 DEF IsRead, After, Timed, SameGhosts

(* q with the value v appended, or as it was.                              *)
LEMMA Appended ==
  ASSUME NEW T, NEW q \in Seq(T), NEW v \in T, NEW r, r = Append(q, v)
  PROVE  /\ r \in Seq(T) /\ r # <<>>
         /\ r[1] = IF q = <<>> THEN v ELSE q[1]
         /\ \A i \in 1 .. Len(r) : \/ r[i] = v
                                  \/ \E j \in 1 .. Len(q) : r[i] = q[j]
  OBVIOUS

ReadsMsg(s, msg, type, t) ==
  t = [s EXCEPT !.tx = Tail(s.tx),
         !.rx = IF type = "none" THEN s.rx
                ELSE Append(s.rx, [msg EXCEPT !.type = type]),
         !.granted = s.granted \/ type = "SUBACK",
         !.served = IF type \in {"SUBACK", "PUBACK", "PUBCOMP"}
                       \/ msg.type = "PUBLISH0"
                    THEN s.served \cup {msg.k} ELSE s.served]

LEMMA ServerReadsAfter ==
  ASSUME NEW s, Good(s), s.tx # <<>>, s.conn_state # "TCP_CONNECTING",
         NEW msg, msg = Head(s.tx), NEW type \in Answers(msg),
         NEW t, ReadsMsg(s, msg, type, t)
  PROVE  After(s, t)
<1>1. /\ s \in State /\ s.tx \in Seq(Msg) /\ s.rx \in Seq(Msg)
      /\ s.granted \in BOOLEAN /\ s.served \in SUBSET Nat
  BY StateFields DEF Good, Core
<1>2. PICK tx : tx = Tail(s.tx)
  OBVIOUS
<1>3. /\ msg = s.tx[1] /\ msg \in Msg /\ tx \in Seq(Msg)
      /\ \A i \in 1 .. Len(tx) : \E j \in 1 .. Len(s.tx) : tx[i] = s.tx[j]
  BY <1>1, <1>2
<1>4. PICK answer : answer = [msg EXCEPT !.type = type]
  OBVIOUS
<1>5. /\ type \in MsgTypes
      /\ msg.type = "CONNECT" => type \in Connacks
      /\ msg.type # "SUBSCRIBE" =>
           type \notin {"PUBLISH0", "PUBLISH1", "PUBLISH2", "SUBACK",
                        "SUBACK_DENIED"}
  BY AnswersAre
<1>6. answer \in Msg /\ answer.type = type
  BY <1>3, <1>4, <1>5, MsgWith
<1>7. PICK rx : rx = IF type = "none" THEN s.rx ELSE Append(s.rx, answer)
  OBVIOUS
<1>8. /\ rx \in Seq(Msg)
      /\ \A i \in 1 .. Len(rx) : \/ rx[i] = answer
                                \/ \E j \in 1 .. Len(s.rx) : rx[i] = s.rx[j]
      /\ s.rx # <<>> => rx # <<>> /\ rx[1] = s.rx[1]
      /\ s.rx = <<>> /\ type # "none" => rx # <<>> /\ rx[1] = answer
  <2>1. CASE type = "none"
    BY <1>1, <1>7, <2>1
  <2>2. CASE type # "none"
    BY <1>1, <1>6, <1>7, <2>2, Appended
  <2> QED
    BY <2>1, <2>2
<1>9. PICK granted : granted = (s.granted \/ type = "SUBACK")
  OBVIOUS
<1>10. PICK served : served = IF type \in {"SUBACK", "PUBACK", "PUBCOMP"}
                                 \/ msg.type = "PUBLISH0"
                              THEN s.served \cup {msg.k} ELSE s.served
  OBVIOUS
<1>11. IsRead(s, tx, rx, granted, served, t)
  <2>1. granted \in BOOLEAN
    BY <1>1, <1>9
  <2>2. served \in SUBSET Nat
    <3>1. msg.k \in Nat
      BY <1>3, Constants DEF Msg
    <3> QED
      BY <1>1, <1>10, <3>1
  <2>3. t = [s EXCEPT !.tx = tx, !.rx = rx, !.granted = granted,
               !.served = served]
    BY <1>2, <1>4, <1>7, <1>9, <1>10 DEF ReadsMsg
  <2> QED
    BY <1>1, <1>3, <1>8, <2>1, <2>2, <2>3, ReadIs
<1>12. Data(t)
  <2>1. CASE s.data_cb
    BY <1>11, <2>1 DEF Data, IsRead
  <2>2. CASE ~s.data_cb
    <3>1. /\ ~s.granted
          /\ \A i \in 1 .. Len(s.rx) :
               s.rx[i].type \notin {"PUBLISH0", "PUBLISH1", "PUBLISH2", "SUBACK",
                                    "SUBACK_DENIED"}
          /\ \A i \in 1 .. Len(s.tx) : s.tx[i].type # "SUBSCRIBE"
          /\ \A i \in 1 .. Len(s.ring) : s.ring[i].type # "SUBSCRIBE"
      BY <2>2 DEF Good, Data
    <3>2. msg.type # "SUBSCRIBE"
      <4>1. 1 \in 1 .. Len(s.tx)
        BY <1>1
      <4> QED
        BY <1>3, <3>1, <4>1
    <3>3. ~granted
      BY <1>5, <1>9, <3>1, <3>2
    <3>4. \A i \in 1 .. Len(rx) :
            rx[i].type \notin {"PUBLISH0", "PUBLISH1", "PUBLISH2", "SUBACK",
                               "SUBACK_DENIED"}
      BY <1>5, <1>6, <1>8, <3>1, <3>2
    <3>5. \A i \in 1 .. Len(tx) : tx[i].type # "SUBSCRIBE"
      BY <1>3, <3>1
    <3> QED
      BY <1>11, <3>1, <3>3, <3>4, <3>5 DEF Data, IsRead
  <2> QED
    BY <2>1, <2>2
<1>13. Hand(t)
  <2>1. s.conn
    BY DEF Good, Hand
  <2>2. CASE s.conn_state \notin Connecting
    BY <1>11, <2>1, <2>2 DEF Hand, IsRead
  <2>3. CASE s.conn_state = "MQTT_CONNECTING"
    <3>1. /\ s.nreq + 2 <= MaxReqs /\ ~s.data_cb
          /\ s.rx # <<>> => s.rx[1].type \in Connacks
          /\ s.rx = <<>> => msg.type = "CONNECT"
      BY <1>3, <2>3 DEF Good, Hand, Connecting
    <3>2. rx # <<>> /\ rx[1].type \in Connacks
      BY <1>5, <1>6, <1>8, <3>1 DEF Connacks
    <3> QED
      BY <1>11, <2>1, <2>3, <3>1, <3>2 DEF Hand, IsRead
  <2> QED
    BY <2>2, <2>3 DEF Connecting
<1> QED
  BY <1>11, <1>12, <1>13, ReadAfter

LEMMA ServerPublishesAfter ==
  ASSUME NEW s, Good(s), s.conn, s.granted, s.npub < MaxPub, NEW kind \in Kinds,
         NEW t, t = [s EXCEPT !.npub = s.npub + 1,
                       !.rx = Append(s.rx, [type |-> kind, id |-> s.npub + 1,
                                            k |-> 0])]
  PROVE  After(s, t)
<1>1. s \in State /\ s.rx \in Seq(Msg) /\ s.npub \in 0 .. MaxPub
  BY StateFields DEF Good, Core
<1>2. PICK msg : msg = [type |-> kind, id |-> s.npub + 1, k |-> 0]
  OBVIOUS
<1>3. PICK n : n = s.npub + 1
  OBVIOUS
<1>4. n \in 0 .. MaxPub /\ n \in 0 .. IdMod
  BY <1>1, <1>3, ClientConstants, Constants, SMTT(60)
<1>5. msg \in Msg
  <2>1. kind \in MsgTypes
    BY ClientConstants DEF MsgTypes
  <2>2. 0 \in 0 .. MaxReqs
    BY Constants
  <2>3. msg = [type |-> kind, id |-> n, k |-> 0]
    BY <1>2, <1>3
  <2> QED
    BY <1>4, <2>1, <2>2, <2>3 DEF Msg
<1>6. PICK rx : rx = Append(s.rx, msg)
  OBVIOUS
<1>7. rx \in Seq(Msg)
  BY <1>1, <1>5, <1>6
<1>8. IsRead(s, s.tx, rx, s.granted, s.served, t)
  <2>1. t = [s EXCEPT !.npub = n, !.rx = rx]
    BY <1>2, <1>3, <1>6
  <2> QED
    BY <1>1, <1>4, <1>7, <2>1, PublishedIs
<1>9. s.data_cb
  BY DEF Good, Data
<1>10. Data(t)
  BY <1>8, <1>9 DEF Data, IsRead
<1>11. Hand(t)
  BY <1>8, <1>9 DEF Good, Hand, IsRead
<1> QED
  BY <1>8, <1>10, <1>11, ReadAfter

-----------------------------------------------------------------------------
(***************************************************************************)
(* The inductive invariant.                                                *)
(***************************************************************************)
IInv ==
  /\ Good(m) /\ ~m.nullCall
  /\ OnRequestFail = "ignore" => Timed(m) /\ ~m.nullSend

LEMMA FreshGood == Good(Fresh) /\ ~Fresh.nullCall /\ ~Fresh.nullSend /\ Timed(Fresh)
<1>1. /\ Fresh.timers = 0 /\ Fresh.mem = TRUE /\ Fresh.nullSend = FALSE
      /\ Fresh.nullCall = FALSE /\ Fresh.conn_state = "TCP_DISCONNECTED"
  BY DEF Fresh, Wiped
<1>2. Fresh \in State
  <2>1. [k \in Requests |-> "none"] \in [Requests -> Fate]
    BY DEF Fate
  <2>2. 0 \in Nat /\ 0 \in 0 .. IdMod - 1 /\ 0 \in 0 .. SndBuf
        /\ 0 \in 0 .. MaxPub /\ 0 \in 0 .. MaxReqs
    BY ClientConstants
  <2>3. {} \in SUBSET Nat /\ FALSE \in BOOLEAN /\ TRUE \in BOOLEAN
    OBVIOUS
  <2>4. "none" \in MsgTypes /\ "TCP_DISCONNECTED" \in ConnStates
    BY DEF MsgTypes, ConnStates
  <2> QED
    BY <2>1, <2>2, <2>3, <2>4, Empties, Zenon DEF Fresh, Wiped, State
<1>3. Fresh = Wipe(Fresh)
  BY <1>1 DEF Fresh, Wipe
<1>4. Good(Fresh)
  BY <1>2, <1>3, WipeCore DEF Good
<1> QED
  BY <1>1, <1>4 DEF Timed

LEMMA InitIInv == Init => IInv
  BY FreshGood DEF Init, IInv

(* TCP's memory is set for one handler only.                               *)
LEMMA Handled ==
  ASSUME NEW x, Good(x), NEW mem \in BOOLEAN, NEW s, s = [x EXCEPT !.mem = mem]
  PROVE  Good(s) /\ Unmoved(x, s) /\ s.timers = x.timers
<1>1. x \in State
  BY DEF Good, Core
<1>2. Unmoved(x, s) /\ s.timers = x.timers
  BY <1>1, MemoryIs
<1> QED
  BY <1>2, UnmovedCore DEF Good

LEMMA HandledAfter ==
  ASSUME NEW x, NEW s, Unmoved(x, s), s.timers = x.timers,
         NEW t, After(s, t), NEW u, u = [t EXCEPT !.mem = TRUE]
  PROVE  After(x, u)
<1>1. Good(t)
  BY DEF After, Good
<1>2. Good(u) /\ Unmoved(t, u) /\ u.timers = t.timers
  BY <1>1, Handled
<1> QED
  BY <1>2 DEF After, Good, Unmoved, Timed

(* A call of the client that runs in state s and leaves t: by the          *)
(* application, or by TCP.                                                 *)
Calls(s, t) ==
  \/ s.conn_state = "TCP_DISCONNECTED" /\ t = ClientConnect(s)
  \/ /\ s.conn_state # "TCP_DISCONNECTED"
     /\ s.nreq + (IF s.conn_state = "MQTT_CONNECTED" THEN 0 ELSE 2) < MaxReqs
     /\ \E kind \in Kinds : t = Request(s, kind)
  \/ s.conn_state # "TCP_DISCONNECTED" /\ t = Disconnect(s)
  \/ s.conn_state = "TCP_CONNECTING" /\ t = TcpConnectCb(s)
  \/ s.conn_state # "TCP_DISCONNECTED" /\ t = ErrCb(s)
  \/ /\ s.conn_state # "TCP_DISCONNECTED"
     /\ t = Close(s, "MQTT_CONNECT_DISCONNECTED")
  \/ \E n \in 1 .. Len(s.rx) :
       t = RecvCb([s EXCEPT !.rx = SubSeq(s.rx, n + 1, Len(s.rx))],
                  SubSeq(s.rx, 1, n))
  \/ s.conn /\ \E n \in 1 .. s.unacked : t = SentCb(s, n)
  \/ t = PollCb(s)

(* Any handler: such a call, or the interval timer.                        *)
Handles(s, t) ==
  \/ Calls(s, t)
  \/ s.timers > 0 /\ t = CyclicTimer(s)

CallsWith(x, mem, y) ==
  \E t : Calls([x EXCEPT !.mem = mem], t) /\ y = [t EXCEPT !.mem = TRUE]
TicksWith(x, mem, y) ==
  \E s : /\ s = [x EXCEPT !.mem = mem] /\ s.timers > 0
         /\ y = [CyclicTimer(s) EXCEPT !.mem = TRUE]
HandlesWith(x, mem, y) ==
  \E t : Handles([x EXCEPT !.mem = mem], t) /\ y = [t EXCEPT !.mem = TRUE]

Reads(x, y) ==
  /\ x.tx # <<>> /\ x.conn_state # "TCP_CONNECTING"
  /\ \E type \in Answers(Head(x.tx)) : ReadsMsg(x, Head(x.tx), type, y)
Publishes(x, y) ==
  /\ x.conn /\ x.granted /\ x.npub < MaxPub
  /\ \E kind \in Kinds :
       y = [x EXCEPT !.npub = x.npub + 1,
              !.rx = Append(x.rx, [type |-> kind, id |-> x.npub + 1, k |-> 0])]

(* What a step is, seen from the client: a handler of its own, or a step   *)
(* of the server.                                                          *)
LEMMA UntimedCases ==
  ASSUME Good(m), Untimed
  PROVE  \/ \E mem \in BOOLEAN : CallsWith(m, mem, m')
         \/ Reads(m, m')
         \/ Publishes(m, m')
         \/ m' = m
<1>1. ASSUME NEW mem \in BOOLEAN, NEW s, s = [m EXCEPT !.mem = mem]
      PROVE  /\ s.conn_state = m.conn_state /\ s.conn = m.conn
             /\ s.nreq = m.nreq /\ s.rx = m.rx /\ s.unacked = m.unacked
             /\ s.timers = m.timers
  BY <1>1, Handled DEF Unmoved
<1>2. ASSUME NEW mem \in BOOLEAN, NEW s, s = [m EXCEPT !.mem = mem],
             NEW t, Calls(s, t), m' = [t EXCEPT !.mem = TRUE]
      PROVE  \E mm \in BOOLEAN : CallsWith(m, mm, m')
  BY <1>2 DEF CallsWith
<1>3. CASE AppConnect
  <2>1. PICK mem \in BOOLEAN :
          m' = [ClientConnect([m EXCEPT !.mem = mem]) EXCEPT !.mem = TRUE]
    BY <1>3 DEF AppConnect, Handle
  <2>2. PICK s : s = [m EXCEPT !.mem = mem]
    OBVIOUS
  <2>3. s.conn_state = "TCP_DISCONNECTED"
    BY <1>1, <1>3, <2>2 DEF AppConnect
  <2>4. Calls(s, ClientConnect(s))
    BY <2>3 DEF Calls
  <2> QED
    BY <1>2, <2>1, <2>2, <2>4
<1>4. CASE AppRequest
  <2>1. PICK kind \in Kinds : \E mem \in BOOLEAN :
          m' = [Request([m EXCEPT !.mem = mem], kind) EXCEPT !.mem = TRUE]
    BY <1>4 DEF AppRequest, Handle
  <2>2. PICK mem \in BOOLEAN :
          m' = [Request([m EXCEPT !.mem = mem], kind) EXCEPT !.mem = TRUE]
    BY <2>1
  <2>3. PICK s : s = [m EXCEPT !.mem = mem]
    OBVIOUS
  <2>4. /\ s.conn_state # "TCP_DISCONNECTED"
        /\ s.nreq + (IF s.conn_state = "MQTT_CONNECTED" THEN 0 ELSE 2) < MaxReqs
    BY <1>1, <1>4, <2>3 DEF AppRequest
  <2>5. Calls(s, Request(s, kind))
    BY <2>4 DEF Calls
  <2> QED
    BY <1>2, <2>2, <2>3, <2>5
<1>5. CASE AppDisconnect
  <2>1. PICK mem \in BOOLEAN :
          m' = [Disconnect([m EXCEPT !.mem = mem]) EXCEPT !.mem = TRUE]
    BY <1>5 DEF AppDisconnect, Handle
  <2>2. PICK s : s = [m EXCEPT !.mem = mem]
    OBVIOUS
  <2>3. s.conn_state # "TCP_DISCONNECTED"
    BY <1>1, <1>5, <2>2 DEF AppDisconnect
  <2>4. Calls(s, Disconnect(s))
    BY <2>3 DEF Calls
  <2> QED
    BY <1>2, <2>1, <2>2, <2>4
<1>6. CASE TcpConnected
  <2>1. PICK mem \in BOOLEAN :
          m' = [TcpConnectCb([m EXCEPT !.mem = mem]) EXCEPT !.mem = TRUE]
    BY <1>6 DEF TcpConnected, Handle
  <2>2. PICK s : s = [m EXCEPT !.mem = mem]
    OBVIOUS
  <2>3. s.conn_state = "TCP_CONNECTING"
    BY <1>1, <1>6, <2>2 DEF TcpConnected
  <2>4. Calls(s, TcpConnectCb(s))
    BY <2>3 DEF Calls
  <2> QED
    BY <1>2, <2>1, <2>2, <2>4
<1>7. CASE TcpConnectFails \/ TcpReset
  <2>1. PICK mem \in BOOLEAN :
          m' = [ErrCb([m EXCEPT !.mem = mem]) EXCEPT !.mem = TRUE]
    BY <1>7 DEF TcpConnectFails, TcpReset, Handle
  <2>2. PICK s : s = [m EXCEPT !.mem = mem]
    OBVIOUS
  <2>3. s.conn_state # "TCP_DISCONNECTED"
    BY <1>1, <1>7, <2>2 DEF TcpConnectFails, TcpReset, Good, Core, Linked
  <2>4. Calls(s, ErrCb(s))
    BY <2>3 DEF Calls
  <2> QED
    BY <1>2, <2>1, <2>2, <2>4
<1>8. CASE TcpClosed
  <2>1. PICK mem \in BOOLEAN :
          m' = [Close([m EXCEPT !.mem = mem], "MQTT_CONNECT_DISCONNECTED")
                  EXCEPT !.mem = TRUE]
    BY <1>8 DEF TcpClosed, Handle
  <2>2. PICK s : s = [m EXCEPT !.mem = mem]
    OBVIOUS
  <2>3. s.conn_state # "TCP_DISCONNECTED"
    BY <1>1, <1>8, <2>2 DEF TcpClosed, Good, Core, Linked
  <2>4. Calls(s, Close(s, "MQTT_CONNECT_DISCONNECTED"))
    BY <2>3 DEF Calls
  <2> QED
    BY <1>2, <2>1, <2>2, <2>4
<1>9. CASE TcpReceived
  <2>1. PICK n \in 1 .. Len(m.rx) :
          Handle(LAMBDA x : RecvCb([x EXCEPT !.rx = SubSeq(@, n + 1, Len(@))],
                                   SubSeq(x.rx, 1, n)))
    BY <1>9 DEF TcpReceived
  <2>2. PICK mem \in BOOLEAN :
          m' = [RecvCb([[m EXCEPT !.mem = mem] EXCEPT
                          !.rx = SubSeq([m EXCEPT !.mem = mem].rx, n + 1,
                                        Len([m EXCEPT !.mem = mem].rx))],
                       SubSeq([m EXCEPT !.mem = mem].rx, 1, n)) EXCEPT !.mem = TRUE]
    BY <2>1 DEF Handle
  <2>3. PICK s : s = [m EXCEPT !.mem = mem]
    OBVIOUS
  <2>4. n \in 1 .. Len(s.rx)
    BY <1>1, <2>3
  <2>5. Calls(s, RecvCb([s EXCEPT !.rx = SubSeq(s.rx, n + 1, Len(s.rx))],
                        SubSeq(s.rx, 1, n)))
    BY <2>4 DEF Calls
  <2> QED
    BY <1>2, <2>2, <2>3, <2>5
<1>10. CASE TcpAcked
  <2>1. PICK n \in 1 .. m.unacked : Handle(LAMBDA x : SentCb(x, n))
    BY <1>10 DEF TcpAcked
  <2>2. PICK mem \in BOOLEAN :
          m' = [SentCb([m EXCEPT !.mem = mem], n) EXCEPT !.mem = TRUE]
    BY <2>1 DEF Handle
  <2>3. PICK s : s = [m EXCEPT !.mem = mem]
    OBVIOUS
  <2>4. s.conn /\ n \in 1 .. s.unacked
    BY <1>1, <1>10, <2>3 DEF TcpAcked
  <2>5. Calls(s, SentCb(s, n))
    BY <2>4 DEF Calls
  <2> QED
    BY <1>2, <2>2, <2>3, <2>5
<1>11. CASE TcpPoll
  <2>1. PICK mem \in BOOLEAN :
          m' = [PollCb([m EXCEPT !.mem = mem]) EXCEPT !.mem = TRUE]
    BY <1>11 DEF TcpPoll, Handle
  <2>2. PICK s : s = [m EXCEPT !.mem = mem]
    OBVIOUS
  <2>3. Calls(s, PollCb(s))
    BY <1>1, <2>2 DEF Calls
  <2> QED
    BY <1>2, <2>1, <2>2, <2>3
<1>12. CASE ServerReads
  BY <1>12, Zenon DEF ServerReads, Reads, ReadsMsg
<1>13. CASE ServerPublishes
  BY <1>13 DEF ServerPublishes, Publishes
<1>14. CASE CableCut
  BY <1>14 DEF CableCut
<1> QED
  BY <1>3, <1>4, <1>5, <1>6, <1>7, <1>8, <1>9, <1>10, <1>11, <1>12, <1>13,
     <1>14 DEF Untimed

LEMMA TimerCases ==
  ASSUME Good(m), TimerFires
  PROVE  \E mem \in BOOLEAN : TicksWith(m, mem, m')
<1>1. PICK mem \in BOOLEAN :
        m' = [CyclicTimer([m EXCEPT !.mem = mem]) EXCEPT !.mem = TRUE]
  BY DEF TimerFires, Handle
<1>2. PICK s : s = [m EXCEPT !.mem = mem]
  OBVIOUS
<1>3. s.timers = m.timers /\ m.timers > 0
  BY <1>2, Handled DEF TimerFires
<1> QED
  BY <1>1, <1>2, <1>3 DEF TicksWith

LEMMA NextCases ==
  ASSUME Good(m), Next
  PROVE  \/ \E mem \in BOOLEAN : HandlesWith(m, mem, m')
         \/ Reads(m, m')
         \/ Publishes(m, m')
         \/ m' = m
<1>1. \A mem : CallsWith(m, mem, m') => HandlesWith(m, mem, m')
  <2>1. \A s, t : Calls(s, t) => Handles(s, t)
    BY DEF Handles
  <2> QED
    BY <2>1 DEF CallsWith, HandlesWith
<1>2. \A mem : TicksWith(m, mem, m') => HandlesWith(m, mem, m')
  BY DEF TicksWith, HandlesWith, Handles
<1> QED
  BY <1>1, <1>2, UntimedCases, TimerCases DEF Next

LEMMA HandlesAfter ==
  ASSUME NEW s, Good(s), NEW t, Handles(s, t)
  PROVE  After(s, t)
<1>1. CASE s.conn_state = "TCP_DISCONNECTED" /\ t = ClientConnect(s)
  BY <1>1, ClientConnectAfter
<1>2. CASE /\ s.conn_state # "TCP_DISCONNECTED"
           /\ s.nreq + (IF s.conn_state = "MQTT_CONNECTED" THEN 0 ELSE 2) < MaxReqs
           /\ \E kind \in Kinds : t = Request(s, kind)
  BY <1>2, RequestAfter
<1>3. CASE s.conn_state # "TCP_DISCONNECTED" /\ t = Disconnect(s)
  BY <1>3, DisconnectAfter
<1>4. CASE s.conn_state = "TCP_CONNECTING" /\ t = TcpConnectCb(s)
  BY <1>4, TcpConnectCbAfter
<1>5. CASE t = ErrCb(s)
  BY <1>5, ErrCbAfter
<1>6. CASE t = Close(s, "MQTT_CONNECT_DISCONNECTED")
  BY <1>6, CloseAfter
<1>7. ASSUME NEW n \in 1 .. Len(s.rx),
             t = RecvCb([s EXCEPT !.rx = SubSeq(s.rx, n + 1, Len(s.rx))],
                        SubSeq(s.rx, 1, n))
      PROVE  After(s, t)
  BY <1>7, RecvCbAfter DEF Good
<1>8. ASSUME s.conn, NEW n \in 1 .. s.unacked, t = SentCb(s, n)
      PROVE  After(s, t)
  BY <1>8, SentCbAfter DEF Good
<1>9. CASE t = PollCb(s)
  BY <1>9, PollCbAfter
<1>10. CASE s.timers > 0 /\ t = CyclicTimer(s)
  BY <1>10, CyclicTimerAfter DEF Good
<1> QED
  BY <1>1, <1>2, <1>3, <1>4, <1>5, <1>6, <1>7, <1>8, <1>9, <1>10 DEF Handles, Calls

(* What any step of the client does, its environment included.             *)
LEMMA NextAfter ==
  ASSUME Good(m), Next
  PROVE  After(m, m') \/ m' = m
<1>1. ASSUME NEW mem \in BOOLEAN, HandlesWith(m, mem, m') PROVE After(m, m')
  <2>1. PICK s : s = [m EXCEPT !.mem = mem]
    OBVIOUS
  <2>2. PICK t : Handles(s, t) /\ m' = [t EXCEPT !.mem = TRUE]
    BY <1>1, <2>1 DEF HandlesWith
  <2>3. Good(s) /\ Unmoved(m, s) /\ s.timers = m.timers
    BY <2>1, Handled
  <2>4. After(s, t)
    BY <2>2, <2>3, HandlesAfter
  <2> QED
    BY <2>2, <2>3, <2>4, HandledAfter
<1>2. CASE Reads(m, m')
  BY <1>2, ServerReadsAfter DEF Reads
<1>3. CASE Publishes(m, m')
  BY <1>3, ServerPublishesAfter DEF Publishes
<1> QED
  BY <1>1, <1>2, <1>3, NextCases

LEMMA StepIInv == IInv /\ [Next]_vars => IInv'
<1> SUFFICES ASSUME IInv, [Next]_vars PROVE IInv'
  OBVIOUS
<1>1. CASE UNCHANGED vars
  <2>1. m' = m
    BY <1>1 DEF vars
  <2> QED
    BY <2>1 DEF IInv
<1>2. CASE Next
  <2>1. After(m, m') \/ m' = m
    BY <1>2, NextAfter DEF IInv
  <2> QED
    BY <2>1 DEF IInv, After, Good
<1> QED
  BY <1>1, <1>2

LEMMA SpecIInv == Spec => []IInv
  BY InitIInv, StepIInv, PTL DEF Spec

-----------------------------------------------------------------------------
(***************************************************************************)
(* The theorems.                                                           *)
(***************************************************************************)
(* The remaining times of the queue, each between none and a full timeout. *)
LEMMA DiffsBounded ==
  ASSUME NEW pend \in Seq(PendReq), Clock(pend, 0), NEW i \in 1 .. Len(pend)
  PROVE  pend[i].timeout_diff \in 0 .. MQTT_REQ_TIMEOUT
<1>1. /\ Len(pend) \in Nat
      /\ \A j \in 1 .. Len(pend) : /\ pend[j].timeout_diff \in Int
                                   /\ pend[j].age \in Nat
  BY Entries
<1>2. 1 \in 1 .. Len(pend) /\ pend # <<>> /\ MQTT_REQ_TIMEOUT \in Nat
  BY <1>1, Constants
<1>3. /\ pend[1].timeout_diff >= 0
      /\ pend[1].timeout_diff + pend[1].age = MQTT_REQ_TIMEOUT + 0
  BY <1>2 DEF Clock
<1>4. /\ pend[1].timeout_diff \in Int /\ pend[1].age \in Nat
  BY <1>1, <1>2
<1>5. CASE i = 1
  BY <1>2, <1>3, <1>4, <1>5
<1>6. CASE i # 1
  <2>1. i \in 2 .. Len(pend) /\ i - 1 \in 1 .. Len(pend) /\ 1 <= i - 1 /\ i - 1 <= i
    BY <1>1, <1>6
  <2>2. pend[i].timeout_diff = pend[i - 1].age - pend[i].age
    BY <2>1 DEF Clock
  <2>3. pend[i].age <= pend[i - 1].age /\ pend[i - 1].age <= pend[1].age
    BY <1>2, <2>1 DEF Clock
  <2>4. pend[i].age \in Nat /\ pend[i - 1].age \in Nat
    BY <1>1, <2>1
  <2> QED
    BY <1>2, <1>3, <1>4, <2>2, <2>3, <2>4
<1> QED
  BY <1>5, <1>6

LEMMA MessagesTyped ==
  ASSUME NEW a \in Seq(Msg), NEW b \in Seq(Msg), NEW c \in Seq(Msg),
         NEW msg \in ToSet(a \o b \o c)
  PROVE  msg \in Msg
<1>1. a \o b \o c \in Seq(Msg)
  OBVIOUS
<1> QED
  BY <1>1 DEF ToSet

(* Every field of the client and of its connection stays in its range:     *)
(* the queue and the ring within the limits of mqtt_opts.h, what is        *)
(* unacknowledged within TCP's send buffer, every remaining time between   *)
(* 0 and MQTT_REQ_TIMEOUT, and a pcb exists just while connected.          *)
THEOREM TypeCorrect == Spec => []TypeOK
<1>1. ASSUME IInv PROVE TypeOK
  <2>1. Core(m, 0)
    BY <1>1 DEF IInv, Good
  <2>2. m \in State /\ Linked(m) /\ Room(m) /\ Clock(m.pend, 0)
    BY <2>1 DEF Core
  <2>3. /\ m.conn_state \in ConnStates /\ m.pkt_id_seq \in 0 .. IdMod - 1
        /\ m.cyclic_tick \in Nat /\ m.server_watchdog \in Nat
        /\ m.timers \in Nat /\ m.unacked \in 0 .. SndBuf
        /\ m.pend \in Seq(PendReq) /\ m.ring \in Seq(Msg) /\ m.tx \in Seq(Msg)
        /\ m.rx \in Seq(Msg)
    BY <2>2, StateFields
  <2>4. \A r \in ToSet(m.pend) : r.timeout_diff \in 0 .. MQTT_REQ_TIMEOUT
    <3> SUFFICES ASSUME NEW r \in ToSet(m.pend)
                 PROVE  r.timeout_diff \in 0 .. MQTT_REQ_TIMEOUT
      OBVIOUS
    <3>1. PICK i \in DOMAIN m.pend : r = m.pend[i]
      BY DEF ToSet
    <3>2. i \in 1 .. Len(m.pend)
      BY <2>3
    <3> QED
      BY <2>2, <2>3, <3>1, <3>2, DiffsBounded
  <2>5. \A msg \in ToSet(m.ring \o m.tx \o m.rx) :
          msg.id \in 0 .. IdMod /\ msg.k \in 0 .. MaxReqs
    BY <2>3, MessagesTyped DEF Msg
  <2> QED
    BY <2>2, <2>3, <2>4, <2>5 DEF TypeOK, Linked, Room, ConnStates
<1> QED
  BY <1>1, SpecIInv, PTL

(* The interval timer of mqtt_cyclic_timer: exactly one is pending while   *)
(* the client does its handshake or is connected, and none otherwise,      *)
(* provided no request callback disconnects (MqttTwoTimers shows what      *)
(* happens when one does).                                                 *)
THEOREM TimerUnique ==
  ASSUME OnRequestFail = "ignore"
  PROVE  Spec => []OneTimer
<1>1. IInv => OneTimer
  BY DEF IInv, Timed, OneTimer
<1> QED
  BY <1>1, SpecIInv, PTL

LEMMA PrefixClock ==
  ASSUME NEW pend \in Seq(PendReq), Clock(pend, 0), NEW i \in 1 .. Len(pend),
         NEW p, p = SubSeq(pend, 1, i)
  PROVE  TotalDiff(p) + pend[i].age = MQTT_REQ_TIMEOUT
<1>1. /\ p \in Seq(PendReq) /\ Len(p) = i
      /\ \A j \in 1 .. i : p[j] = pend[j]
  OBVIOUS
<1>2. i \in Nat /\ i >= 1 /\ 1 \in 1 .. i /\ i \in 1 .. i /\ Len(pend) \in Nat
      /\ MQTT_REQ_TIMEOUT \in Int
  BY Constants
<1>3. p # <<>> /\ pend # <<>>
  BY <1>1, <1>2
<1>4. p[1].timeout_diff + p[1].age = MQTT_REQ_TIMEOUT
  <2>1. pend[1].timeout_diff + pend[1].age = MQTT_REQ_TIMEOUT + 0
    BY <1>3 DEF Clock
  <2>2. p[1] = pend[1]
    BY <1>1, <1>2
  <2> QED
    BY <1>2, <2>1, <2>2
<1>5. ASSUME NEW j \in 2 .. Len(p)
      PROVE  p[j].timeout_diff = p[j - 1].age - p[j].age
  <2>1. j \in 2 .. Len(pend) /\ j \in 1 .. i /\ j - 1 \in 1 .. i
    BY <1>1, <1>2
  <2>2. p[j] = pend[j] /\ p[j - 1] = pend[j - 1]
    BY <1>1, <2>1
  <2>3. pend[j].timeout_diff = pend[j - 1].age - pend[j].age
    BY <2>1 DEF Clock
  <2> QED
    BY <2>2, <2>3
<1>6. TotalDiff(p) + p[Len(p)].age = MQTT_REQ_TIMEOUT
  BY <1>1, <1>2, <1>3, <1>4, <1>5, TotalDiffSum
<1> QED
  BY <1>1, <1>2, <1>6

(* Every pending request has its own exact deadline: the relative timeouts *)
(* of pend_req_queue up to it add up to what is left of MQTT_REQ_TIMEOUT   *)
(* at its age, whichever requests mqtt_take_request took out before it,    *)
(* and whatever a callback did while the interval elapsed.                 *)
THEOREM ClockExact == Spec => []RequestClock
<1>1. ASSUME IInv PROVE RequestClock
  <2>1. m.pend \in Seq(PendReq) /\ Clock(m.pend, 0)
    BY <1>1, StateFields DEF IInv, Good, Core
  <2> SUFFICES ASSUME NEW i \in DOMAIN m.pend
               PROVE  TotalDiff(SubSeq(m.pend, 1, i)) + m.pend[i].age
                        = MQTT_REQ_TIMEOUT
    BY DEF RequestClock
  <2>2. i \in 1 .. Len(m.pend)
    BY <2>1
  <2> QED
    BY <2>1, <2>2, PrefixClock
<1> QED
  BY <1>1, SpecIInv, PTL

(* The queue holds exactly the requests that still wait for their end, and *)
(* mqtt_close leaves none behind: no callback is lost, or called for a     *)
(* connection that has ended.                                              *)
THEOREM NoRequestOrphaned == Spec => []NoOrphanRequest
<1>1. ASSUME IInv PROVE NoOrphanRequest
  <2>1. /\ m.pend \in Seq(PendReq) /\ Queued(m.pend, m.req, m.nreq) /\ Idle(m)
    BY <1>1, StateFields DEF IInv, Good, Core
  <2>2. {k \in Requests : m.req[k] = "pending"} = {r.k : r \in ToSet(m.pend)}
    <3>1. ASSUME NEW k \in Requests, m.req[k] = "pending"
          PROVE  k \in {r.k : r \in ToSet(m.pend)}
      <4>1. PICK i \in 1 .. Len(m.pend) : m.pend[i].k = k
        BY <2>1, <3>1 DEF Queued
      <4>2. m.pend[i] \in ToSet(m.pend)
        BY <2>1 DEF ToSet
      <4> QED
        BY <4>1, <4>2
    <3>2. ASSUME NEW r \in ToSet(m.pend)
          PROVE  r.k \in Requests /\ m.req[r.k] = "pending"
      <4>1. PICK i \in DOMAIN m.pend : r = m.pend[i]
        BY DEF ToSet
      <4>2. i \in 1 .. Len(m.pend)
        BY <2>1
      <4> QED
        BY <2>1, <4>1, <4>2 DEF Queued
    <3> QED
      BY <3>1, <3>2
  <2> QED
    BY <2>1, <2>2 DEF NoOrphanRequest, Idle
<1> QED
  BY <1>1, SpecIInv, PTL

(* On every connection CONNECT is the first message out, whatever is       *)
(* published while it is opened: the ring starts empty, CONNECT is put in  *)
(* first and nothing but mqtt_output_send takes out of it.                 *)
THEOREM ConnectIsFirst == Spec => []ConnectFirst
<1>1. IInv => ConnectFirst
  BY DEF IInv, Good, Core, First, ConnectFirst
<1> QED
  BY <1>1, SpecIInv, PTL

(* mqtt_output_send is never called without a pcb, and no publish reaches  *)
(* a client whose data_cb is NULL, provided no request callback            *)
(* disconnects: the callback is set before SUBSCRIBE is sent, and a server *)
(* publishes only what it granted.                                         *)
THEOREM NullNeverUsed ==
  ASSUME OnRequestFail = "ignore"
  PROVE  Spec => []NoNullUse
<1>1. IInv => NoNullUse
  BY DEF IInv, NoNullUse
<1> QED
  BY <1>1, SpecIInv, PTL

-----------------------------------------------------------------------------
(***************************************************************************)
(* Keep-alive on a healthy connection.                                     *)
(***************************************************************************)
(* The keep-alive period suits the interval of the timer: while the client *)
(* has counted c intervals and not yet sent PINGREQ, the watchdog, which   *)
(* counts no more, stays within one and a half periods at the next one.    *)
PingInTime ==
  KeepAlive # 0 =>
    \A c \in Nat :
      (c - 1) * MQTT_CYCLIC_TIMER_INTERVAL < KeepAlive
        => (c + 1) * MQTT_CYCLIC_TIMER_INTERVAL <= KeepAlive + KeepAlive \div 2

(* Any period of four intervals, less two seconds, does.                   *)
LEMMA LongPeriod ==
  ASSUME 4 * MQTT_CYCLIC_TIMER_INTERVAL - 2 <= KeepAlive
  PROVE  PingInTime
<1> SUFFICES ASSUME NEW c \in Nat,
                    (c - 1) * MQTT_CYCLIC_TIMER_INTERVAL < KeepAlive
             PROVE  (c + 1) * MQTT_CYCLIC_TIMER_INTERVAL
                      <= KeepAlive + KeepAlive \div 2
  BY DEF PingInTime
<1>1. MQTT_CYCLIC_TIMER_INTERVAL \in Nat /\ KeepAlive \in Nat
  BY Constants
<1>2. PICK before : before = (c - 1) * MQTT_CYCLIC_TIMER_INTERVAL
  OBVIOUS
<1>3. before \in Int
  BY <1>1, <1>2
<1>4. (c + 1) * MQTT_CYCLIC_TIMER_INTERVAL = before + 2 * MQTT_CYCLIC_TIMER_INTERVAL
  BY <1>1, <1>2
<1>5. 2 * MQTT_CYCLIC_TIMER_INTERVAL - 1 <= KeepAlive \div 2
  BY <1>1
<1>6. KeepAlive \div 2 \in Int
  BY <1>1
<1> QED
  BY <1>1, <1>2, <1>3, <1>4, <1>5, <1>6

(* Something is to be sent or acknowledged.                                *)
Busy(s) == s.ring # <<>> \/ s.unacked > 0

(* While nothing is under way the watchdog counts no more than the counter *)
(* of keep-alive, and that one is not past the period.                     *)
Healthy(s) ==
  s.conn_state = "MQTT_CONNECTED" =>
    /\ (s.cyclic_tick - 1) * MQTT_CYCLIC_TIMER_INTERVAL < KeepAlive
    /\ s.server_watchdog <= s.cyclic_tick \/ Busy(s)

Counted(s, t) ==
  t.cyclic_tick = s.cyclic_tick /\ t.server_watchdog = s.server_watchdog
Steady(s, t) ==
  t.conn_state = s.conn_state /\ Counted(s, t) /\ (Busy(s) => Busy(t))
Heard(s, t) ==
  /\ t.server_watchdog = 0
  /\ \/ t.cyclic_tick = 0
     \/ s.conn_state = "MQTT_CONNECTED" /\ t.cyclic_tick = s.cyclic_tick

(* A call keeps the counters of a connection, or resets the watchdog; when *)
(* it ends the connection it leaves them as they are, or wiped.            *)
Held(s, t) ==
  /\ t.conn_state = "MQTT_CONNECTED" => Steady(s, t) \/ Heard(s, t)
  /\ s.conn_state = "MQTT_CONNECTED" /\ t.conn_state # "MQTT_CONNECTED" =>
       \/ Counted(s, t)
       \/ t.cyclic_tick = 0 /\ t.server_watchdog = 0

LEMMA SteadyHeld ==
  ASSUME NEW s, NEW t, Steady(s, t) PROVE Held(s, t)
  BY DEF Held, Steady

LEMMA HeldHealthy ==
  ASSUME KeepAlive # 0, NEW s \in State, Healthy(s), NEW t \in State, Held(s, t)
  PROVE  Healthy(t)
<1> SUFFICES ASSUME t.conn_state = "MQTT_CONNECTED"
             PROVE  /\ (t.cyclic_tick - 1) * MQTT_CYCLIC_TIMER_INTERVAL < KeepAlive
                    /\ t.server_watchdog <= t.cyclic_tick \/ Busy(t)
  BY DEF Healthy
<1>1. CASE Steady(s, t)
  BY <1>1 DEF Steady, Counted, Healthy
<1>2. CASE Heard(s, t)
  <2>1. /\ MQTT_CYCLIC_TIMER_INTERVAL \in Nat /\ KeepAlive \in Nat
        /\ t.cyclic_tick \in Nat /\ t.server_watchdog = 0
    BY <1>2, Constants, StateFields DEF Heard
  <2>2. CASE t.cyclic_tick = 0
    BY <2>1, <2>2
  <2>3. CASE s.conn_state = "MQTT_CONNECTED" /\ t.cyclic_tick = s.cyclic_tick
    BY <2>1, <2>3 DEF Healthy
  <2> QED
    BY <1>2, <2>2, <2>3 DEF Heard
<1> QED
  BY <1>1, <1>2 DEF Held

LEMMA SendSteady ==
  ASSUME NEW s \in State, NEW t, t = Send(s)
  PROVE  Steady(s, t)
<1>1. t.conn_state = s.conn_state /\ Counted(s, t)
  BY SendFields DEF Counted
<1>2. CASE t = [s EXCEPT !.nullSend = TRUE]
  BY <1>1, <1>2 DEF Steady, Busy, State
<1>3. CASE t = s
  BY <1>1, <1>3 DEF Steady
<1>4. ASSUME NEW n \in 1 .. Len(s.ring),
             t = [s EXCEPT
                   !.ring = SubSeq(s.ring, n + 1, Len(s.ring)),
                   !.tx = s.tx \o SubSeq(s.ring, 1, n),
                   !.unacked = s.unacked + n,
                   !.firstOut = IF s.firstOut = "none" THEN s.ring[1].type
                                ELSE s.firstOut]
      PROVE  Steady(s, t)
  <2>1. t.unacked = s.unacked + n
    BY <1>4 DEF State
  <2>2. s.unacked \in Nat /\ n >= 1 /\ n \in Nat
    <3>1. s.unacked \in 0 .. SndBuf /\ SndBuf \in Nat /\ s.ring \in Seq(Msg)
      BY StateFields, Constants
    <3> QED
      BY <3>1
  <2> QED
    BY <1>1, <2>1, <2>2 DEF Steady, Busy
<1> QED
  BY <1>2, <1>3, <1>4, SendCases

(* With memory and room, something in the ring is sent.                    *)
LEMMA SendSends ==
  ASSUME NEW s \in State, s.conn, s.mem, s.unacked = 0, s.ring # <<>>
  PROVE  Send(s) # s
<1>1. s.ring \in Seq(Msg) /\ SndBuf \in Nat /\ SndBuf > 0
  BY StateFields, Constants
<1>2. PICK n : n = IF SndBuf - s.unacked < Len(s.ring) THEN SndBuf - s.unacked
                   ELSE Len(s.ring)
  OBVIOUS
<1>3. n \in Nat /\ n # 0
  BY <1>1, <1>2
<1>4. Send(s).unacked = s.unacked + n
  BY <1>2, <1>3 DEF Send, State
<1> QED
  BY <1>3, <1>4

LEMMA SteadyTransitive ==
  ASSUME NEW s, NEW t, NEW u, Steady(s, t), Steady(t, u)
  PROVE  Steady(s, u)
  BY DEF Steady, Counted

LEMMA RequestSteady ==
  ASSUME NEW s \in State, NEW kind \in AskKinds, s.nreq < MaxReqs,
         NEW t, t = Request(s, kind)
  PROVE  Steady(s, t)
<1>1. CASE t = s
  BY <1>1 DEF Steady, Counted
<1>2. CASE t = Numbered(s, kind)
  <2>1. IsNumbered(s, kind, t)
    BY <1>2, NumberedIs
  <2> QED
    BY <2>1 DEF IsNumbered, SameLink, Steady, Counted, Busy
<1>3. CASE t = Send(Append1(Enqueued(s, kind), NewMsg(s, kind)))
  <2>1. PICK e : e = Enqueued(s, kind)
    OBVIOUS
  <2>2. PICK x : x = NewMsg(s, kind)
    OBVIOUS
  <2>3. PICK a : a = Append1(e, x)
    OBVIOUS
  <2>4. IsEnqueued(s, kind, e) /\ x \in Msg
    BY <2>1, <2>2, EnqueuedIs, NewMsgType
  <2>5. e \in State /\ Steady(s, e)
    BY <2>4 DEF IsEnqueued, SameLink, Steady, Counted, Busy
  <2>6. /\ a \in State /\ a.ring = Append(e.ring, x)
        /\ a.conn_state = e.conn_state /\ Counted(e, a)
    BY <2>3, <2>4, <2>5, Append1Fields DEF Counted
  <2>7. a.ring # <<>>
    <3>1. e.ring \in Seq(Msg)
      BY <2>5, StateFields
    <3> QED
      BY <2>4, <2>6, <3>1
  <2>8. Steady(e, a)
    BY <2>6, <2>7 DEF Steady, Busy
  <2>9. Steady(a, t)
    BY <1>3, <2>1, <2>2, <2>3, <2>6, SendSteady
  <2> QED
    BY <2>5, <2>8, <2>9, SteadyTransitive
<1> QED
  BY <1>1, <1>2, <1>3, RequestCases

(* A connection that ends: the counters stay, until mqtt_client_connect    *)
(* wipes the client.                                                       *)
Zeroed(t) == t.cyclic_tick = 0 /\ t.server_watchdog = 0

LEMMA ConnectZeroes ==
  ASSUME NEW s \in State, s.conn_state = "TCP_DISCONNECTED",
         NEW t, t = ClientConnect(s)
  PROVE  Zeroed(t)
<1>1. PICK w : w = Wipe(s)
  OBVIOUS
<1>2. w \in State /\ Zeroed(w)
  <2>1. w \in State
    BY <1>1, WipeType
  <2> QED
    BY <1>1, <2>1 DEF Wipe, Wiped, Zeroed
<1>3. CASE t = w
  BY <1>2, <1>3
<1>4. CASE t = Append1(Opened(w), ConnectMsg)
  <2>1. PICK o : o = Opened(w)
    OBVIOUS
  <2>2. o \in State
    BY <1>1, <2>1, OpenedIs
  <2>3. Zeroed(o)
    BY <1>2, <2>1 DEF Opened, State, Zeroed
  <2> QED
    BY <1>4, <2>1, <2>2, <2>3, ConnectMsgType, Append1Fields DEF Zeroed
<1> QED
  BY <1>1, <1>3, <1>4, ClientConnectCases

LEMMA CloseCounters ==
  ASSUME NEW s \in State, NEW reason,
         s.conn_state = "TCP_DISCONNECTED" \/ reason # "MQTT_CONNECT_ACCEPTED",
         NEW t, t = Close(s, reason)
  PROVE  Counted(s, t) \/ Zeroed(t)
<1>1. PICK c : c = Closed(s)
  OBVIOUS
<1>2. c \in State /\ Counted(s, c)
  <2>1. IsClosed(s, c)
    BY <1>1, ClosedIs
  <2> QED
    BY <2>1 DEF IsClosed, Counted
<1>3. PICK u : u = [c EXCEPT !.conn_state = "TCP_DISCONNECTED"]
  OBVIOUS
<1>4. u \in State /\ Counted(s, u) /\ u.conn_state = "TCP_DISCONNECTED"
  <2>1. "TCP_DISCONNECTED" \in ConnStates
    BY DEF ConnStates
  <2>2. u \in State
    BY <1>2, <1>3, <2>1, ZenonT(60) DEF State
  <2> QED
    BY <1>2, <1>3, <2>2 DEF Counted, State
<1>5. t = c \/ t = u \/ t = ClientConnect(u)
  <2>1. CASE s.conn_state = "TCP_DISCONNECTED"
    BY <1>1, <2>1 DEF Close, Closed
  <2>2. CASE s.conn_state # "TCP_DISCONNECTED"
    <3>1. t = ConnectCb(u, reason)
      BY <1>1, <1>3, <2>2 DEF Close, Closed
    <3> QED
      BY <2>2, <3>1 DEF ConnectCb
  <2> QED
    BY <2>1, <2>2
<1> QED
  BY <1>2, <1>4, <1>5, ConnectZeroes

LEMMA DownHeld ==
  ASSUME NEW s, NEW t, t.conn_state # "MQTT_CONNECTED",
         Counted(s, t) \/ Zeroed(t)
  PROVE  Held(s, t)
  BY DEF Held, Zeroed

LEMMA ErrCbHeld ==
  ASSUME NEW s, Good(s), NEW t, t = ErrCb(s)
  PROVE  Held(s, t)
<1>1. PICK l : l = [s EXCEPT !.conn = FALSE]
  OBVIOUS
<1>2. s \in State
  BY DEF Good, Core
<1>3. /\ l \in State /\ l.pend = s.pend /\ l.req = s.req /\ l.nreq = s.nreq
      /\ l.ring = s.ring /\ l.firstOut = s.firstOut
  BY <1>1, <1>2, LostIs
<1>4. Closable(l)
  <2>1. Closable(s)
    BY CoreClosable DEF Good
  <2> QED
    BY <1>3, <2>1 DEF Closable
<1>5. t = Close(l, "MQTT_CONNECT_DISCONNECTED")
  BY <1>1 DEF ErrCb
<1>6. t.conn_state # "MQTT_CONNECTED"
  <2>1. Down(l, t)
    BY <1>4, <1>5, CloseDown
  <2> QED
    BY <2>1 DEF Down
<1>7. Counted(l, t) \/ Zeroed(t)
  BY <1>3, <1>5, CloseCounters
<1>8. Counted(s, l)
  BY <1>1, <1>2 DEF Counted, State
<1>9. Counted(s, t) \/ Zeroed(t)
  BY <1>7, <1>8 DEF Counted
<1> QED
  BY <1>6, <1>9, DownHeld

LEMMA CloseHeld ==
  ASSUME NEW s, Closable(s), NEW reason, reason # "MQTT_CONNECT_ACCEPTED",
         NEW t, t = Close(s, reason)
  PROVE  t.conn_state # "MQTT_CONNECTED" /\ Held(s, t)
<1>1. Down(s, t)
  BY CloseDown
<1>2. t.conn_state # "MQTT_CONNECTED"
  BY <1>1 DEF Down
<1>3. Counted(s, t) \/ Zeroed(t)
  BY CloseCounters DEF Closable
<1> QED
  BY <1>2, <1>3, DownHeld

LEMMA DisconnectHeld ==
  ASSUME NEW s, Good(s), s.conn_state # "TCP_DISCONNECTED", NEW t, t = Disconnect(s)
  PROVE  Held(s, t)
<1>1. s \in State /\ "TCP_DISCONNECTED" \in ConnStates
  BY DEF Good, Core, ConnStates
<1>2. t.conn_state # "MQTT_CONNECTED"
  BY DisconnectCore, CoreClosable DEF Good
<1>3. PICK d : d = [s EXCEPT !.conn_state = "TCP_DISCONNECTED"]
  OBVIOUS
<1>4. d \in State
  BY <1>1, <1>3, ZenonT(60) DEF State
<1>5. Counted(s, d) /\ d.conn_state = "TCP_DISCONNECTED"
  BY <1>1, <1>3 DEF Counted, State
<1>6. t = Close(d, "MQTT_CONNECT_ACCEPTED")
  BY <1>3 DEF Disconnect
<1>7. Counted(d, t) \/ Zeroed(t)
  BY <1>4, <1>5, <1>6, CloseCounters
<1>8. Counted(s, t) \/ Zeroed(t)
  BY <1>5, <1>7 DEF Counted
<1> QED
  BY <1>2, <1>8, DownHeld

(* What is received and acknowledged resets the watchdog.                  *)
LEMMA RecvCbHeld ==
  ASSUME KeepAlive # 0, OnRequestFail = "ignore",
         NEW s, Good(s), NEW n \in 1 .. Len(s.rx),
         NEW t, t = RecvCb([s EXCEPT !.rx = SubSeq(s.rx, n + 1, Len(s.rx))],
                           SubSeq(s.rx, 1, n))
  PROVE  Held(s, t)
<1>1. s \in State /\ Core(s, 0) /\ Data(s) /\ Hand(s)
  BY DEF Good, Core
<1>2. PICK r : r = [s EXCEPT !.rx = SubSeq(s.rx, n + 1, Len(s.rx))]
  OBVIOUS
<1>3. PICK msgs : msgs = SubSeq(s.rx, 1, n)
  OBVIOUS
<1>4. IsReceiving(s, n, r)
  BY <1>1, <1>2, ReceivingIs
<1>5. /\ Core(r, 0) /\ Data(r) /\ Arriving(r, msgs)
      /\ s.conn_state \in {"MQTT_CONNECTING", "MQTT_CONNECTED"}
  BY <1>1, <1>2, <1>3, ReceivingArrives
<1>6. ParseEnds(r, ParseIncoming(r, msgs))
  BY <1>5, ParseIncomingCore
<1>7. PICK closed : /\ closed = (IF ParseIncoming(r, msgs).status = "MQTT_CONNECT_ACCEPTED"
                                  THEN ParseIncoming(r, msgs).st
                                  ELSE Close(ParseIncoming(r, msgs).st,
                                             ParseIncoming(r, msgs).status))
                     /\ t = [closed EXCEPT !.server_watchdog = 0]
  BY <1>2, <1>3 DEF RecvCb
<1>8. ASSUME NEW u, ParseIncoming(r, msgs) = Continue(u), Step(r, u)
      PROVE  Held(s, t)
  <2>1. closed = u
    BY <1>7, <1>8, ContinueIs
  <2>2. r.conn_state # "TCP_DISCONNECTED"
    BY <1>4, <1>5 DEF IsReceiving
  <2>3. u \in State /\ u.conn_state = "MQTT_CONNECTED" /\ Ticks(r, u)
    BY <1>8, <2>2 DEF Step, Core
  <2>4. /\ t.server_watchdog = 0 /\ t.cyclic_tick = u.cyclic_tick
        /\ t.conn_state = u.conn_state
    <3>1. t = [u EXCEPT !.server_watchdog = 0]
      BY <1>7, <2>1
    <3> QED
      BY <2>3, <3>1, WatchdogResetIs
  <2>5. Heard(s, t)
    BY <1>4, <2>3, <2>4 DEF Ticks, Heard, IsReceiving
  <2> QED
    BY <2>3, <2>4, <2>5 DEF Held
<1>9. ASSUME ParseIncoming(r, msgs) = Refused(r), r.conn_state = "MQTT_CONNECTING"
      PROVE  Held(s, t)
  <2>1. closed = Close(r, "MQTT_CONNECT_REFUSED")
    BY <1>7, <1>9, RefusedIs
  <2>2. Down(r, closed)
    BY <1>5, <1>9, <2>1, CloseCore, CoreClosable
  <2>3. closed \in State /\ closed.conn_state # "MQTT_CONNECTED"
    BY <2>2 DEF Down, Core
  <2>4. t.conn_state = closed.conn_state
    BY <1>7, <2>3, WatchdogResetIs
  <2>5. s.conn_state = "MQTT_CONNECTING"
    BY <1>4, <1>9 DEF IsReceiving
  <2> QED
    BY <2>3, <2>4, <2>5 DEF Held
<1> QED
  BY <1>6, <1>8, <1>9 DEF ParseEnds

LEMMA SentCbHeld ==
  ASSUME NEW s, Good(s), s.conn, NEW n \in 1 .. s.unacked, NEW t, t = SentCb(s, n)
  PROVE  Held(s, t)
<1>1. s \in State /\ Core(s, 0) /\ Data(s) /\ Hand(s)
  BY DEF Good, Core
<1>2. s.unacked - n \in 0 .. SndBuf
  <2>1. s.unacked \in 0 .. SndBuf /\ SndBuf \in Nat
    BY <1>1, StateFields, Constants
  <2> QED
    BY <2>1
<1>3. PICK k : k = s.unacked - n
  OBVIOUS
<1>4. PICK a : a = [s EXCEPT !.unacked = k]
  OBVIOUS
<1>5. k \in 0 .. SndBuf /\ IsAcked(s, k, 0, a)
  BY <1>1, <1>2, <1>3, <1>4, AckedIs
<1>6. PICK b : b = [a EXCEPT !.cyclic_tick = 0, !.server_watchdog = 0]
  OBVIOUS
<1>7. CASE s.conn_state # "MQTT_CONNECTED"
  <2>1. t = a
    BY <1>3, <1>4, <1>7 DEF SentCb
  <2> QED
    BY <1>5, <1>7, <2>1 DEF IsAcked, Held
<1>8. CASE s.conn_state = "MQTT_CONNECTED"
  <2>1. t = Send(CompleteQos0(b))
    BY <1>3, <1>4, <1>6, <1>8 DEF SentCb
  <2>2. a \in State /\ a.unacked = k /\ a.conn
    BY <1>5 DEF IsAcked
  <2>3. IsAcked(a, k, 0, b) /\ Zeroed(b)
    BY <1>5, <1>6, <2>2, TicksResetIs DEF Zeroed
  <2>4. Done(s, a)
    BY <1>1, <1>5, AckedDone
  <2>5. Core(a, 0) /\ Data(a) /\ Hand(a)
    BY <2>4 DEF Done
  <2>6. Done(a, b)
    BY <2>2, <2>3, <2>5, AckedDone
  <2>7. Core(b, 0) /\ Data(b) /\ Hand(b)
    BY <2>6 DEF Done
  <2>8. PICK c : c = CompleteQos0(b)
    OBVIOUS
  <2>9. Done(b, c) /\ Calm(b, c)
    BY <2>7, <2>8, CompleteQos0Done
  <2>10. c \in State /\ Zeroed(c)
    BY <2>3, <2>9 DEF Done, Core, Calm, Zeroed
  <2>11. Zeroed(t) /\ t.conn_state = c.conn_state
    BY <2>1, <2>8, <2>10, SendFields DEF Zeroed
  <2>12. c.conn_state = "MQTT_CONNECTED"
    BY <1>8, <2>4, <2>6, <2>9 DEF Done
  <2> QED
    BY <2>11, <2>12 DEF Held, Heard, Zeroed
<1> QED
  BY <1>7, <1>8

LEMMA PollCbHeld ==
  ASSUME NEW s, Good(s), NEW t, t = PollCb(s)
  PROVE  Held(s, t)
<1>1. CASE t = s
  BY <1>1, SteadyHeld DEF Steady, Counted
<1>2. CASE t = Send(s)
  <2>1. s \in State
    BY DEF Good, Core
  <2> QED
    BY <1>2, <2>1, SendSteady, SteadyHeld
<1> QED
  BY <1>1, <1>2 DEF PollCb

LEMMA CallsHeld ==
  ASSUME KeepAlive # 0, OnRequestFail = "ignore", NEW s, Good(s), NEW t, Calls(s, t)
  PROVE  Held(s, t)
<1>1. s \in State
  BY DEF Good, Core
<1>2. CASE s.conn_state = "TCP_DISCONNECTED" /\ t = ClientConnect(s)
  <2>1. Connected(s, t)
    BY <1>1, <1>2, ClientConnectCore
  <2> QED
    BY <1>2, <2>1 DEF Connected, Held
<1>3. CASE /\ s.conn_state # "TCP_DISCONNECTED"
           /\ s.nreq + (IF s.conn_state = "MQTT_CONNECTED" THEN 0 ELSE 2) < MaxReqs
           /\ \E kind \in Kinds : t = Request(s, kind)
  <2>1. PICK kind \in Kinds : t = Request(s, kind)
    BY <1>3
  <2>2. kind \in AskKinds
    BY ClientConstants DEF AskKinds
  <2>3. s.nreq < MaxReqs
    <3>1. s.nreq \in 0 .. MaxReqs /\ MaxReqs \in Nat
      BY <1>1, StateFields, Constants
    <3> QED
      BY <1>3, <3>1
  <2> QED
    BY <1>1, <2>1, <2>2, <2>3, RequestSteady, SteadyHeld
<1>4. CASE s.conn_state # "TCP_DISCONNECTED" /\ t = Disconnect(s)
  BY <1>4, DisconnectHeld
<1>5. CASE s.conn_state = "TCP_CONNECTING" /\ t = TcpConnectCb(s)
  <2>1. t.conn_state = "MQTT_CONNECTING"
    BY <1>5, TcpConnectCbAfter
  <2> QED
    BY <1>5, <2>1 DEF Held
<1>6. CASE t = ErrCb(s)
  BY <1>6, ErrCbHeld
<1>7. CASE t = Close(s, "MQTT_CONNECT_DISCONNECTED")
  <2>1. Closable(s)
    BY CoreClosable DEF Good
  <2> QED
    BY <1>7, <2>1, CloseHeld
<1>8. ASSUME NEW n \in 1 .. Len(s.rx),
             t = RecvCb([s EXCEPT !.rx = SubSeq(s.rx, n + 1, Len(s.rx))],
                        SubSeq(s.rx, 1, n))
      PROVE  Held(s, t)
  BY <1>8, RecvCbHeld
<1>9. ASSUME s.conn, NEW n \in 1 .. s.unacked, t = SentCb(s, n)
      PROVE  Held(s, t)
  BY <1>9, SentCbHeld
<1>10. CASE t = PollCb(s)
  BY <1>10, PollCbHeld
<1> QED
  BY <1>2, <1>3, <1>4, <1>5, <1>6, <1>7, <1>8, <1>9, <1>10 DEF Calls

LEMMA ServerHeld ==
  ASSUME NEW s, Good(s), NEW t, Reads(s, t) \/ Publishes(s, t)
  PROVE  Held(s, t) /\ t.mem = s.mem
<1>1. s \in State
  BY DEF Good, Core
<1>2. CASE Reads(s, t)
  <2>1. PICK type \in Answers(Head(s.tx)) : ReadsMsg(s, Head(s.tx), type, t)
    BY <1>2 DEF Reads
  <2>2. Steady(s, t) /\ t.mem = s.mem
    BY <1>1, <2>1 DEF ReadsMsg, State, Steady, Counted, Busy
  <2> QED
    BY <2>2, SteadyHeld
<1>3. CASE Publishes(s, t)
  <2>1. Steady(s, t) /\ t.mem = s.mem
    BY <1>1, <1>3 DEF Publishes, State, Steady, Counted, Busy
  <2> QED
    BY <2>1, SteadyHeld
<1> QED
  BY <1>2, <1>3

(* TCP's memory, set for one handler, changes neither the counters nor     *)
(* what is under way.                                                      *)
LEMMA MemoryHeld ==
  ASSUME NEW x, Good(x), NEW mem \in BOOLEAN, NEW s, s = [x EXCEPT !.mem = mem]
  PROVE  /\ Good(s) /\ Unmoved(x, s) /\ s.timers = x.timers
         /\ s.mem = mem /\ Counted(x, s)
<1>1. x \in State
  BY DEF Good, Core
<1>2. s.mem = mem /\ Counted(x, s)
  BY <1>1, MemoryIs DEF State, Counted
<1> QED
  BY <1>2, Handled

LEMMA HeldBetween ==
  ASSUME NEW x, NEW s, Unmoved(x, s), Counted(x, s), NEW t, Held(s, t),
         NEW y, Unmoved(t, y), Counted(t, y)
  PROVE  Held(x, y)
<1>1. Steady(s, t) => Steady(x, y)
  BY DEF Steady, Counted, Unmoved, Busy
<1>2. Heard(s, t) => Heard(x, y)
  BY DEF Heard, Counted, Unmoved
<1>3. Counted(s, t) => Counted(x, y)
  BY DEF Counted
<1> QED
  BY <1>1, <1>2, <1>3 DEF Held, Counted, Unmoved

(* Every step but the timer's.                                             *)
LEMMA UntimedHeld ==
  ASSUME KeepAlive # 0, OnRequestFail = "ignore", Good(m), m.mem, Untimed
  PROVE  Held(m, m') /\ m'.mem
<1>1. ASSUME NEW mem \in BOOLEAN, CallsWith(m, mem, m')
      PROVE  Held(m, m') /\ m'.mem
  <2>1. PICK s : s = [m EXCEPT !.mem = mem]
    OBVIOUS
  <2>2. PICK t : Calls(s, t) /\ m' = [t EXCEPT !.mem = TRUE]
    BY <1>1, <2>1 DEF CallsWith
  <2>3. Good(s) /\ Unmoved(m, s) /\ Counted(m, s)
    BY <2>1, MemoryHeld
  <2>4. Held(s, t)
    BY <2>2, <2>3, CallsHeld
  <2>5. Good(t)
    <3>1. Handles(s, t)
      BY <2>2 DEF Handles
    <3>2. After(s, t)
      BY <2>3, <3>1, HandlesAfter
    <3> QED
      BY <3>2 DEF After, Good
  <2>6. Unmoved(t, m') /\ Counted(t, m') /\ m'.mem
    BY <2>2, <2>5, MemoryHeld
  <2> QED
    BY <2>3, <2>4, <2>6, HeldBetween
<1>2. CASE Reads(m, m') \/ Publishes(m, m')
  BY <1>2, ServerHeld
<1>3. CASE m' = m
  BY <1>3, SteadyHeld DEF Steady, Counted
<1> QED
  BY <1>1, <1>2, <1>3, UntimedCases

(* What a tick of a connection does to the counters.                       *)
LEMMA KeepAliveCounts ==
  ASSUME NEW s \in State, NEW t, t = KeepAliveSend(s)
  PROVE  /\ t.server_watchdog = s.server_watchdog /\ t.conn_state = s.conn_state
         /\ \/ /\ s.cyclic_tick * MQTT_CYCLIC_TIMER_INTERVAL < KeepAlive
               /\ t.cyclic_tick = s.cyclic_tick + 1
            \/ /\ ~(s.cyclic_tick * MQTT_CYCLIC_TIMER_INTERVAL < KeepAlive)
               /\ CheckSpace(s)
               /\ t.cyclic_tick = 0 /\ t.ring # <<>>
            \/ /\ ~(s.cyclic_tick * MQTT_CYCLIC_TIMER_INTERVAL < KeepAlive)
               /\ ~CheckSpace(s)
<1>1. CASE s.cyclic_tick * MQTT_CYCLIC_TIMER_INTERVAL < KeepAlive
  <2>1. t = [s EXCEPT !.cyclic_tick = s.cyclic_tick + 1]
    BY <1>1 DEF KeepAliveSend
  <2> QED
    BY <1>1, <2>1 DEF State
<1>2. CASE /\ ~(s.cyclic_tick * MQTT_CYCLIC_TIMER_INTERVAL < KeepAlive)
           /\ CheckSpace(s)
  <2>1. PICK u : u = [s EXCEPT !.cyclic_tick = 0]
    OBVIOUS
  <2>2. t = Append1(u, PingMsg)
    BY <1>2, <2>1 DEF KeepAliveSend, PingMsg
  <2>3. /\ u \in State /\ u.cyclic_tick = 0 /\ u.conn_state = s.conn_state
        /\ u.server_watchdog = s.server_watchdog
    BY <2>1, TickIs DEF Unmoved
  <2>4. /\ t.cyclic_tick = 0 /\ t.conn_state = u.conn_state
        /\ t.server_watchdog = u.server_watchdog /\ t.ring = Append(u.ring, PingMsg)
    BY <2>2, <2>3, PingMsgType, Append1Fields
  <2>5. t.ring # <<>>
    <3>1. u.ring \in Seq(Msg)
      BY <2>3, StateFields
    <3> QED
      BY <2>4, <3>1, PingMsgType
  <2> QED
    BY <1>2, <2>3, <2>4, <2>5
<1>3. CASE /\ ~(s.cyclic_tick * MQTT_CYCLIC_TIMER_INTERVAL < KeepAlive)
           /\ ~CheckSpace(s)
  <2>1. t = s
    BY <1>3 DEF KeepAliveSend
  <2> QED
    BY <1>3, <2>1
<1> QED
  BY <1>1, <1>2, <1>3

Expires(s) ==
  (s.server_watchdog + 1) * MQTT_CYCLIC_TIMER_INTERVAL > KeepAlive + KeepAlive \div 2
GivesUp(s, t) ==
  /\ KeepAlive # 0 /\ Expires(s) /\ t.conn_state # "MQTT_CONNECTED"
  /\ \/ t.server_watchdog = s.server_watchdog + 1
     \/ t.server_watchdog = 0 /\ t.cyclic_tick = 1
GoesOn(s, t) ==
  /\ t.conn_state = "MQTT_CONNECTED"
  /\ KeepAlive # 0 =>
       /\ ~Expires(s)
       /\ t.server_watchdog = s.server_watchdog + 1
       /\ \/ /\ s.cyclic_tick * MQTT_CYCLIC_TIMER_INTERVAL < KeepAlive
             /\ t.cyclic_tick = s.cyclic_tick + 1
          \/ t.cyclic_tick = 0 /\ t.ring # <<>>
          \/ ~CheckSpace(s)

LEMMA SetTimeoutCounts ==
  ASSUME NEW s \in State, NEW t, t = SetTimeout(s)
  PROVE  Unmoved(s, t) /\ Counted(s, t)
<1>1. s.timers + 1 \in Nat /\ t = [s EXCEPT !.timers = s.timers + 1]
  BY StateFields DEF SetTimeout
<1> QED
  BY <1>1, TimersIs DEF Counted

LEMMA ElapsedCalm ==
  ASSUME OnRequestFail = "ignore",
         NEW s, Good(s), s.conn_state = "MQTT_CONNECTED",
         NEW e, e = TimeElapsed(Aged(s), MQTT_CYCLIC_TIMER_INTERVAL)
  PROVE  Good(e) /\ e.conn_state = "MQTT_CONNECTED" /\ Calm(s, e)
<1>1. PICK a : a = Aged(s)
  OBVIOUS
<1>2. Requeued(s, a, a.pend, MQTT_CYCLIC_TIMER_INTERVAL)
  BY <1>1, AgedCore DEF Good
<1>3. /\ Core(a, MQTT_CYCLIC_TIMER_INTERVAL) /\ Data(a) /\ Hand(a)
      /\ a.conn_state = s.conn_state /\ Calm(s, a)
  BY <1>2 DEF Requeued, Good
<1>4. Elapsing(a, e, 0, 0)
  BY <1>1, <1>3, Constants, TimeElapsedCore
<1> QED
  BY <1>3, <1>4 DEF Elapsing, Good, Calm

LEMMA ConnectedTickCounts ==
  ASSUME OnRequestFail = "ignore",
         NEW s, Good(s), s.conn_state = "MQTT_CONNECTED",
         NEW t, t = ConnectedTick(s)
  PROVE  GivesUp(s, t) \/ GoesOn(s, t)
<1>1. PICK e : e = TimeElapsed(Aged(s), MQTT_CYCLIC_TIMER_INTERVAL)
  OBVIOUS
<1>2. Good(e) /\ e.conn_state = "MQTT_CONNECTED" /\ Calm(s, e)
  BY <1>1, ElapsedCalm
<1>3. e \in State /\ e.server_watchdog + 1 \in Nat
  BY <1>2, StateFields DEF Good, Core
<1>4. PICK w : w = [e EXCEPT !.server_watchdog = e.server_watchdog + 1]
  OBVIOUS
<1>5. /\ Unmoved(e, w) /\ w.cyclic_tick = e.cyclic_tick
      /\ w.server_watchdog = e.server_watchdog + 1
  BY <1>3, <1>4, WatchedIs
<1>6. /\ w \in State /\ w.cyclic_tick = s.cyclic_tick /\ w.ring = s.ring
      /\ w.server_watchdog = s.server_watchdog + 1
      /\ w.conn_state = "MQTT_CONNECTED"
  BY <1>2, <1>5 DEF Calm, Unmoved
<1>7. CASE KeepAlive = 0
  <2>1. t = SetTimeout(e)
    BY <1>1, <1>7 DEF ConnectedTick
  <2> QED
    BY <1>2, <1>3, <1>7, <2>1, SetTimeoutCounts DEF GoesOn, Unmoved
<1>8. CASE KeepAlive # 0 /\ WatchdogExpired(w)
  <2>1. PICK c : c = Close(w, "MQTT_CONNECT_TIMEOUT")
    OBVIOUS
  <2>2. t = KeepAliveSend(c)
    BY <1>1, <1>4, <1>8, <2>1 DEF ConnectedTick
  <2>3. Closable(w)
    <3>1. Core(w, 0)
      BY <1>2, <1>5, UnmovedCore DEF Good
    <3> QED
      BY <3>1, CoreClosable
  <2>4. c \in State /\ c.conn_state # "MQTT_CONNECTED"
    <3>1. Down(w, c)
      BY <2>1, <2>3, CloseDown
    <3> QED
      BY <3>1 DEF Down, Core
  <2>5. Counted(w, c) \/ Zeroed(c)
    BY <1>6, <2>1, CloseCounters
  <2>6. Zeroed(c) => c.cyclic_tick * MQTT_CYCLIC_TIMER_INTERVAL < KeepAlive
    BY <1>8, Constants DEF Zeroed
  <2>7. /\ t.server_watchdog = c.server_watchdog
        /\ t.conn_state = c.conn_state
        /\ Zeroed(c) => t.cyclic_tick = 1
    BY <2>2, <2>4, <2>6, KeepAliveCounts DEF Zeroed
  <2>8. Expires(s)
    BY <1>6, <1>8 DEF WatchdogExpired, Expires
  <2> QED
    BY <1>6, <1>8, <2>4, <2>5, <2>7, <2>8 DEF GivesUp, Counted, Zeroed
<1>9. CASE KeepAlive # 0 /\ ~WatchdogExpired(w)
  <2>1. PICK k : k = KeepAliveSend(w)
    OBVIOUS
  <2>2. t = SetTimeout(k)
    BY <1>1, <1>4, <1>9, <2>1 DEF ConnectedTick
  <2>3. /\ k.server_watchdog = w.server_watchdog /\ k.conn_state = w.conn_state
        /\ \/ /\ w.cyclic_tick * MQTT_CYCLIC_TIMER_INTERVAL < KeepAlive
              /\ k.cyclic_tick = w.cyclic_tick + 1
           \/ k.cyclic_tick = 0 /\ k.ring # <<>>
           \/ ~CheckSpace(w)
    BY <1>6, <2>1, KeepAliveCounts
  <2>4. k \in State
    <3>1. Core(w, 0) /\ Data(w) /\ Hand(w)
      BY <1>2, <1>5, UnmovedCore DEF Good
    <3>2. Done(w, k)
      BY <2>1, <3>1, KeepAliveDone
    <3> QED
      BY <3>2 DEF Done, Core
  <2>5. Unmoved(k, t) /\ Counted(k, t)
    BY <2>2, <2>4, SetTimeoutCounts
  <2>6. ~Expires(s)
    BY <1>6, <1>9 DEF WatchdogExpired, Expires
  <2>7. CheckSpace(w) = CheckSpace(s)
    BY <1>6 DEF CheckSpace
  <2> QED
    BY <1>6, <2>3, <2>5, <2>6, <2>7 DEF GoesOn, Unmoved, Counted
<1> QED
  BY <1>7, <1>8, <1>9

(* The timer on a connection, seen from the state it fires in.             *)
LEMMA TimerCounts ==
  ASSUME OnRequestFail = "ignore", Good(m), m.conn_state = "MQTT_CONNECTED",
         TimerFires
  PROVE  (GivesUp(m, m') \/ GoesOn(m, m')) /\ m'.mem
<1>1. PICK mem \in BOOLEAN : TicksWith(m, mem, m')
  BY TimerCases
<1>2. PICK s : /\ s = [m EXCEPT !.mem = mem] /\ s.timers > 0
               /\ m' = [CyclicTimer(s) EXCEPT !.mem = TRUE]
  BY <1>1 DEF TicksWith
<1>3. Good(s) /\ Unmoved(m, s) /\ Counted(m, s)
  BY <1>2, MemoryHeld
<1>4. PICK f : f = [s EXCEPT !.timers = s.timers - 1]
  OBVIOUS
<1>5. PICK t : t = CyclicTimer(s)
  OBVIOUS
<1>6. Good(f) /\ Unmoved(s, f) /\ Counted(s, f)
  <2>1. s \in State /\ s.timers - 1 \in Nat
    <3>1. s \in State
      BY <1>3 DEF Good, Core
    <3>2. s.timers \in Nat
      BY <3>1, StateFields
    <3>3. s.timers > 0
      BY <1>2
    <3> QED
      BY <3>1, <3>2, <3>3
  <2>2. Unmoved(s, f) /\ Counted(s, f)
    BY <1>4, <2>1, TimersIs DEF Counted
  <2> QED
    BY <1>3, <2>2, UnmovedCore DEF Good
<1>7. t = ConnectedTick(f) /\ f.conn_state = "MQTT_CONNECTED"
  BY <1>3, <1>4, <1>5, <1>6 DEF CyclicTimer, Unmoved
<1>8. GivesUp(f, t) \/ GoesOn(f, t)
  BY <1>6, <1>7, ConnectedTickCounts
<1>9. Good(t)
  <2>1. After(s, t)
    BY <1>2, <1>3, <1>5, CyclicTimerAfter DEF Good
  <2> QED
    BY <2>1 DEF After, Good
<1>10. Unmoved(t, m') /\ Counted(t, m') /\ m'.mem
  BY <1>2, <1>5, <1>9, MemoryHeld
<1>11. /\ Expires(f) = Expires(m) /\ CheckSpace(f) = CheckSpace(m)
       /\ f.server_watchdog = m.server_watchdog /\ f.cyclic_tick = m.cyclic_tick
  BY <1>3, <1>6 DEF Expires, CheckSpace, Unmoved, Counted
<1> QED
  BY <1>8, <1>10, <1>11 DEF GivesUp, GoesOn, Unmoved, Counted

(* Without anything under way a healthy client does not give up, and stays *)
(* healthy.                                                                *)
LEMMA QuietTick ==
  ASSUME PingInTime, KeepAlive # 0, NEW s \in State, Healthy(s), ~Busy(s),
         s.conn_state = "MQTT_CONNECTED", NEW t \in State,
         GivesUp(s, t) \/ GoesOn(s, t)
  PROVE  t.conn_state = "MQTT_CONNECTED" /\ Healthy(t)
<1> DEFINE I == MQTT_CYCLIC_TIMER_INTERVAL
           C == s.cyclic_tick
           W == s.server_watchdog
<1>1. I \in Nat /\ I > 0 /\ C \in Nat /\ W \in Nat /\ KeepAlive \in Nat
  BY Constants, StateFields
<1>2. (C - 1) * I < KeepAlive /\ W <= C
  BY DEF Healthy
<1>3. (W - 1) * I < KeepAlive
  <2>1. PICK d \in Nat : C = W + d
    <3>1. C - W \in Nat /\ C = W + (C - W)
      BY <1>1, <1>2
    <3> QED
      BY <3>1
  <2>2. (C - 1) * I = (W - 1) * I + d * I /\ d * I >= 0
    BY <1>1, <2>1
  <2>3. (W - 1) * I \in Int /\ d * I \in Int
    BY <1>1
  <2> QED
    BY <1>1, <1>2, <2>2, <2>3
<1>4. ~Expires(s)
  <2>1. (W + 1) * I <= KeepAlive + KeepAlive \div 2
    BY <1>1, <1>3 DEF PingInTime
  <2>2. (W + 1) * I \in Int /\ KeepAlive + KeepAlive \div 2 \in Int
    BY <1>1
  <2> QED
    BY <2>1, <2>2 DEF Expires
<1>5. CheckSpace(s)
  BY Constants DEF Busy, CheckSpace
<1>6. /\ t.conn_state = "MQTT_CONNECTED"
      /\ t.server_watchdog = W + 1
      /\ \/ C * I < KeepAlive /\ t.cyclic_tick = C + 1
         \/ t.cyclic_tick = 0 /\ t.ring # <<>>
  BY <1>4, <1>5 DEF GivesUp, GoesOn
<1>7. CASE C * I < KeepAlive /\ t.cyclic_tick = C + 1
  <2>1. t.cyclic_tick - 1 = C /\ t.server_watchdog <= t.cyclic_tick
    BY <1>1, <1>2, <1>6, <1>7
  <2> QED
    BY <1>6, <1>7, <2>1 DEF Healthy
<1>8. CASE t.cyclic_tick = 0 /\ t.ring # <<>>
  <2>1. (t.cyclic_tick - 1) * I < KeepAlive
    BY <1>1, <1>8
  <2> QED
    BY <1>6, <1>8, <2>1 DEF Healthy, Busy
<1> QED
  BY <1>6, <1>7, <1>8

(* What PromptSpec keeps of the counters.                                  *)
KeepInv == IInv /\ (KeepAlive # 0 => m.mem /\ Healthy(m))

LEMMA SettledQuiet ==
  ASSUME Good(m), m.mem, Settled, m.conn_state = "MQTT_CONNECTED"
  PROVE  ~Busy(m)
<1>1. m \in State /\ m.conn
  BY DEF Good, Core, Linked
<1>2. m.unacked = 0 /\ Send(m) = m
  BY DEF Settled, PollCb
<1>3. m.ring = <<>>
  BY <1>1, <1>2, SendSends
<1> QED
  BY <1>2, <1>3 DEF Busy

LEMMA TimerElsewhere ==
  ASSUME Good(m), m.conn_state # "MQTT_CONNECTED", TimerFires
  PROVE  m'.mem /\ m'.conn_state # "MQTT_CONNECTED"
<1>1. PICK mem \in BOOLEAN : TicksWith(m, mem, m')
  BY TimerCases
<1>2. PICK s : /\ s = [m EXCEPT !.mem = mem] /\ s.timers > 0
               /\ m' = [CyclicTimer(s) EXCEPT !.mem = TRUE]
  BY <1>1 DEF TicksWith
<1>3. Good(s) /\ Unmoved(m, s) /\ Counted(m, s)
  BY <1>2, MemoryHeld
<1>4. PICK t : t = CyclicTimer(s)
  OBVIOUS
<1>5. PICK f : f = [s EXCEPT !.timers = s.timers - 1]
  OBVIOUS
<1>6. s \in State /\ s.timers - 1 \in Nat
  <2>1. s \in State
    BY <1>3 DEF Good, Core
  <2>2. s.timers \in Nat
    BY <2>1, StateFields
  <2>3. s.timers > 0
    BY <1>2
  <2> QED
    BY <2>1, <2>2, <2>3
<1>7. Unmoved(s, f) /\ Good(f)
  <2>1. Unmoved(s, f)
    BY <1>5, <1>6, TimersIs
  <2> QED
    BY <1>3, <2>1, UnmovedCore DEF Good
<1>8. f.conn_state = s.conn_state /\ s.conn_state # "MQTT_CONNECTED"
  BY <1>3, <1>7 DEF Unmoved
<1>9. t.conn_state # "MQTT_CONNECTED"
  <2>1. t = f \/ t = ConnectingTick(f)
    BY <1>4, <1>5, <1>8 DEF CyclicTimer
  <2>2. CASE t = ConnectingTick(f)
    <3>1. PICK u : u = [f EXCEPT !.cyclic_tick = f.cyclic_tick + 1]
      OBVIOUS
    <3>2. f \in State /\ f.cyclic_tick + 1 \in Nat
      BY <1>7, StateFields DEF Unmoved
    <3>3. Unmoved(f, u)
      BY <3>1, <3>2, TickIs
    <3>4. Good(u) /\ u.conn_state # "MQTT_CONNECTED"
      BY <1>7, <1>8, <3>3, UnmovedCore DEF Good, Unmoved
    <3>5. t = Close(u, "MQTT_CONNECT_TIMEOUT") \/ t = SetTimeout(u)
      BY <2>2, <3>1 DEF ConnectingTick
    <3>6. CASE t = Close(u, "MQTT_CONNECT_TIMEOUT")
      <4>1. Closable(u)
        BY <3>4, CoreClosable DEF Good
      <4> QED
        BY <3>6, <4>1, CloseHeld
    <3>7. CASE t = SetTimeout(u)
      <4>1. u \in State
        BY <3>4 DEF Good, Core
      <4> QED
        BY <3>4, <3>7, <4>1, SetTimeoutCounts DEF Unmoved
    <3> QED
      BY <3>5, <3>6, <3>7
  <2> QED
    BY <1>8, <2>1, <2>2
<1>10. Good(t)
  <2>1. After(s, t)
    BY <1>2, <1>3, <1>4, CyclicTimerAfter DEF Good
  <2> QED
    BY <2>1 DEF After, Good
<1>11. Unmoved(t, m') /\ m'.mem
  BY <1>2, <1>4, <1>10, MemoryHeld
<1> QED
  BY <1>9, <1>11 DEF Unmoved

(* A step that the timer makes and another handler would make as well does *)
(* not end the connection: the two leave different counters.               *)
LEMMA NotBoth ==
  ASSUME PingInTime, KeepAlive # 0, NEW s \in State, NEW t,
         s.conn_state = "MQTT_CONNECTED", GivesUp(s, t)
  PROVE  ~Held(s, t)
<1>1. s.server_watchdog \in Nat
  BY StateFields
<1>2. s.server_watchdog # 0
  <2>1. /\ MQTT_CYCLIC_TIMER_INTERVAL \in Nat /\ MQTT_CYCLIC_TIMER_INTERVAL > 0
        /\ KeepAlive \in Nat
    BY Constants
  <2>2. (0 - 1) * MQTT_CYCLIC_TIMER_INTERVAL < KeepAlive
    BY <2>1
  <2>3. (0 + 1) * MQTT_CYCLIC_TIMER_INTERVAL <= KeepAlive + KeepAlive \div 2
    BY <2>2 DEF PingInTime
  <2> QED
    BY <2>1, <2>3 DEF GivesUp, Expires
<1>3. ~Counted(s, t)
  BY <1>1, <1>2 DEF GivesUp, Counted
<1>4. ~(t.cyclic_tick = 0 /\ t.server_watchdog = 0)
  BY <1>1 DEF GivesUp
<1> QED
  BY <1>3, <1>4 DEF GivesUp, Held

LEMMA KeepInvInit == Init => KeepInv
<1> SUFFICES ASSUME Init PROVE KeepInv
  OBVIOUS
<1>1. IInv
  BY InitIInv
<1>2. m.mem /\ m.conn_state = "TCP_DISCONNECTED"
  BY DEF Init, Fresh, Wiped
<1> QED
  BY <1>1, <1>2 DEF KeepInv, Healthy

(* The timer, when everything has settled.                                 *)
LEMMA SettledTimer ==
  ASSUME OnRequestFail = "ignore", PingInTime, KeepInv, Settled, TimerFires,
         m' \in State
  PROVE  /\ m'.mem
         /\ KeepAlive # 0 => Healthy(m')
         /\ m.conn_state = "MQTT_CONNECTED" => m'.conn_state = "MQTT_CONNECTED"
<1>1. Good(m) /\ m \in State
  BY DEF KeepInv, IInv, Good, Core
<1>2. CASE m.conn_state # "MQTT_CONNECTED"
  BY <1>1, <1>2, TimerElsewhere DEF Healthy
<1>3. CASE m.conn_state = "MQTT_CONNECTED"
  <2>1. (GivesUp(m, m') \/ GoesOn(m, m')) /\ m'.mem
    BY <1>1, <1>3, TimerCounts
  <2>2. CASE KeepAlive = 0
    BY <2>1, <2>2 DEF GivesUp, GoesOn
  <2>3. CASE KeepAlive # 0
    <3>1. Healthy(m) /\ ~Busy(m)
      BY <1>1, <1>3, <2>3, SettledQuiet DEF KeepInv
    <3>2. m'.conn_state = "MQTT_CONNECTED" /\ Healthy(m')
      BY <1>1, <1>3, <2>1, <2>3, <3>1, QuietTick
    <3> QED
      BY <2>1, <3>2
  <2> QED
    BY <2>2, <2>3
<1> QED
  BY <1>2, <1>3

LEMMA KeepInvStep ==
  ASSUME OnRequestFail = "ignore", PingInTime, KeepInv,
         [Untimed \/ (Settled /\ TimerFires)]_vars
  PROVE  /\ KeepInv'
         /\ TimerFires /\ m.conn_state = "MQTT_CONNECTED"
              => m'.conn_state = "MQTT_CONNECTED"
<1>1. Good(m) /\ m \in State /\ [Next]_vars
  BY DEF KeepInv, IInv, Good, Core, Next
<1>2. IInv'
  BY <1>1, StepIInv DEF KeepInv
<1>3. m' \in State
  BY <1>2 DEF IInv, Good, Core
<1>4. CASE UNCHANGED vars
  <2>1. m' = m
    BY <1>4 DEF vars
  <2> QED
    BY <1>2, <2>1 DEF KeepInv
<1>5. CASE Settled /\ TimerFires
  <2>1. /\ m'.mem
        /\ KeepAlive # 0 => Healthy(m')
        /\ m.conn_state = "MQTT_CONNECTED" => m'.conn_state = "MQTT_CONNECTED"
    BY <1>3, <1>5, SettledTimer
  <2> QED
    BY <1>2, <2>1 DEF KeepInv, Healthy, Busy
<1>6. CASE Untimed
  <2>1. CASE KeepAlive = 0
    <3>1. ASSUME TimerFires, m.conn_state = "MQTT_CONNECTED"
          PROVE  m'.conn_state = "MQTT_CONNECTED"
      BY <1>1, <2>1, <3>1, TimerCounts DEF GivesUp, GoesOn
    <3> QED
      BY <1>2, <2>1, <3>1 DEF KeepInv
  <2>2. CASE KeepAlive # 0
    <3>1. m.mem /\ Healthy(m)
      BY <2>2 DEF KeepInv
    <3>2. Held(m, m') /\ m'.mem
      BY <1>1, <1>6, <2>2, <3>1, UntimedHeld
    <3>3. Healthy(m')
      BY <1>1, <1>3, <2>2, <3>1, <3>2, HeldHealthy
    <3>4. ASSUME TimerFires, m.conn_state = "MQTT_CONNECTED"
          PROVE  m'.conn_state = "MQTT_CONNECTED"
      <4>1. GivesUp(m, m') \/ GoesOn(m, m')
        BY <1>1, <3>4, TimerCounts
      <4>2. ~GivesUp(m, m')
        BY <1>1, <2>2, <3>2, <3>4, NotBoth
      <4> QED
        BY <4>1, <4>2 DEF GoesOn
    <3> QED
      BY <1>2, <3>2, <3>3, <3>4 DEF KeepInv, Healthy, Busy
  <2> QED
    BY <2>1, <2>2
<1> QED
  BY <1>4, <1>5, <1>6

(* Keep-alive keeps a connection to a prompt server: mqtt_cyclic_timer     *)
(* never gives up a connection on which, whenever it fires, everything     *)
(* sent has been acknowledged and everything read has been answered.  The  *)
(* period must suit the interval (PingInTime; by LongPeriod any period of  *)
(* four intervals does), and no request callback disconnects.              *)
THEOREM KeepAliveWorks ==
  ASSUME OnRequestFail = "ignore", PingInTime
  PROVE  PromptSpec => TimerKeepsHealthy
<1>1. KeepInv /\ [Untimed \/ (Settled /\ TimerFires)]_vars => KeepInv'
  BY KeepInvStep
<1>2. KeepInv /\ [Untimed \/ (Settled /\ TimerFires)]_vars
        => [TimerFires /\ m.conn_state = "MQTT_CONNECTED"
              => m'.conn_state = "MQTT_CONNECTED"]_vars
  BY KeepInvStep
<1> QED
  BY <1>1, <1>2, KeepInvInit, PTL DEF PromptSpec, TimerKeepsHealthy
=============================================================================
