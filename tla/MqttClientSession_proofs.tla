---------------------- MODULE MqttClientSession_proofs ----------------------
(***************************************************************************)
(* Theorems about what MqttClient promises its application: an answer ends *)
(* the request it is for, and the client implements MqttSession.  Both     *)
(* hold as long as a connection makes fewer requests than there are packet *)
(* identifiers, so that none is used twice.                                *)
(***************************************************************************)
EXTENDS MqttClient_proofs

-----------------------------------------------------------------------------
(***************************************************************************)
(* Which request a message is for.                                         *)
(***************************************************************************)
Has(q, x) == \E i \in 1 .. Len(q) : q[i] = x
Outgoing(s, x) == Has(s.ring, x) \/ Has(s.tx, x)

(* What the client sends about a request of its own, and what the server   *)
(* sends about none of them.                                               *)
AskTypes == {"SUBSCRIBE", "PUBLISH1", "PUBLISH2", "PUBREL"}
Unasked == {"CONNACK", "CONNACK_REFUSED", "PINGRESP", "PUBLISH0", "PUBLISH1",
            "PUBLISH2", "PUBREL"}

(* The identifier of x was given out in this session, and to one request.  *)
Own(s, x) ==
  /\ x.id \in 1 .. s.pkt_id_seq
  /\ \A i \in 1 .. Len(s.pend) : s.pend[i].pkt_id = x.id => s.pend[i].k = x.k
Asking(s, x) == x.type \in AskTypes => Own(s, x)
Answering(s, x) ==
  x.type \notin Unasked =>
    /\ Own(s, x)
    /\ x.type \notin {"SUBACK_DENIED", "PUBREC"} => x.k \in s.served

Asked(s) ==
  /\ s.pkt_id_seq <= s.nreq
  /\ \A k \in s.qos0 : k <= s.nreq
  /\ \A i \in 1 .. Len(s.pend) :
       /\ s.pend[i].pkt_id <= s.pkt_id_seq
       /\ s.pend[i].pkt_id = 0 <=> s.pend[i].k \in s.qos0
  /\ \A x \in Msg : Outgoing(s, x) => Asking(s, x)
  /\ \A x \in Msg : Has(s.rx, x) => Answering(s, x)
  /\ \A k \in Requests : s.req[k] = "ERR_OK" => k \in s.served \cup s.qos0

(* q holds requests of p only.                                             *)
Among(q, p) ==
  \A j \in 1 .. Len(q) : \E i \in 1 .. Len(p) : /\ p[i].pkt_id = q[j].pkt_id
                                               /\ p[i].k = q[j].k

(* Steps that make no request and keep the session.                        *)
Follows(s, t) ==
  /\ t.pkt_id_seq = s.pkt_id_seq /\ t.nreq = s.nreq /\ t.qos0 = s.qos0
  /\ s.served \subseteq t.served
  /\ Among(t.pend, s.pend)
  /\ \A x \in Msg : Outgoing(t, x) => Outgoing(s, x) \/ Asking(s, x)
  /\ \A x \in Msg : Has(t.rx, x) => Has(s.rx, x) \/ Answering(t, x)
  /\ \A k \in Requests : t.req[k] = "ERR_OK" =>
       s.req[k] = "ERR_OK" \/ k \in t.served \cup t.qos0

LEMMA AmongSelf == ASSUME NEW p PROVE Among(p, p)
  BY DEF Among

LEMMA OwnAmong ==
  ASSUME NEW s, NEW t, t.pkt_id_seq = s.pkt_id_seq, Among(t.pend, s.pend),
         NEW x, Own(s, x)
  PROVE  Own(t, x)
<1> SUFFICES ASSUME NEW j \in 1 .. Len(t.pend), t.pend[j].pkt_id = x.id
             PROVE  t.pend[j].k = x.k
  BY DEF Own
<1>1. PICK i \in 1 .. Len(s.pend) : /\ s.pend[i].pkt_id = t.pend[j].pkt_id
                                    /\ s.pend[i].k = t.pend[j].k
  BY DEF Among
<1> QED
  BY <1>1 DEF Own

LEMMA FollowsAsked ==
  ASSUME NEW s, Asked(s), NEW t, Follows(s, t)
  PROVE  Asked(t)
<1>1. \A x : Own(s, x) => Own(t, x)
  BY OwnAmong DEF Follows
<1>2. t.pkt_id_seq <= t.nreq /\ \A k \in t.qos0 : k <= t.nreq
  BY DEF Asked, Follows
<1>3. \A j \in 1 .. Len(t.pend) :
        /\ t.pend[j].pkt_id <= t.pkt_id_seq
        /\ t.pend[j].pkt_id = 0 <=> t.pend[j].k \in t.qos0
  <2> SUFFICES ASSUME NEW j \in 1 .. Len(t.pend)
               PROVE  /\ t.pend[j].pkt_id <= t.pkt_id_seq
                      /\ t.pend[j].pkt_id = 0 <=> t.pend[j].k \in t.qos0
    OBVIOUS
  <2>1. PICK i \in 1 .. Len(s.pend) : /\ s.pend[i].pkt_id = t.pend[j].pkt_id
                                      /\ s.pend[i].k = t.pend[j].k
    BY DEF Among, Follows
  <2>2. /\ s.pend[i].pkt_id <= s.pkt_id_seq
        /\ s.pend[i].pkt_id = 0 <=> s.pend[i].k \in s.qos0
    BY DEF Asked
  <2>3. t.pkt_id_seq = s.pkt_id_seq /\ t.qos0 = s.qos0
    BY DEF Follows
  <2> QED
    BY <2>1, <2>2, <2>3
<1>4. ASSUME NEW x \in Msg, Outgoing(t, x) PROVE Asking(t, x)
  BY <1>1, <1>4 DEF Asked, Asking, Follows
<1>5. ASSUME NEW x \in Msg, Has(t.rx, x) PROVE Answering(t, x)
  BY <1>1, <1>5 DEF Asked, Answering, Follows
<1>6. ASSUME NEW k \in Requests, t.req[k] = "ERR_OK"
      PROVE  k \in t.served \cup t.qos0
  BY <1>6 DEF Asked, Follows
<1> QED
  BY <1>2, <1>3, <1>4, <1>5, <1>6 DEF Asked

LEMMA HasAppend ==
  ASSUME NEW q \in Seq(Msg), NEW msg \in Msg, NEW x, Has(Append(q, msg), x)
  PROVE  Has(q, x) \/ x = msg
<1>1. PICK i \in 1 .. Len(Append(q, msg)) : Append(q, msg)[i] = x
  BY DEF Has
<1>2. CASE i = Len(q) + 1
  BY <1>1, <1>2
<1>3. CASE i # Len(q) + 1
  <2>1. i \in 1 .. Len(q) /\ q[i] = x
    BY <1>1, <1>3
  <2> QED
    BY <2>1 DEF Has
<1> QED
  BY <1>2, <1>3

LEMMA HasEmpty == \A x : ~Has(<<>>, x)
  BY DEF Has

LEMMA Append1Asked ==
  ASSUME NEW s \in State, Asked(s), NEW msg \in Msg, Asking(s, msg),
         NEW t, t = Append1(s, msg)
  PROVE  Asked(t)
<1>1. /\ t.ring = Append(s.ring, msg) /\ t.pkt_id_seq = s.pkt_id_seq
      /\ t.pend = s.pend /\ t.tx = s.tx /\ t.rx = s.rx /\ t.nreq = s.nreq
      /\ t.req = s.req /\ t.qos0 = s.qos0 /\ t.served = s.served
  BY Append1Fields
<1>2. s.ring \in Seq(Msg)
  BY StateFields
<1>3. \A x \in Msg : Outgoing(t, x) => Outgoing(s, x) \/ Asking(s, x)
  BY <1>1, <1>2, HasAppend DEF Outgoing
<1>4. Follows(s, t)
  BY <1>1, <1>3, AmongSelf DEF Follows
<1> QED
  BY <1>4, FollowsAsked

LEMMA SendAsked ==
  ASSUME NEW s \in State, Asked(s), NEW t, t = Send(s)
  PROVE  Asked(t)
<1>1. /\ t.pkt_id_seq = s.pkt_id_seq /\ t.pend = s.pend /\ t.rx = s.rx
      /\ t.nreq = s.nreq /\ t.req = s.req /\ t.qos0 = s.qos0
      /\ t.served = s.served
  BY SendFields
<1>2. s.ring \in Seq(Msg) /\ s.tx \in Seq(Msg)
  BY StateFields
<1>3. \A x \in Msg : Outgoing(t, x) => Outgoing(s, x)
  <2>1. CASE t.ring = s.ring /\ t.tx = s.tx
    BY <2>1 DEF Outgoing
  <2>2. ASSUME NEW n \in 1 .. Len(s.ring),
               t.ring = SubSeq(s.ring, n + 1, Len(s.ring)),
               t.tx = s.tx \o SubSeq(s.ring, 1, n)
        PROVE  \A x \in Msg : Outgoing(t, x) => Outgoing(s, x)
    <3>1. Moved(s.ring, s.tx, t.ring, t.tx, Msg)
      BY <1>2, <2>2, MovedPrefix
    <3> DEFINE r == s.ring
               x == s.tx
               q == t.ring
               y == t.tx
    <3>2. /\ \A i \in 1 .. Len(q) : \E j \in 1 .. Len(r) : q[i] = r[j]
          /\ \A i \in 1 .. Len(y) : \/ \E j \in 1 .. Len(x) : y[i] = x[j]
                                   \/ \E j \in 1 .. Len(r) : y[i] = r[j]
      BY <3>1 DEF Moved
    <3> HIDE DEF r, x, q, y
    <3>3. \A e \in Msg : Has(q, e) \/ Has(y, e) => Has(r, e) \/ Has(x, e)
      BY <3>2 DEF Has
    <3> QED
      BY <3>3 DEF Outgoing, r, x, q, y
  <2> QED
    BY <2>1, <2>2, SendMoves
<1>4. Follows(s, t)
  BY <1>1, <1>3, AmongSelf DEF Follows
<1> QED
  BY <1>4, FollowsAsked

-----------------------------------------------------------------------------
(***************************************************************************)
(* Requests.                                                               *)
(***************************************************************************)
(* Fewer requests are made than there are packet identifiers.              *)
IdsLast == MaxReqs < IdMod

LEMMA NewIdNext ==
  ASSUME NEW s \in State, Asked(s), IdsLast, s.nreq < MaxReqs, NEW kind
  PROVE  NewId(s, kind) = IF kind = "PUBLISH0" THEN 0 ELSE s.pkt_id_seq + 1
<1>1. /\ s.pkt_id_seq \in 0 .. IdMod - 1 /\ s.nreq \in 0 .. MaxReqs
      /\ MaxReqs \in Nat /\ IdMod \in Nat /\ s.pkt_id_seq <= s.nreq
      /\ MaxReqs < IdMod
  BY StateFields, Constants DEF Asked, IdsLast
<1>2. s.pkt_id_seq + 1 \in 1 .. IdMod - 1
  BY <1>1
<1>3. (s.pkt_id_seq + 1) % IdMod = s.pkt_id_seq + 1
  BY <1>1, <1>2
<1> QED
  BY <1>2, <1>3 DEF NewId, GeneratePacketId

(* What a request makes of the queue: only its own entry is new.           *)
NewRequest(from, to) == to = from \/ (from = "none" /\ to = "pending")
Requested(s, t, kind) ==
  /\ Asked(t)
  /\ t.pkt_id_seq \in Nat /\ s.pkt_id_seq <= t.pkt_id_seq
  /\ t.served = s.served
  /\ \A j \in 1 .. Len(t.pend) :
       \/ \E i \in 1 .. Len(s.pend) : /\ s.pend[i].pkt_id = t.pend[j].pkt_id
                                      /\ s.pend[i].k = t.pend[j].k
       \/ t.pend[j].pkt_id > s.pkt_id_seq
       \/ kind = "PUBLISH0"
  /\ \A k \in Requests : NewRequest(s.req[k], t.req[k])

LEMMA NumberedAsked ==
  ASSUME NEW s \in State, Asked(s), IdsLast, s.nreq < MaxReqs, NEW kind,
         NEW t, t = Numbered(s, kind)
  PROVE  Requested(s, t, kind)
<1>1. IsNumbered(s, kind, t)
  BY NumberedIs
<1>2. /\ t.nreq = s.nreq + 1 /\ t.pend = s.pend /\ t.req = s.req
      /\ t.ring = s.ring /\ t.tx = s.tx /\ t.rx = s.rx /\ t.qos0 = s.qos0
      /\ t.served = s.served
      /\ t.pkt_id_seq = IF NewId(s, kind) = 0 THEN s.pkt_id_seq ELSE NewId(s, kind)
  BY <1>1 DEF IsNumbered, SameLink
<1>3. /\ s.pkt_id_seq \in Nat /\ s.nreq \in Nat /\ s.pkt_id_seq <= s.nreq
  <2>1. /\ s.pkt_id_seq \in 0 .. IdMod - 1 /\ s.nreq \in 0 .. MaxReqs
        /\ IdMod \in Nat /\ MaxReqs \in Nat
    BY StateFields, Constants
  <2> QED
    BY <2>1 DEF Asked
<1>4. t.pkt_id_seq \in {s.pkt_id_seq, s.pkt_id_seq + 1}
  BY <1>2, NewIdNext
<1>5. /\ s.pkt_id_seq <= t.pkt_id_seq /\ t.pkt_id_seq <= t.nreq
      /\ t.pkt_id_seq \in Nat
  BY <1>2, <1>3, <1>4
<1>6. \A k \in t.qos0 : k <= t.nreq
  <2> SUFFICES ASSUME NEW k \in t.qos0 PROVE k <= t.nreq
    OBVIOUS
  <2>1. k \in Nat /\ k <= s.nreq
    BY <1>2, StateFields DEF Asked
  <2> QED
    BY <1>2, <1>3, <2>1
<1>7. \A i \in 1 .. Len(t.pend) :
        /\ t.pend[i].pkt_id <= t.pkt_id_seq
        /\ t.pend[i].pkt_id = 0 <=> t.pend[i].k \in t.qos0
  <2> SUFFICES ASSUME NEW i \in 1 .. Len(t.pend)
               PROVE  /\ t.pend[i].pkt_id <= t.pkt_id_seq
                      /\ t.pend[i].pkt_id = 0 <=> t.pend[i].k \in t.qos0
    OBVIOUS
  <2>1. /\ s.pend[i].pkt_id <= s.pkt_id_seq
        /\ s.pend[i].pkt_id = 0 <=> s.pend[i].k \in s.qos0
    BY <1>2 DEF Asked
  <2>2. s.pend[i].pkt_id \in Nat
    <3>1. s.pend \in Seq(PendReq)
      BY StateFields
    <3> QED
      BY <1>2, <3>1, Entries
  <2> QED
    BY <1>2, <1>3, <1>5, <2>1, <2>2
<1>8. ASSUME NEW x \in Msg, Own(s, x) PROVE Own(t, x)
  <2>1. x.id \in 1 .. s.pkt_id_seq
    BY <1>8 DEF Own
  <2>2. x.id \in 1 .. t.pkt_id_seq
    BY <1>3, <1>5, <2>1
  <2> QED
    BY <1>2, <1>8, <2>2 DEF Own
<1>9. /\ \A x \in Msg : Outgoing(t, x) => Asking(t, x)
      /\ \A x \in Msg : Has(t.rx, x) => Answering(t, x)
      /\ \A k \in Requests : t.req[k] = "ERR_OK" => k \in t.served \cup t.qos0
  BY <1>2, <1>8 DEF Asked, Outgoing, Asking, Answering
<1>10. Asked(t)
  BY <1>5, <1>6, <1>7, <1>9 DEF Asked
<1>11. Among(t.pend, s.pend)
  BY <1>2, AmongSelf
<1>12. \A j \in 1 .. Len(t.pend) :
         \E i \in 1 .. Len(s.pend) : /\ s.pend[i].pkt_id = t.pend[j].pkt_id
                                     /\ s.pend[i].k = t.pend[j].k
  BY <1>11 DEF Among
<1>13. \A k \in Requests : NewRequest(s.req[k], t.req[k])
  <2>1. t.req = s.req
    BY <1>2
  <2> QED
    BY <2>1, Zenon DEF NewRequest
<1>14. t.served = s.served
  BY <1>2
<1> QED
  BY <1>5, <1>10, <1>12, <1>13, <1>14 DEF Requested

(* A new request in the queue.                                             *)
IsNew(s, kind, t) ==
  /\ t.nreq = s.nreq + 1 /\ t.ring = s.ring /\ t.tx = s.tx /\ t.rx = s.rx
  /\ t.served = s.served
  /\ t.req = [s.req EXCEPT ![s.nreq + 1] = "pending"]
  /\ Len(t.pend) = Len(s.pend) + 1
  /\ \A i \in 1 .. Len(s.pend) : t.pend[i] = s.pend[i]
  /\ t.pend[Len(s.pend) + 1].k = s.nreq + 1
  /\ t.pend[Len(s.pend) + 1].pkt_id
       = IF kind = "PUBLISH0" THEN 0 ELSE s.pkt_id_seq + 1
  /\ t.pkt_id_seq = IF kind = "PUBLISH0" THEN s.pkt_id_seq ELSE s.pkt_id_seq + 1
  /\ t.qos0 = IF kind = "PUBLISH0" THEN s.qos0 \cup {s.nreq + 1} ELSE s.qos0

LEMMA EnqueuedIsNew ==
  ASSUME NEW s \in State, Asked(s), IdsLast, s.nreq < MaxReqs, NEW kind,
         NEW t, t = Enqueued(s, kind)
  PROVE  IsNew(s, kind, t)
<1>1. IsEnqueued(s, kind, t)
  BY EnqueuedIs
<1>2. NewId(s, kind) = IF kind = "PUBLISH0" THEN 0 ELSE s.pkt_id_seq + 1
  BY NewIdNext
<1>3. s.pkt_id_seq \in Nat
  <2>1. s.pkt_id_seq \in 0 .. IdMod - 1
    BY StateFields
  <2> QED
    BY <2>1, Constants
<1>4. t.pkt_id_seq = IF kind = "PUBLISH0" THEN s.pkt_id_seq ELSE s.pkt_id_seq + 1
  BY <1>1, <1>2, <1>3 DEF IsEnqueued
<1>5. PICK r : r = NewReq(s, kind)
  OBVIOUS
<1>6. r \in PendReq /\ r.k = s.nreq + 1 /\ r.pkt_id = NewId(s, kind)
  BY <1>5, NewReqType, NewReqFields
<1>7. Extended(s.pend, r, t.pend)
  <2>1. s.pend \in Seq(PendReq)
    BY StateFields
  <2>2. t.pend = AppendRequest(s.pend, r)
    BY <1>1, <1>5 DEF IsEnqueued
  <2> QED
    BY <1>6, <2>1, <2>2, AppendRequestIs
<1>8. /\ Len(t.pend) = Len(s.pend) + 1
      /\ \A i \in 1 .. Len(s.pend) : t.pend[i] = s.pend[i]
      /\ t.pend[Len(s.pend) + 1].k = s.nreq + 1
      /\ t.pend[Len(s.pend) + 1].pkt_id
           = IF kind = "PUBLISH0" THEN 0 ELSE s.pkt_id_seq + 1
  BY <1>2, <1>6, <1>7 DEF Extended
<1> QED
  BY <1>1, <1>4, <1>8 DEF IsEnqueued, IsNew, SameLink

LEMMA NewAsked ==
  ASSUME NEW s \in State, Asked(s), s.nreq < MaxReqs,
         NEW kind, NEW t, IsNew(s, kind, t),
         Queued(s.pend, s.req, s.nreq)
  PROVE  Requested(s, t, kind)
<1>1. /\ s.pkt_id_seq \in Nat /\ s.nreq \in Nat /\ s.pkt_id_seq <= s.nreq
      /\ s.nreq + 1 \in Requests /\ s.req \in [Requests -> Fate]
  <2>1. /\ s.pkt_id_seq \in 0 .. IdMod - 1 /\ s.nreq \in 0 .. MaxReqs
        /\ IdMod \in Nat /\ MaxReqs \in Nat /\ s.req \in [Requests -> Fate]
    BY StateFields, Constants
  <2> QED
    BY <2>1 DEF Asked, Requests
<1>2. \A i \in 1 .. Len(s.pend) : s.pend[i].pkt_id \in Nat /\ s.pend[i].k \in Nat
  <2>1. s.pend \in Seq(PendReq)
    BY StateFields
  <2> QED
    BY <2>1, Entries
<1>3. Len(s.pend) \in Nat
  BY StateFields
<1>4. \A k \in s.qos0 : k \in Nat /\ k <= s.nreq
  BY StateFields DEF Asked
<1>5. /\ t.pkt_id_seq \in Nat /\ s.pkt_id_seq <= t.pkt_id_seq
      /\ t.pkt_id_seq <= t.nreq
  <2>1. CASE kind = "PUBLISH0"
    BY <1>1, <2>1 DEF IsNew
  <2>2. CASE kind # "PUBLISH0"
    BY <1>1, <2>2 DEF IsNew
  <2> QED
    BY <2>1, <2>2
<1>6. \A k \in t.qos0 : k <= t.nreq
  <2> SUFFICES ASSUME NEW k \in t.qos0 PROVE k <= t.nreq
    OBVIOUS
  <2>1. k \in s.qos0 \/ k = s.nreq + 1
    BY DEF IsNew
  <2> QED
    BY <1>1, <1>4, <2>1 DEF IsNew
<1>7. ASSUME NEW j \in 1 .. Len(t.pend)
      PROVE  \/ j \in 1 .. Len(s.pend) /\ t.pend[j] = s.pend[j]
             \/ /\ t.pend[j].k = s.nreq + 1
                /\ t.pend[j].pkt_id = IF kind = "PUBLISH0" THEN 0
                                      ELSE s.pkt_id_seq + 1
  BY <1>3 DEF IsNew
<1>8. ASSUME NEW i \in 1 .. Len(s.pend) PROVE s.pend[i].k <= s.nreq
  <2>1. s.pend[i].k \in Requests /\ s.req[s.pend[i].k] = "pending"
    BY DEF Queued
  <2>2. ~(s.pend[i].k > s.nreq)
    BY <2>1 DEF Queued
  <2> QED
    BY <1>1, <1>2, <2>2
<1>9. ASSUME NEW j \in 1 .. Len(t.pend)
      PROVE  /\ t.pend[j].pkt_id <= t.pkt_id_seq
             /\ t.pend[j].pkt_id = 0 <=> t.pend[j].k \in t.qos0
  <2>1. CASE j \in 1 .. Len(s.pend) /\ t.pend[j] = s.pend[j]
    <3>1. /\ s.pend[j].pkt_id <= s.pkt_id_seq
          /\ s.pend[j].pkt_id = 0 <=> s.pend[j].k \in s.qos0
      BY <2>1 DEF Asked
    <3>2. s.pend[j].pkt_id <= t.pkt_id_seq
      BY <1>1, <1>2, <1>5, <2>1, <3>1
    <3>3. s.pend[j].k # s.nreq + 1
      BY <1>1, <1>2, <1>8, <2>1
    <3>4. s.pend[j].k \in t.qos0 <=> s.pend[j].k \in s.qos0
      BY <3>3 DEF IsNew
    <3> QED
      BY <2>1, <3>1, <3>2, <3>4
  <2>2. CASE /\ t.pend[j].k = s.nreq + 1
             /\ t.pend[j].pkt_id = IF kind = "PUBLISH0" THEN 0
                                   ELSE s.pkt_id_seq + 1
    <3>1. s.nreq + 1 \notin s.qos0
      BY <1>1, <1>4
    <3>2. CASE kind = "PUBLISH0"
      BY <1>1, <2>2, <3>2 DEF IsNew
    <3>3. CASE kind # "PUBLISH0"
      BY <1>1, <2>2, <3>1, <3>3 DEF IsNew
    <3> QED
      BY <3>2, <3>3
  <2> QED
    BY <1>7, <2>1, <2>2
<1>10. ASSUME NEW x \in Msg, Own(s, x) PROVE Own(t, x)
  <2>1. x.id \in 1 .. s.pkt_id_seq
    BY <1>10 DEF Own
  <2>2. x.id \in 1 .. t.pkt_id_seq
    BY <1>1, <1>5, <2>1
  <2>3. ASSUME NEW j \in 1 .. Len(t.pend), t.pend[j].pkt_id = x.id
        PROVE  t.pend[j].k = x.k
    <3>1. x.id # 0 /\ x.id # s.pkt_id_seq + 1
      BY <1>1, <2>1
    <3>2. j \in 1 .. Len(s.pend) /\ t.pend[j] = s.pend[j]
      BY <1>7, <2>3, <3>1
    <3> QED
      BY <1>10, <2>3, <3>2 DEF Own
  <2> QED
    BY <2>2, <2>3 DEF Own
<1>11. /\ \A x \in Msg : Outgoing(t, x) => Asking(t, x)
       /\ \A x \in Msg : Has(t.rx, x) => Answering(t, x)
  BY <1>10 DEF Asked, Outgoing, Asking, Answering, IsNew
<1>12. ASSUME NEW k \in Requests
       PROVE  /\ NewRequest(s.req[k], t.req[k])
              /\ t.req[k] = "ERR_OK" => k \in t.served \cup t.qos0
  <2>1. t.req[k] = IF k = s.nreq + 1 THEN "pending" ELSE s.req[k]
    BY <1>1 DEF IsNew
  <2>2. s.req[s.nreq + 1] = "none"
    <3>1. s.nreq + 1 > s.nreq
      BY <1>1
    <3> QED
      BY <1>1, <3>1 DEF Queued
  <2>3. s.served \subseteq t.served /\ s.qos0 \subseteq t.qos0
    BY DEF IsNew
  <2>4. s.req[k] = "ERR_OK" => k \in s.served \cup s.qos0
    BY DEF Asked
  <2>5. CASE k = s.nreq + 1
    BY <2>1, <2>2, <2>5 DEF NewRequest
  <2>6. CASE k # s.nreq + 1
    <3>1. t.req[k] = s.req[k]
      BY <2>1, <2>6
    <3>2. NewRequest(s.req[k], t.req[k])
      BY <3>1, Zenon DEF NewRequest
    <3> QED
      BY <2>3, <2>4, <3>1, <3>2
  <2> QED
    BY <2>5, <2>6
<1>13. Asked(t)
  BY <1>5, <1>6, <1>9, <1>11, <1>12 DEF Asked
<1>14. \A j \in 1 .. Len(t.pend) :
         \/ \E i \in 1 .. Len(s.pend) : /\ s.pend[i].pkt_id = t.pend[j].pkt_id
                                        /\ s.pend[i].k = t.pend[j].k
         \/ t.pend[j].pkt_id > s.pkt_id_seq
         \/ kind = "PUBLISH0"
  <2> SUFFICES ASSUME NEW j \in 1 .. Len(t.pend), kind # "PUBLISH0"
               PROVE  \/ \E i \in 1 .. Len(s.pend) :
                           /\ s.pend[i].pkt_id = t.pend[j].pkt_id
                           /\ s.pend[i].k = t.pend[j].k
                      \/ t.pend[j].pkt_id > s.pkt_id_seq
    OBVIOUS
  <2>1. CASE j \in 1 .. Len(s.pend) /\ t.pend[j] = s.pend[j]
    BY <2>1
  <2>2. CASE t.pend[j].pkt_id = s.pkt_id_seq + 1
    BY <1>1, <2>2
  <2> QED
    BY <1>7, <2>1, <2>2
<1> QED
  BY <1>5, <1>12, <1>13, <1>14 DEF Requested, IsNew

(* mqtt_publish and mqtt_sub_unsub.                                        *)
LEMMA RequestAsked ==
  ASSUME NEW s, Core(s, 0), Asked(s), IdsLast, NEW kind \in AskKinds,
         s.nreq < MaxReqs, NEW t, t = Request(s, kind)
  PROVE  Requested(s, t, kind)
<1>1. s \in State /\ Queued(s.pend, s.req, s.nreq)
  BY DEF Core
<1>2. /\ s.pkt_id_seq \in Nat /\ s.pkt_id_seq <= s.pkt_id_seq
  <2>1. s.pkt_id_seq \in 0 .. IdMod - 1
    BY <1>1, StateFields
  <2> QED
    BY <2>1, Constants
<1>3. CASE t = s
  <2>1. \A j \in 1 .. Len(t.pend) :
          \E i \in 1 .. Len(s.pend) : /\ s.pend[i].pkt_id = t.pend[j].pkt_id
                                      /\ s.pend[i].k = t.pend[j].k
    BY <1>3, AmongSelf DEF Among
  <2>2. \A k \in Requests : NewRequest(s.req[k], t.req[k])
    BY <1>3, Zenon DEF NewRequest
  <2> QED
    BY <1>2, <1>3, <2>1, <2>2 DEF Requested
<1>4. CASE t = Numbered(s, kind)
  BY <1>1, <1>4, NumberedAsked
<1>5. CASE /\ s.conn_state # "TCP_DISCONNECTED"
           /\ t = Send(Append1(Enqueued(s, kind), NewMsg(s, kind)))
  <2>1. PICK e : e = Enqueued(s, kind)
    OBVIOUS
  <2>2. PICK msg : msg = NewMsg(s, kind)
    OBVIOUS
  <2>3. PICK a : a = Append1(e, msg)
    OBVIOUS
  <2>4. IsNew(s, kind, e)
    BY <1>1, <2>1, EnqueuedIsNew
  <2>5. Requested(s, e, kind)
    BY <1>1, <2>4, NewAsked
  <2>6. e \in State
    BY <1>1, <2>1, EnqueuedIs DEF IsEnqueued
  <2>7. msg \in Msg
    BY <1>1, <2>2, NewMsgType
  <2>8. Asking(e, msg)
    <3>1. CASE kind = "PUBLISH0"
      BY <2>2, <3>1 DEF Asking, AskTypes, NewMsg
    <3>2. CASE kind # "PUBLISH0"
      <4>1. msg.id = s.pkt_id_seq + 1 /\ msg.k = s.nreq + 1
        BY <1>1, <2>2, <3>2, NewIdNext DEF NewMsg
      <4>2. msg.id \in 1 .. e.pkt_id_seq
        BY <1>2, <2>4, <3>2, <4>1 DEF IsNew
      <4>3. ASSUME NEW j \in 1 .. Len(e.pend), e.pend[j].pkt_id = msg.id
            PROVE  e.pend[j].k = msg.k
        <5>1. Len(s.pend) \in Nat /\ Len(e.pend) = Len(s.pend) + 1
          BY <1>1, <2>4, StateFields DEF IsNew
        <5>2. CASE j = Len(s.pend) + 1
          BY <2>4, <4>1, <5>2 DEF IsNew
        <5>3. CASE j # Len(s.pend) + 1
          <6>1. j \in 1 .. Len(s.pend)
            BY <5>1, <5>3
          <6>2. e.pend[j] = s.pend[j] /\ s.pend[j].pkt_id <= s.pkt_id_seq
            BY <2>4, <6>1 DEF IsNew, Asked
          <6>3. s.pend[j].pkt_id \in Nat
            <7>1. s.pend \in Seq(PendReq)
              BY <1>1, StateFields
            <7> QED
              BY <6>1, <7>1, Entries
          <6> QED
            BY <1>2, <4>1, <4>3, <6>2, <6>3
        <5> QED
          BY <5>2, <5>3
      <4> QED
        BY <4>2, <4>3 DEF Asking, Own
    <3> QED
      BY <3>1, <3>2
  <2>9. Asked(a) /\ a \in State /\ a.pkt_id_seq = e.pkt_id_seq /\ a.pend = e.pend
        /\ a.served = e.served /\ a.req = e.req
    BY <2>3, <2>5, <2>6, <2>7, <2>8, Append1Asked, Append1Fields DEF Requested
  <2>10. Asked(t) /\ t.pkt_id_seq = a.pkt_id_seq /\ t.pend = a.pend
         /\ t.served = a.served /\ t.req = a.req
    BY <1>5, <2>1, <2>2, <2>3, <2>9, SendAsked, SendFields
  <2> QED
    BY <2>5, <2>9, <2>10 DEF Requested
<1> QED
  BY <1>3, <1>4, <1>5, RequestCases

-----------------------------------------------------------------------------
(***************************************************************************)
(* Connecting and closing.                                                 *)
(***************************************************************************)
NoneYet == [k \in Requests |-> "none"]

LEMMA ClearedAsked ==
  ASSUME NEW s, Asked(s), NEW t, t.pend = <<>>, t.tx = <<>>, t.rx = <<>>,
         t.ring = s.ring, t.req = Dropped(s.req), t.pkt_id_seq = s.pkt_id_seq,
         t.nreq = s.nreq, t.qos0 = s.qos0, t.served = s.served
  PROVE  Asked(t)
<1>1. Among(t.pend, s.pend)
  BY DEF Among
<1>2. \A x \in Msg : Outgoing(t, x) => Outgoing(s, x)
  BY HasEmpty DEF Outgoing
<1>3. \A x \in Msg : ~Has(t.rx, x)
  BY HasEmpty
<1>4. \A k \in Requests : t.req[k] = "ERR_OK" => s.req[k] = "ERR_OK"
  BY DEF Dropped
<1>5. Follows(s, t)
  BY <1>1, <1>2, <1>3, <1>4 DEF Follows
<1> QED
  BY <1>5, FollowsAsked

LEMMA WipeAsked ==
  ASSUME NEW s \in State, NEW t, t.pend = <<>>, t.rx = <<>>, t.tx = <<>>,
         \A x \in Msg : Has(t.ring, x) => x.type \notin AskTypes,
         t.nreq = 0, t.pkt_id_seq = 0, t.served = {}, t.qos0 = {}, t.req = NoneYet
  PROVE  Asked(t)
<1>1. \A x \in Msg : ~Has(t.rx, x) /\ ~Has(t.tx, x)
  BY HasEmpty
<1>2. \A k \in Requests : t.req[k] # "ERR_OK"
  BY DEF NoneYet
<1>3. \A x \in Msg : Outgoing(t, x) => Asking(t, x)
  BY <1>1 DEF Outgoing, Asking
<1> QED
  BY <1>1, <1>2, <1>3 DEF Asked

LEMMA ClientConnectAsked ==
  ASSUME NEW s \in State, s.conn_state = "TCP_DISCONNECTED",
         NEW t, t = ClientConnect(s)
  PROVE  Asked(t) /\ t.req = NoneYet
<1>1. CASE t = Wipe(s)
  <2>1. /\ t.pend = <<>> /\ t.ring = <<>> /\ t.tx = <<>> /\ t.rx = <<>>
        /\ t.nreq = 0 /\ t.req = [k \in Requests |-> "none"]
        /\ t.pkt_id_seq = 0 /\ t.served = {} /\ t.qos0 = {}
    BY <1>1, WipeIs
  <2> QED
    BY <2>1, HasEmpty, WipeAsked DEF NoneYet
<1>2. CASE t = Append1(Opened(Wipe(s)), ConnectMsg)
  <2>1. PICK o : o = Opened(Wipe(s))
    OBVIOUS
  <2>2. /\ o \in State /\ o.pend = <<>> /\ o.ring = <<>> /\ o.tx = <<>>
        /\ o.rx = <<>> /\ o.nreq = 0 /\ o.req = [k \in Requests |-> "none"]
        /\ o.pkt_id_seq = 0 /\ o.served = {} /\ o.qos0 = {}
    BY <2>1, OpenedIs
  <2>3. ConnectMsg \in Msg /\ ConnectMsg.type \notin AskTypes
    BY ConnectMsgType DEF AskTypes
  <2>4. t = Append1(o, ConnectMsg)
    BY <1>2, <2>1
  <2>5. Asked(o)
    BY <2>2, HasEmpty, WipeAsked DEF NoneYet
  <2>6. Asked(t)
    BY <2>2, <2>3, <2>4, <2>5, Append1Asked DEF Asking
  <2>7. t.req = o.req
    BY <2>2, <2>3, <2>4, Append1Fields
  <2> QED
    BY <2>2, <2>6, <2>7 DEF NoneYet
<1> QED
  BY <1>1, <1>2, ClientConnectCases

(* The session is over, or the next one opened from its callback.          *)
Over(s, t) ==
  /\ Asked(t)
  /\ \/ t.conn_state = "TCP_DISCONNECTED" /\ t.req = Dropped(s.req)
     \/ /\ t.conn_state \in {"TCP_DISCONNECTED", "TCP_CONNECTING"}
        /\ t.req = NoneYet

LEMMA CloseOver ==
  ASSUME NEW s, Closable(s), Asked(s), NEW reason,
         reason # "MQTT_CONNECT_ACCEPTED", NEW t, t = Close(s, reason)
  PROVE  Over(s, t)
<1>1. PICK c : c = Closed(s)
  OBVIOUS
<1>2. s \in State
  BY DEF Closable
<1>3. IsClosed(s, c)
  BY <1>1, <1>2, ClosedIs
<1>4. /\ c.pend = <<>> /\ c.tx = <<>> /\ c.rx = <<>> /\ c.ring = s.ring
      /\ c.req = Dropped(s.req) /\ c.pkt_id_seq = s.pkt_id_seq
      /\ c.nreq = s.nreq /\ c.qos0 = s.qos0 /\ c.served = s.served
      /\ c.conn_state = s.conn_state /\ c \in State
  BY <1>3 DEF IsClosed
<1>5. CASE s.conn_state = "TCP_DISCONNECTED"
  <2>1. t = c
    BY <1>1, <1>5 DEF Close, Closed
  <2> QED
    BY <1>4, <1>5, <2>1, ClearedAsked DEF Over
<1>6. CASE s.conn_state # "TCP_DISCONNECTED"
  <2>1. PICK u : u = [c EXCEPT !.conn_state = "TCP_DISCONNECTED"]
    OBVIOUS
  <2>2. u \in State
    <3>1. "TCP_DISCONNECTED" \in ConnStates
      BY DEF ConnStates
    <3> QED
      BY <1>4, <2>1, <3>1, ZenonT(60) DEF State
  <2>3. /\ u.pend = <<>> /\ u.tx = <<>> /\ u.rx = <<>> /\ u.ring = s.ring
        /\ u.req = Dropped(s.req) /\ u.pkt_id_seq = s.pkt_id_seq
        /\ u.nreq = s.nreq /\ u.qos0 = s.qos0 /\ u.served = s.served
        /\ u.conn_state = "TCP_DISCONNECTED"
    BY <1>3, <2>2, <2>1, ClosedCore
  <2>4. Asked(u)
    BY <2>3, ClearedAsked
  <2>5. t = u \/ t = ClientConnect(u)
    BY <1>1, <1>6, <2>1 DEF Close, ConnectCb, Closed
  <2>6. CASE t = u
    BY <2>3, <2>4, <2>6 DEF Over
  <2>7. CASE t = ClientConnect(u)
    <3>1. Asked(t) /\ t.req = NoneYet
      BY <2>2, <2>3, <2>7, ClientConnectAsked
    <3>2. t.conn_state \in {"TCP_DISCONNECTED", "TCP_CONNECTING"}
      BY <2>2, <2>3, <2>7, ClientConnectCore DEF Connected
    <3> QED
      BY <3>1, <3>2 DEF Over
  <2> QED
    BY <2>5, <2>6, <2>7
<1> QED
  BY <1>5, <1>6

LEMMA DisconnectOver ==
  ASSUME NEW s, Closable(s), Asked(s), s.conn_state # "TCP_DISCONNECTED",
         NEW t, t = Disconnect(s)
  PROVE  /\ Asked(t) /\ t.conn_state = "TCP_DISCONNECTED"
         /\ t.req = Dropped(s.req) /\ t.pend = <<>>
         /\ t.pkt_id_seq = s.pkt_id_seq /\ t.served = s.served
<1>1. /\ t.conn_state = "TCP_DISCONNECTED" /\ t.pend = <<>>
      /\ t.req = Dropped(s.req) /\ t.rx = <<>> /\ t.pkt_id_seq = s.pkt_id_seq
      /\ t.ring = s.ring /\ t.tx = <<>> /\ t.nreq = s.nreq /\ t.qos0 = s.qos0
      /\ t.served = s.served
  BY DisconnectCore
<1> QED
  BY <1>1, ClearedAsked

-----------------------------------------------------------------------------
(***************************************************************************)
(* What a handler makes of the requests.                                   *)
(***************************************************************************)
LEMMA TakeAmong ==
  ASSUME NEW pend \in Seq(PendReq), NEW id, HasRequest(pend, id),
         NEW q, q = TakeRequest(pend, id)
  PROVE  Among(q, pend) /\ pend[FindRequest(pend, id)].pkt_id = id
<1>1. PICK i : i = FindRequest(pend, id)
  OBVIOUS
<1>2. /\ i \in 1 .. Len(pend) /\ pend[i].pkt_id = id
      /\ Len(q) = Len(pend) - 1 /\ Len(pend) \in Nat
      /\ \A j \in 1 .. i - 1 : q[j] = pend[j]
      /\ \A j \in i .. Len(pend) - 1 : /\ q[j].pkt_id = pend[j + 1].pkt_id
                                       /\ q[j].k = pend[j + 1].k
  BY <1>1, TakeRequestFields
<1>3. ASSUME NEW j \in 1 .. Len(q)
      PROVE  \E l \in 1 .. Len(pend) : /\ pend[l].pkt_id = q[j].pkt_id
                                       /\ pend[l].k = q[j].k
  <2>1. CASE j < i
    <3>1. j \in 1 .. i - 1 /\ j \in 1 .. Len(pend)
      BY <1>2, <2>1
    <3> QED
      BY <1>2, <3>1
  <2>2. CASE ~(j < i)
    <3>1. j \in i .. Len(pend) - 1 /\ j + 1 \in 1 .. Len(pend)
      BY <1>2, <2>2
    <3> QED
      BY <1>2, <3>1
  <2> QED
    BY <2>1, <2>2
<1> QED
  BY <1>1, <1>2, <1>3 DEF Among

LEMMA TailAmong ==
  ASSUME NEW pend \in Seq(PendReq), pend # <<>>, NEW q, q = Tail(pend)
  PROVE  Among(q, pend)
<1>1. ASSUME NEW j \in 1 .. Len(q)
      PROVE  j + 1 \in 1 .. Len(pend) /\ q[j] = pend[j + 1]
  OBVIOUS
<1> QED
  BY <1>1 DEF Among

(* How a request may go on in a handler: one that was pending may end, or  *)
(* be dropped when the connection goes down; a new one is only pending.    *)
Outcomes(from, new, down) ==
  CASE from = "pending" -> Ends \cup {IF down THEN "dropped" ELSE "pending"}
    [] from = "none" -> IF new THEN {"none", "pending"} ELSE {"none"}
    [] OTHER -> {from}

(* A handler has made t of s: `new' when it began with the CONNACK that    *)
(* made the application send its two requests.  Only requests with newer   *)
(* identifiers are new.                                                    *)
Works(s, t, new) ==
  /\ Asked(t)
  /\ s.pkt_id_seq <= t.pkt_id_seq /\ t.pkt_id_seq \in Nat
  /\ t.served = s.served
  /\ \A j \in 1 .. Len(t.pend) : t.pend[j].pkt_id <= s.pkt_id_seq =>
       \E i \in 1 .. Len(s.pend) : /\ s.pend[i].pkt_id = t.pend[j].pkt_id
                                   /\ s.pend[i].k = t.pend[j].k
  /\ IF new THEN t.conn_state = "MQTT_CONNECTED"
     ELSE /\ t.conn_state \in {s.conn_state, "TCP_DISCONNECTED"}
          /\ t.pkt_id_seq = s.pkt_id_seq
  /\ \A k \in Requests :
       t.req[k] \in Outcomes(s.req[k], new, t.conn_state = "TCP_DISCONNECTED")

LEMMA WorksFrame ==
  ASSUME NEW s, NEW u, NEW new, Works(s, u, new), NEW t, Asked(t),
         t.pkt_id_seq = u.pkt_id_seq, t.pend = u.pend, t.served = u.served,
         t.req = u.req, t.conn_state = u.conn_state
  PROVE  Works(s, t, new)
  BY DEF Works

LEMMA WorksSelf ==
  ASSUME NEW s \in State, Asked(s), s.conn_state # "TCP_DISCONNECTED"
  PROVE  Works(s, s, FALSE)
<1>1. s.pkt_id_seq \in Nat /\ s.pkt_id_seq <= s.pkt_id_seq
  <2>1. s.pkt_id_seq \in 0 .. IdMod - 1
    BY StateFields
  <2> QED
    BY <2>1, Constants
<1>2. \A k \in Requests : s.req[k] \in Outcomes(s.req[k], FALSE, FALSE)
  BY DEF Outcomes
<1>3. \A j \in 1 .. Len(s.pend) : 
        \E i \in 1 .. Len(s.pend) : /\ s.pend[i].pkt_id = s.pend[j].pkt_id
                                    /\ s.pend[i].k = s.pend[j].k
  OBVIOUS
<1>4. (s.conn_state = "TCP_DISCONNECTED") = FALSE
  OBVIOUS
<1> QED
  BY <1>1, <1>2, <1>3, <1>4 DEF Works

(* A request of s ends with err in the course of the handler.              *)
LEMMA EndWorks ==
  ASSUME NEW s, Queued(s.pend, s.req, s.nreq), NEW u, NEW left, Core(u, left),
         NEW new \in BOOLEAN, Works(s, u, new),
         NEW i \in 1 .. Len(u.pend), u.pend[i].pkt_id <= s.pkt_id_seq,
         NEW q, Without(u.pend, i, q), Among(q, u.pend),
         NEW err \in Ends, err = "ERR_OK" => u.pend[i].k \in u.served \cup u.qos0,
         new => err = "ERR_OK",
         NEW t, t = RequestCb([u EXCEPT !.pend = q], u.pend[i], err)
  PROVE  Works(s, t, new)
<1>1. /\ u \in State /\ u.pend \in Seq(PendReq) /\ u.req \in [Requests -> Fate]
      /\ u.nreq \in Nat /\ Queued(u.pend, u.req, u.nreq)
  <2>1. u \in State /\ Queued(u.pend, u.req, u.nreq)
    BY DEF Core
  <2>2. u.nreq \in Nat
    BY <2>1, StateFields, Constants
  <2> QED
    BY <2>1, <2>2, StateFields
<1>2. PICK k \in Requests : k = u.pend[i].k
  BY <1>1 DEF Queued
<1>3. err \in Fate /\ err # "pending"
  BY DEF Ends, Fate
<1>4. q \in Seq(PendReq)
  BY DEF Without
<1>5. PICK e : e = WithEnd(u, i, q, err)
  OBVIOUS
<1>6. IsWithEnd(u, i, q, err, e)
  BY <1>1, <1>2, <1>3, <1>4, <1>5, WithEndIs
<1>7. Queued(q, [u.req EXCEPT ![u.pend[i].k] = err], u.nreq)
  <2>1. /\ Len(q) = Len(u.pend) - 1
        /\ \A j \in 1 .. i - 1 : q[j].k = u.pend[j].k
        /\ \A j \in i .. Len(u.pend) - 1 : q[j].k = u.pend[j + 1].k
    BY DEF Without
  <2> QED
    BY <1>1, <1>3, <2>1, QueuedEnd
<1>8. /\ e \in State /\ e.pend = q /\ e.req = [u.req EXCEPT ![k] = err]
      /\ e.pkt_id_seq = u.pkt_id_seq /\ e.nreq = u.nreq /\ e.qos0 = u.qos0
      /\ e.served = u.served /\ e.ring = u.ring /\ e.tx = u.tx /\ e.rx = u.rx
      /\ e.conn_state = u.conn_state /\ e.firstOut = u.firstOut
  BY <1>2, <1>6 DEF IsWithEnd
<1>9. Closable(e) /\ e.conn_state # "TCP_DISCONNECTED"
  <2>1. Queued(e.pend, e.req, e.nreq)
    BY <1>2, <1>7, <1>8
  <2>2. Len(e.ring) <= RingCap /\ e.firstOut \in {"none", "CONNECT"}
    BY <1>8 DEF Core, Room, First
  <2>3. u.conn_state # "TCP_DISCONNECTED"
    BY <1>1 DEF Core, Idle
  <2> QED
    BY <1>8, <2>1, <2>2, <2>3 DEF Closable
<1>10. Asked(e)
  <2>1. \A x \in Msg : Outgoing(e, x) => Outgoing(u, x)
    BY <1>8 DEF Outgoing
  <2>2. \A x \in Msg : Has(e.rx, x) => Has(u.rx, x)
    BY <1>8
  <2>3. ASSUME NEW l \in Requests, e.req[l] = "ERR_OK"
        PROVE  u.req[l] = "ERR_OK" \/ l \in e.served \cup e.qos0
    BY <1>1, <1>2, <1>8, <2>3
  <2>4. Follows(u, e)
    BY <1>8, <2>1, <2>2, <2>3 DEF Follows
  <2> QED
    BY <2>4, FollowsAsked DEF Works
<1>11. s.req[k] = "pending"
  <2>1. PICK j \in 1 .. Len(s.pend) : s.pend[j].k = u.pend[i].k
    BY DEF Works
  <2> QED
    BY <1>2, <2>1 DEF Queued
<1>12. ASSUME NEW l \in Requests
       PROVE  e.req[l] \in Outcomes(s.req[l], new, e.conn_state = "TCP_DISCONNECTED")
  <2>1. CASE l = k
    <3>1. e.req[l] = err
      BY <1>1, <1>8, <2>1
    <3> QED
      BY <1>11, <2>1, <3>1 DEF Outcomes
  <2>2. CASE l # k
    <3>1. e.req[l] = u.req[l]
      BY <1>1, <1>8, <2>2
    <3> QED
      BY <1>8, <3>1 DEF Works
  <2> QED
    BY <2>1, <2>2
<1>13. ASSUME NEW j \in 1 .. Len(e.pend), e.pend[j].pkt_id <= s.pkt_id_seq
       PROVE  \E l \in 1 .. Len(s.pend) : /\ s.pend[l].pkt_id = e.pend[j].pkt_id
                                          /\ s.pend[l].k = e.pend[j].k
  <2>1. PICK h \in 1 .. Len(u.pend) : /\ u.pend[h].pkt_id = e.pend[j].pkt_id
                                      /\ u.pend[h].k = e.pend[j].k
    BY <1>8 DEF Among
  <2> QED
    BY <1>13, <2>1 DEF Works
<1>14. Works(s, e, new)
  <2>1. s.pkt_id_seq <= e.pkt_id_seq /\ e.pkt_id_seq \in Nat /\ e.served = s.served
    BY <1>8 DEF Works
  <2>2. IF new THEN e.conn_state = "MQTT_CONNECTED"
        ELSE /\ e.conn_state \in {s.conn_state, "TCP_DISCONNECTED"}
             /\ e.pkt_id_seq = s.pkt_id_seq
    BY <1>8 DEF Works
  <2> QED
    BY <1>10, <1>12, <1>13, <2>1, <2>2 DEF Works
<1>15. CASE t = e
  BY <1>14, <1>15
<1>16. CASE err # "ERR_OK" /\ t = Disconnect(e)
  <2>1. /\ Asked(t) /\ t.conn_state = "TCP_DISCONNECTED"
        /\ t.req = Dropped(e.req) /\ t.pend = <<>>
        /\ t.pkt_id_seq = e.pkt_id_seq /\ t.served = e.served
    BY <1>9, <1>10, <1>16, DisconnectOver
  <2>2. new = FALSE
    BY <1>16
  <2>3. ASSUME NEW l \in Requests
        PROVE  t.req[l] \in Outcomes(s.req[l], FALSE, TRUE)
    <3>1. t.req[l] = IF e.req[l] = "pending" THEN "dropped" ELSE e.req[l]
      BY <2>1 DEF Dropped
    <3>2. e.req[l] \in Outcomes(s.req[l], FALSE, FALSE)
      <4>1. (e.conn_state = "TCP_DISCONNECTED") = FALSE
        BY <1>9
      <4> QED
        BY <1>12, <2>2, <4>1
    <3> QED
      BY <3>1, <3>2, Zenon DEF Outcomes, Ends
  <2>4. /\ s.pkt_id_seq <= t.pkt_id_seq /\ t.pkt_id_seq \in Nat
        /\ t.served = s.served /\ t.pkt_id_seq = s.pkt_id_seq
    BY <1>14, <2>1, <2>2 DEF Works
  <2>5. Len(t.pend) = 0
    BY <2>1
  <2>6. (t.conn_state = "TCP_DISCONNECTED") = TRUE
    BY <2>1
  <2>7. \A j \in 1 .. Len(t.pend) : FALSE
    BY <2>5
  <2> QED
    BY <2>1, <2>2, <2>3, <2>4, <2>6, <2>7 DEF Works
<1> QED
  BY <1>1, <1>5, <1>15, <1>16, RequestCbCases

LEMMA OwnLater ==
  ASSUME NEW s \in State, NEW u, NEW new, Works(s, u, new), NEW x, Own(s, x)
  PROVE  Own(u, x)
<1>1. x.id \in 1 .. s.pkt_id_seq /\ s.pkt_id_seq \in Nat
  <2>1. s.pkt_id_seq \in 0 .. IdMod - 1
    BY StateFields
  <2> QED
    BY <2>1, Constants DEF Own
<1>2. x.id \in 1 .. u.pkt_id_seq
  BY <1>1 DEF Works
<1>3. ASSUME NEW j \in 1 .. Len(u.pend), u.pend[j].pkt_id = x.id
      PROVE  u.pend[j].k = x.k
  <2>1. u.pend[j].pkt_id <= s.pkt_id_seq
    BY <1>1, <1>3
  <2>2. PICK i \in 1 .. Len(s.pend) : /\ s.pend[i].pkt_id = u.pend[j].pkt_id
                                      /\ s.pend[i].k = u.pend[j].k
    BY <2>1 DEF Works
  <2> QED
    BY <1>3, <2>2 DEF Own
<1> QED
  BY <1>2, <1>3 DEF Own

(* pub_ack_rec_rel_response.                                               *)
LEMMA PubResponseWorks ==
  ASSUME NEW s, NEW u \in State, NEW new, Works(s, u, new), NEW msg \in Msg,
         NEW type \in MsgTypes, type \in AskTypes => Own(u, msg),
         NEW t, t = PubResponse(u, type, msg)
  PROVE  Works(s, t, new)
<1>1. CASE ~CheckSpace(u)
  BY <1>1 DEF PubResponse
<1>2. CASE CheckSpace(u)
  <2>1. PICK r : r = [msg EXCEPT !.type = type]
    OBVIOUS
  <2>2. r \in Msg /\ r.type = type /\ r.id = msg.id /\ r.k = msg.k
    BY <2>1, MsgWith
  <2>3. PICK a : a = Append1(u, r)
    OBVIOUS
  <2>4. Asked(u)
    BY DEF Works
  <2>5. Asking(u, r)
    BY <2>2 DEF Asking, Own
  <2>6. Asked(a)
    BY <2>2, <2>3, <2>4, <2>5, Append1Asked
  <2>7. /\ a \in State /\ a.pkt_id_seq = u.pkt_id_seq /\ a.pend = u.pend
        /\ a.served = u.served /\ a.req = u.req /\ a.conn_state = u.conn_state
    BY <2>2, <2>3, Append1Fields
  <2>8. t = Send(a)
    BY <1>2, <2>1, <2>3 DEF PubResponse
  <2>9. Asked(t)
    BY <2>6, <2>7, <2>8, SendAsked
  <2>10. /\ t.pkt_id_seq = a.pkt_id_seq /\ t.pend = a.pend
         /\ t.served = a.served /\ t.req = a.req /\ t.conn_state = a.conn_state
    BY <2>7, <2>8, SendFields
  <2>11. /\ t.pkt_id_seq = u.pkt_id_seq /\ t.pend = u.pend
         /\ t.served = u.served /\ t.req = u.req /\ t.conn_state = u.conn_state
    BY <2>7, <2>10
  <2> QED
    BY <2>9, <2>11, WorksFrame
<1> QED
  BY <1>1, <1>2

LEMMA ReceivePublishWorks ==
  ASSUME NEW s, NEW u, Core(u, 0), Data(u), Hand(u), u.data_cb,
         NEW new, Works(s, u, new), NEW msg \in Msg
  PROVE  Works(s, ReceivePublish(u, msg).st, new)
<1>1. [u EXCEPT !.nullCall = u.nullCall \/ ~u.data_cb] = u
  BY CalledIs
<1>2. CASE msg.type = "PUBLISH0"
  <2>1. ReceivePublish(u, msg) = Continue(u)
    BY <1>1, <1>2 DEF ReceivePublish
  <2> QED
    BY <2>1, ContinueIs
<1>3. CASE msg.type # "PUBLISH0"
  <2>1. PICK type : type = IF msg.type = "PUBLISH1" THEN "PUBACK" ELSE "PUBREC"
    OBVIOUS
  <2>2. type \in MsgTypes /\ type \notin AskTypes /\ u \in State
    BY <2>1 DEF MsgTypes, AskTypes, Core
  <2>3. PICK t : t = PubResponse(u, type, msg)
    OBVIOUS
  <2>4. ReceivePublish(u, msg) = Continue(t)
    BY <1>1, <1>3, <2>1, <2>3 DEF ReceivePublish
  <2>5. Works(s, t, new)
    BY <2>2, <2>3, PubResponseWorks
  <2> QED
    BY <2>4, <2>5, ContinueIs
<1> QED
  BY <1>2, <1>3

(* A SUBACK, PUBACK or PUBCOMP ends the request it is for.                 *)
LEMMA ReceiveAnswerWorks ==
  ASSUME NEW s \in State, Queued(s.pend, s.req, s.nreq), NEW u, Core(u, 0),
         NEW new \in BOOLEAN, Works(s, u, new), NEW msg, Own(s, msg),
         msg.type = "SUBACK_DENIED" \/ msg.k \in s.served,
         new => msg.type # "SUBACK_DENIED"
  PROVE  Works(s, ReceiveAnswer(u, msg).st, new)
<1>1. CASE ~HasRequest(u.pend, msg.id)
  BY <1>1, ContinueIs DEF ReceiveAnswer
<1>2. CASE HasRequest(u.pend, msg.id)
  <2>1. PICK err \in Ends : err = IF msg.type = "SUBACK_DENIED" THEN "ERR_ABRT" ELSE "ERR_OK"
    BY DEF Ends
  <2>2. PICK i : i = FindRequest(u.pend, msg.id)
    OBVIOUS
  <2>3. PICK q : q = TakeRequest(u.pend, msg.id)
    OBVIOUS
  <2>4. PICK t : t = RequestCb([u EXCEPT !.pend = q], u.pend[i], err)
    OBVIOUS
  <2>5. ReceiveAnswer(u, msg) = Continue(t)
    BY <1>2, <2>1, <2>2, <2>3, <2>4 DEF ReceiveAnswer
  <2>6. u.pend \in Seq(PendReq)
    BY StateFields DEF Core
  <2>7. i \in 1 .. Len(u.pend) /\ Without(u.pend, i, q)
    BY <1>2, <2>2, <2>3, <2>6, TakeWithout
  <2>8. Among(q, u.pend) /\ u.pend[i].pkt_id = msg.id
    BY <1>2, <2>2, <2>3, <2>6, TakeAmong
  <2>9. u.pend[i].pkt_id <= s.pkt_id_seq
    <3>1. s.pkt_id_seq \in 0 .. IdMod - 1
      BY StateFields
    <3> QED
      BY <2>8, <3>1, Constants DEF Own
  <2>10. err = "ERR_OK" => u.pend[i].k \in u.served \cup u.qos0
    <3>1. u.pend[i].k = msg.k
      BY <2>7, <2>8, OwnLater DEF Own
    <3> QED
      BY <2>1, <3>1 DEF Works
  <2>11. new => err = "ERR_OK"
    BY <2>1
  <2>12. Works(s, t, new)
    BY <2>4, <2>7, <2>8, <2>9, <2>10, <2>11, EndWorks
  <2> QED
    BY <2>5, <2>12, ContinueIs
<1> QED
  BY <1>1, <1>2

LEMMA MessageReceivedWorks ==
  ASSUME NEW s \in State, Queued(s.pend, s.req, s.nreq), NEW u, Core(u, 0),
         Data(u), Hand(u), u.conn_state \in Settling, NEW new \in BOOLEAN,
         Works(s, u, new), NEW msg \in Msg, msg.type \in Pubs => u.data_cb,
         Answering(s, msg), new => msg.type # "SUBACK_DENIED"
  PROVE  Works(s, MessageReceived(u, msg).st, new)
<1>1. CASE msg.type \in {"CONNACK", "CONNACK_REFUSED"}
  <2>1. MessageReceived(u, msg) = Continue(u)
    BY <1>1 DEF MessageReceived, ReceiveConnack, Settling
  <2> QED
    BY <2>1, ContinueIs
<1>2. CASE msg.type = "PINGRESP"
  <2>1. MessageReceived(u, msg) = Continue(u)
    BY <1>2 DEF MessageReceived
  <2> QED
    BY <2>1, ContinueIs
<1>3. CASE msg.type \in Pubs
  <2>1. MessageReceived(u, msg) = ReceivePublish(u, msg)
    BY <1>3 DEF MessageReceived, Pubs
  <2> QED
    BY <1>3, <2>1, ReceivePublishWorks
<1>4. CASE msg.type = "PUBREC"
  <2>1. PICK t : t = PubResponse(u, "PUBREL", msg)
    OBVIOUS
  <2>2. MessageReceived(u, msg) = Continue(t)
    BY <1>4, <2>1 DEF MessageReceived
  <2>3. "PUBREL" \in MsgTypes /\ u \in State
    BY DEF MsgTypes, Core
  <2>4. Own(u, msg)
    BY <1>4, OwnLater DEF Answering, Unasked
  <2>5. Works(s, t, new)
    BY <2>1, <2>3, <2>4, PubResponseWorks
  <2> QED
    BY <2>2, <2>5, ContinueIs
<1>5. CASE msg.type = "PUBREL"
  <2>1. PICK t : t = PubResponse(u, "PUBCOMP", msg)
    OBVIOUS
  <2>2. MessageReceived(u, msg) = Continue(t)
    BY <1>5, <2>1 DEF MessageReceived
  <2>3. "PUBCOMP" \in MsgTypes /\ "PUBCOMP" \notin AskTypes /\ u \in State
    BY DEF MsgTypes, AskTypes, Core
  <2>4. Works(s, t, new)
    BY <2>1, <2>3, PubResponseWorks
  <2> QED
    BY <2>2, <2>4, ContinueIs
<1>6. CASE /\ msg.type \notin {"CONNACK", "CONNACK_REFUSED"}
           /\ msg.type # "PINGRESP" /\ msg.type \notin Pubs
           /\ msg.type # "PUBREC" /\ msg.type # "PUBREL"
  <2>1. MessageReceived(u, msg) = ReceiveAnswer(u, msg)
    BY <1>6 DEF MessageReceived, Pubs
  <2>2. Own(s, msg) /\ (msg.type = "SUBACK_DENIED" \/ msg.k \in s.served)
    BY <1>6 DEF Answering, Unasked, Pubs
  <2> QED
    BY <2>1, <2>2, ReceiveAnswerWorks
<1> QED
  BY <1>1, <1>2, <1>3, <1>4, <1>5, <1>6

LEMMA SameAsked ==
  ASSUME NEW s, Asked(s), NEW t, t.pkt_id_seq = s.pkt_id_seq, t.nreq = s.nreq,
         t.pend = s.pend, t.ring = s.ring, t.tx = s.tx, t.rx = s.rx,
         t.req = s.req, t.qos0 = s.qos0, t.served = s.served
  PROVE  Asked(t)
<1>1. Follows(s, t)
  BY AmongSelf DEF Follows, Outgoing
<1> QED
  BY <1>1, FollowsAsked

(* Ali_Mqtt_Connect_accepted makes two requests with new identifiers.      *)
LEMMA AcceptedWorks ==
  ASSUME NEW s, Core(s, 0), Asked(s), IdsLast, s.conn_state = "MQTT_CONNECTING",
         s.nreq + 2 <= MaxReqs, NEW t, t = Accepted(Up(s))
  PROVE  Works(s, t, TRUE)
<1>1. s \in State /\ s.nreq \in Nat /\ MaxReqs \in Nat /\ s.pkt_id_seq \in Nat
  <2>1. s \in State
    BY DEF Core
  <2>2. s.pkt_id_seq \in 0 .. IdMod - 1 /\ s.nreq \in 0 .. MaxReqs
    BY <2>1, StateFields
  <2> QED
    BY <2>1, <2>2, Constants
<1>2. PICK u : u = Up(s)
  OBVIOUS
<1>3. /\ u \in State /\ u.conn_state = "MQTT_CONNECTED" /\ u.conn = s.conn
      /\ u.pend = s.pend /\ u.req = s.req /\ u.nreq = s.nreq
      /\ u.ring = s.ring /\ u.firstOut = s.firstOut /\ u.rx = s.rx
      /\ u.tx = s.tx /\ u.pkt_id_seq = s.pkt_id_seq
      /\ u.qos0 = s.qos0 /\ u.served = s.served
  BY <1>1, <1>2, UpIs
<1>4. Core(u, 0)
  BY <1>3 DEF Core, Linked, Idle, Room, First
<1>5. Asked(u)
  BY <1>3, SameAsked
<1>6. PICK a : a = Request(u, "SUBSCRIBE")
  OBVIOUS
<1>7. "SUBSCRIBE" \in AskKinds /\ "PUBLISH1" \in AskKinds
  BY DEF AskKinds
<1>8. u.nreq < MaxReqs
  BY <1>1, <1>3
<1>9. Core(a, 0) /\ SameLink(u, a) /\ (a.nreq = u.nreq \/ a.nreq = u.nreq + 1)
  BY <1>4, <1>6, <1>7, <1>8, RequestCore
<1>10. Requested(u, a, "SUBSCRIBE")
  BY <1>4, <1>5, <1>6, <1>7, <1>8, RequestAsked
<1>11. PICK b : b = SetInpubCallback(a)
  OBVIOUS
<1>12. /\ b \in State /\ b.conn = a.conn /\ b.conn_state = a.conn_state
       /\ b.pend = a.pend /\ b.req = a.req /\ b.nreq = a.nreq
       /\ b.ring = a.ring /\ b.firstOut = a.firstOut /\ b.rx = a.rx
       /\ b.tx = a.tx /\ b.served = a.served /\ b.pkt_id_seq = a.pkt_id_seq
       /\ b.qos0 = a.qos0
  BY <1>9, <1>11, SetInpubCallbackIs, ZenonT(60) DEF Core
<1>13. Core(b, 0)
  BY <1>9, <1>12, CoreFrame
<1>14. Asked(b)
  BY <1>10, <1>12, SameAsked DEF Requested
<1>15. t = Request(b, "PUBLISH1")
  BY <1>2, <1>6, <1>11 DEF Accepted
<1>16. b.nreq < MaxReqs
  BY <1>1, <1>3, <1>9, <1>12
<1>17. Core(t, 0) /\ SameLink(b, t)
  BY <1>7, <1>13, <1>15, <1>16, RequestCore
<1>18. Requested(b, t, "PUBLISH1")
  BY <1>7, <1>13, <1>14, <1>15, <1>16, RequestAsked
<1>19. /\ Asked(t) /\ t.pkt_id_seq \in Nat /\ a.pkt_id_seq \in Nat
       /\ s.pkt_id_seq <= a.pkt_id_seq /\ a.pkt_id_seq <= t.pkt_id_seq
       /\ t.served = s.served
  BY <1>3, <1>10, <1>12, <1>18 DEF Requested
<1>20. t.conn_state = "MQTT_CONNECTED"
  BY <1>3, <1>9, <1>12, <1>17 DEF SameLink
<1>21. ASSUME NEW j \in 1 .. Len(t.pend), t.pend[j].pkt_id <= s.pkt_id_seq
       PROVE  \E i \in 1 .. Len(s.pend) : /\ s.pend[i].pkt_id = t.pend[j].pkt_id
                                          /\ s.pend[i].k = t.pend[j].k
  <2>1. t.pend[j].pkt_id \in Nat
    <3>1. t.pend \in Seq(PendReq)
      BY <1>17, StateFields DEF Core
    <3> QED
      BY <3>1, Entries
  <2>2. ~(t.pend[j].pkt_id > a.pkt_id_seq)
    BY <1>1, <1>19, <1>21, <2>1
  <2>3. PICK l \in 1 .. Len(a.pend) : /\ a.pend[l].pkt_id = t.pend[j].pkt_id
                                      /\ a.pend[l].k = t.pend[j].k
    BY <1>12, <1>18, <2>2 DEF Requested
  <2>4. ~(a.pend[l].pkt_id > s.pkt_id_seq)
    BY <1>1, <1>21, <2>1, <2>3
  <2>5. PICK i \in 1 .. Len(u.pend) : /\ u.pend[i].pkt_id = a.pend[l].pkt_id
                                      /\ u.pend[i].k = a.pend[l].k
    BY <1>3, <1>10, <2>4 DEF Requested
  <2> QED
    BY <1>3, <2>3, <2>5
<1>22. ASSUME NEW k \in Requests
       PROVE  t.req[k] \in Outcomes(s.req[k], TRUE, FALSE)
  <2>1. NewRequest(s.req[k], a.req[k]) /\ NewRequest(a.req[k], t.req[k])
    BY <1>3, <1>10, <1>12, <1>18 DEF Requested
  <2> QED
    BY <2>1, Zenon DEF NewRequest, Outcomes
<1>23. s.pkt_id_seq <= t.pkt_id_seq
  BY <1>1, <1>19
<1>24. (t.conn_state = "TCP_DISCONNECTED") = FALSE
  BY <1>20
<1> QED
  BY <1>19, <1>20, <1>21, <1>22, <1>23, <1>24 DEF Works

(* The messages of one segment.  Every answer among them is to what was    *)
(* asked before the segment came.                                          *)
Answers1(s, msgs) ==
  \A i \in 1 .. Len(msgs) :
    /\ Answering(s, msgs[i])
    /\ s.conn_state = "MQTT_CONNECTING" => msgs[i].type # "SUBACK_DENIED"

ParseWorks(s, acc) ==
  \/ \E t : /\ acc = Continue(t) /\ Step(s, t)
            /\ Works(s, t, s.conn_state = "MQTT_CONNECTING")
  \/ acc = Refused(s) /\ s.conn_state = "MQTT_CONNECTING"

LEMMA ParseIncomingWorks ==
  ASSUME NEW s, Core(s, 0), Data(s), Asked(s), IdsLast,
         NEW msgs, Arriving(s, msgs), Answers1(s, msgs)
  PROVE  ParseWorks(s, ParseIncoming(s, msgs))
<1> DEFINE n == Len(msgs)
<1>0. s \in State /\ Queued(s.pend, s.req, s.nreq)
  BY DEF Core
<1>1. PICK f : /\ Unrolled(f, "parse_incoming", Continue(s), n, msgs)
               /\ ParseIncoming(s, msgs) = f[n]
  <2>1. msgs \in Seq(Msg)
    BY DEF Arriving
  <2> QED
    BY <2>1, ParseIncomingUnrolled
<1>2. \A x, e : Turn("parse_incoming", x, e) = Parse(x, e)
  BY DEF Turn
<1>3. n \in Nat /\ n >= 1 /\ \A i \in 1 .. n : msgs[i] \in Msg
  BY DEF Arriving
<1>4. f[0] = Continue(s)
  BY <1>1, <1>3 DEF Unrolled
<1>5. ASSUME NEW i \in 1 .. n
      PROVE  f[i] = Parse(f[i - 1], msgs[i])
  <2>1. i \in 0 .. n /\ i # 0
    BY <1>3
  <2> QED
    BY <1>1, <1>2, <2>1 DEF Unrolled
<1>a. PICK new \in BOOLEAN : new = (s.conn_state = "MQTT_CONNECTING")
  OBVIOUS
<1>6. ASSUME NEW i \in 1 .. n, NEW t, Step(s, t), Works(s, t, new),
             f[i - 1] = Continue(t)
      PROVE  ParseWorks(s, f[i])
  <2>1. f[i] = MessageReceived(t, msgs[i])
    BY <1>5, <1>6, ContinueIs DEF Parse
  <2>2. msgs[i] \in Msg /\ (msgs[i].type \in Pubs => t.data_cb)
    BY <1>3, <1>6 DEF Arriving, Step
  <2>3. PICK u : MessageReceived(t, msgs[i]) = Continue(u) /\ Step(t, u)
    BY <1>6, <2>2, MessageReceivedCore DEF Step
  <2>4. Answering(s, msgs[i]) /\ (new => msgs[i].type # "SUBACK_DENIED")
    BY <1>a DEF Answers1
  <2>5. Works(s, MessageReceived(t, msgs[i]).st, new)
    <3>1. Core(t, 0) /\ Data(t) /\ Hand(t) /\ t.conn_state \in Settling
      BY <1>6 DEF Step
    <3> QED
      BY <1>0, <1>6, <2>2, <2>4, <3>1, MessageReceivedWorks
  <2>6. Works(s, u, new)
    BY <2>3, <2>5, ContinueIs
  <2>7. Step(s, u)
    BY <1>6, <2>3, StepTransitive
  <2> QED
    BY <1>a, <2>1, <2>3, <2>6, <2>7 DEF ParseWorks
<1>7. ParseWorks(s, f[1])
  <2>1. 1 \in 1 .. n /\ f[1 - 1] = Continue(s)
    BY <1>3, <1>4
  <2>2. CASE s.conn_state = "MQTT_CONNECTED"
    <3>1. Step(s, s)
      BY <2>2, StepSelf DEF Arriving, Settling
    <3>2. Works(s, s, new)
      <4>1. Works(s, s, FALSE)
        BY <1>0, <2>2, WorksSelf
      <4>2. new = FALSE
        BY <1>a, <2>2
      <4> QED
        BY <4>1, <4>2
    <3> QED
      BY <1>6, <2>1, <3>1, <3>2
  <2>3. CASE s.conn_state = "MQTT_CONNECTING"
    <3>1. f[1] = MessageReceived(s, msgs[1])
      BY <1>5, <2>1, ContinueIs DEF Parse
    <3>2. msgs[1].type \in Connacks /\ s.nreq + 2 <= MaxReqs
      BY <2>3 DEF Arriving
    <3>3. MessageReceived(s, msgs[1]) = ReceiveConnack(s, msgs[1])
      BY <3>2 DEF MessageReceived, Connacks
    <3>4. CASE msgs[1].type = "CONNACK"
      <4>1. PICK t : t = Accepted(Up(s))
        OBVIOUS
      <4>2. ReceiveConnack(s, msgs[1]) = Continue(t)
        BY <2>3, <3>4, <4>1 DEF ReceiveConnack, ConnectCb, Up
      <4>3. Works(s, t, TRUE)
        BY <2>3, <3>2, <4>1, AcceptedWorks
      <4>4. Step(s, t)
        <5>1. \/ MessageReceived(s, msgs[1]) = Refused(s)
              \/ \E v : MessageReceived(s, msgs[1]) = Continue(v) /\ Step(s, v)
          BY <2>3, <3>2, ReceiveConnackCore
        <5>2. MessageReceived(s, msgs[1]) # Refused(s)
          BY <3>3, <4>2, ContinueIs, RefusedIs
        <5> QED
          BY <3>3, <4>2, <5>1, <5>2, ContinueIs
      <4>5. (s.conn_state = "MQTT_CONNECTING") = TRUE
        BY <2>3
      <4> QED
        BY <3>1, <3>3, <4>2, <4>3, <4>4, <4>5 DEF ParseWorks
    <3>5. CASE msgs[1].type # "CONNACK"
      BY <2>3, <3>1, <3>3, <3>5 DEF ReceiveConnack, Refused, ParseWorks
    <3> QED
      BY <3>4, <3>5
  <2> QED
    BY <2>2, <2>3 DEF Arriving
<1>8. ASSUME NEW i \in 2 .. n, ParseWorks(s, f[i - 1])
      PROVE  ParseWorks(s, f[i])
  <2>1. i \in 1 .. n
    BY <1>3
  <2>2. CASE \E t : f[i - 1] = Continue(t) /\ Step(s, t) /\ Works(s, t, new)
    BY <1>6, <2>1, <2>2
  <2>3. CASE f[i - 1] = Refused(s) /\ s.conn_state = "MQTT_CONNECTING"
    <3>1. f[i] = f[i - 1]
      BY <1>5, <2>1, <2>3, RefusedIs DEF Parse
    <3> QED
      BY <2>3, <3>1 DEF ParseWorks
  <2> QED
    BY <1>8, <1>a, <2>2, <2>3 DEF ParseWorks
<1> DEFINE Parsed == {i \in Nat : i + 1 <= n => ParseWorks(s, f[i + 1])}
<1>9. n - 1 \in Parsed
  <2>1. 0 \in Parsed
    BY <1>7
  <2>2. ASSUME NEW i \in Nat, i \in Parsed PROVE i + 1 \in Parsed
    <3> SUFFICES ASSUME (i + 1) + 1 <= n PROVE ParseWorks(s, f[(i + 1) + 1])
      OBVIOUS
    <3>1. (i + 1) + 1 \in 2 .. n /\ ((i + 1) + 1) - 1 = i + 1 /\ i + 1 <= n
      BY <1>3
    <3>2. ParseWorks(s, f[i + 1])
      BY <2>2, <3>1
    <3> QED
      BY <1>8, <3>1, <3>2
  <2>3. n - 1 \in Nat
    BY <1>3
  <2> HIDE DEF Parsed
  <2> QED
    BY <2>1, <2>2, <2>3, SetInduction
<1>10. (n - 1) + 1 = n
  BY <1>3
<1> QED
  BY <1>1, <1>9, <1>10

-----------------------------------------------------------------------------
(***************************************************************************)
(* The handlers.                                                           *)
(***************************************************************************)
(* What a handler makes of the session, as MqttSession allows it.          *)
Edge(s, t) ==
  \/ t.conn_state = s.conn_state /\ t.req = s.req
  \/ /\ s.conn_state = "TCP_DISCONNECTED"
     /\ t.conn_state \in {"TCP_DISCONNECTED", "TCP_CONNECTING"}
     /\ t.req = NoneYet
  \/ /\ s.conn_state = "TCP_CONNECTING" /\ t.conn_state = "MQTT_CONNECTING"
     /\ t.req = s.req
  \/ /\ s.conn_state = "MQTT_CONNECTING" /\ t.conn_state = "MQTT_CONNECTED"
     /\ \A k \in Requests : t.req[k] \in Outcomes(s.req[k], TRUE, FALSE)
  \/ /\ s.conn_state # "TCP_DISCONNECTED" /\ t.conn_state = s.conn_state
     /\ \A k \in Requests : NewRequest(s.req[k], t.req[k])
  \/ /\ s.conn_state = "MQTT_CONNECTED" /\ t.conn_state = "MQTT_CONNECTED"
     /\ \A k \in Requests : t.req[k] \in Outcomes(s.req[k], FALSE, FALSE)
  \/ /\ s.conn_state # "TCP_DISCONNECTED" /\ t.conn_state = "TCP_DISCONNECTED"
     /\ \A k \in Requests : t.req[k] \in Outcomes(s.req[k], FALSE, TRUE)
  \/ /\ s.conn_state # "TCP_DISCONNECTED"
     /\ t.conn_state \in {"TCP_DISCONNECTED", "TCP_CONNECTING"}
     /\ t.req = NoneYet
OnEdge(s, t) == Asked(t) /\ Edge(s, t)

LEMMA WorksOnEdge ==
  ASSUME NEW s, s.conn_state \in {"MQTT_CONNECTING", "MQTT_CONNECTED"},
         NEW t, Works(s, t, s.conn_state = "MQTT_CONNECTING")
  PROVE  OnEdge(s, t)
<1>1. CASE s.conn_state = "MQTT_CONNECTING"
  <2>1. (s.conn_state = "MQTT_CONNECTING") = TRUE
    BY <1>1
  <2>2. Works(s, t, TRUE)
    BY <2>1
  <2>3. Asked(t) /\ t.conn_state = "MQTT_CONNECTED"
    BY <2>2 DEF Works
  <2>4. (t.conn_state = "TCP_DISCONNECTED") = FALSE
    BY <2>3
  <2>5. \A k \in Requests : t.req[k] \in Outcomes(s.req[k], TRUE, FALSE)
    BY <2>2, <2>4 DEF Works
  <2> QED
    BY <1>1, <2>3, <2>5 DEF OnEdge, Edge
<1>2. CASE s.conn_state = "MQTT_CONNECTED"
  <2>1. (s.conn_state = "MQTT_CONNECTING") = FALSE
    BY <1>2
  <2>2. Works(s, t, FALSE)
    BY <2>1
  <2>3. Asked(t) /\ t.conn_state \in {"MQTT_CONNECTED", "TCP_DISCONNECTED"}
    BY <1>2, <2>2 DEF Works
  <2>4. CASE t.conn_state = "TCP_DISCONNECTED"
    <3>1. (t.conn_state = "TCP_DISCONNECTED") = TRUE
      BY <2>4
    <3>2. \A k \in Requests : t.req[k] \in Outcomes(s.req[k], FALSE, TRUE)
      BY <2>2, <3>1 DEF Works
    <3> QED
      BY <1>2, <2>3, <2>4, <3>2 DEF OnEdge, Edge
  <2>5. CASE t.conn_state = "MQTT_CONNECTED"
    <3>1. (t.conn_state = "TCP_DISCONNECTED") = FALSE
      BY <2>5
    <3>2. \A k \in Requests : t.req[k] \in Outcomes(s.req[k], FALSE, FALSE)
      BY <2>2, <3>1 DEF Works
    <3> QED
      BY <1>2, <2>3, <2>5, <3>2 DEF OnEdge, Edge
  <2> QED
    BY <2>3, <2>4, <2>5
<1> QED
  BY <1>1, <1>2

(* A session that was at work and is over.                                 *)
LEMMA OverOnEdge ==
  ASSUME NEW s, s.conn_state # "TCP_DISCONNECTED", NEW u, Works(s, u, FALSE),
         NEW t, Over(u, t)
  PROVE  OnEdge(s, t)
<1>1. CASE t.req = NoneYet
  BY <1>1 DEF Over, OnEdge, Edge
<1>2. CASE t.req = Dropped(u.req) /\ t.conn_state = "TCP_DISCONNECTED"
  <2>1. ASSUME NEW k \in Requests PROVE t.req[k] \in Outcomes(s.req[k], FALSE, TRUE)
    <3>1. t.req[k] = IF u.req[k] = "pending" THEN "dropped" ELSE u.req[k]
      BY <1>2 DEF Dropped
    <3>2. \/ u.req[k] \in Outcomes(s.req[k], FALSE, FALSE)
          \/ u.req[k] \in Outcomes(s.req[k], FALSE, TRUE)
      <4>1. CASE u.conn_state = "TCP_DISCONNECTED"
        <5>1. (u.conn_state = "TCP_DISCONNECTED") = TRUE
          BY <4>1
        <5> QED
          BY <5>1 DEF Works
      <4>2. CASE u.conn_state # "TCP_DISCONNECTED"
        <5>1. (u.conn_state = "TCP_DISCONNECTED") = FALSE
          BY <4>2
        <5> QED
          BY <5>1 DEF Works
      <4> QED
        BY <4>1, <4>2
    <3> QED
      BY <3>1, <3>2, Zenon DEF Outcomes, Ends
  <2> QED
    BY <1>2, <2>1 DEF Over, OnEdge, Edge
<1> QED
  BY <1>1, <1>2 DEF Over

LEMMA SelfOnEdge == ASSUME NEW s, Asked(s) PROVE OnEdge(s, s)
  BY DEF OnEdge, Edge

LEMMA EdgeFrame ==
  ASSUME NEW s, NEW r, r.conn_state = s.conn_state, r.req = s.req,
         NEW u, OnEdge(r, u), NEW t, Asked(t), t.conn_state = u.conn_state,
         t.req = u.req
  PROVE  OnEdge(s, t)
  BY DEF OnEdge, Edge

LEMMA UnmovedAsked ==
  ASSUME NEW s, Asked(s), NEW t, Unmoved(s, t)
  PROVE  Asked(t)
  BY SameAsked DEF Unmoved

(* The client closes the connection: the session ends.                     *)
LEMMA CloseOnEdge ==
  ASSUME NEW s, Closable(s), Asked(s), s.conn_state # "TCP_DISCONNECTED",
         NEW reason, reason # "MQTT_CONNECT_ACCEPTED", NEW t, t = Close(s, reason)
  PROVE  OnEdge(s, t)
<1>1. Works(s, s, FALSE)
  BY WorksSelf DEF Closable
<1>2. Over(s, t)
  BY CloseOver
<1> QED
  BY <1>1, <1>2, OverOnEdge

(* A prefix of rx has been taken out of TCP: what it answers.              *)
LEMMA ReceivingAsked ==
  ASSUME NEW s, Core(s, 0), Data(s), Hand(s), Asked(s), NEW n \in 1 .. Len(s.rx),
         NEW r, IsReceiving(s, n, r), NEW msgs, msgs \in Seq(Msg),
         \A i \in 1 .. Len(msgs) : \E j \in 1 .. Len(s.rx) : msgs[i] = s.rx[j],
         \A i \in 1 .. Len(r.rx) : \E j \in 1 .. Len(s.rx) : r.rx[i] = s.rx[j]
  PROVE  Asked(r) /\ Answers1(r, msgs)
<1>1. /\ r.pkt_id_seq = s.pkt_id_seq /\ r.pend = s.pend /\ r.nreq = s.nreq
      /\ r.qos0 = s.qos0 /\ r.served = s.served /\ r.req = s.req
      /\ r.ring = s.ring /\ r.tx = s.tx /\ r.conn_state = s.conn_state
  BY DEF IsReceiving
<1>2. Follows(s, r)
  <2>1. \A x \in Msg : Has(r.rx, x) => Has(s.rx, x)
    BY DEF Has
  <2>2. \A x \in Msg : Outgoing(r, x) => Outgoing(s, x)
    BY <1>1 DEF Outgoing
  <2> QED
    BY <1>1, <2>1, <2>2, AmongSelf DEF Follows
<1>3. Asked(r)
  BY <1>2, FollowsAsked
<1>4. ASSUME NEW i \in 1 .. Len(msgs)
      PROVE  /\ Answering(r, msgs[i])
             /\ r.conn_state = "MQTT_CONNECTING" => msgs[i].type # "SUBACK_DENIED"
  <2>1. PICK j \in 1 .. Len(s.rx) : msgs[i] = s.rx[j]
    OBVIOUS
  <2>2. Has(s.rx, msgs[i]) /\ msgs[i] \in Msg
    BY <2>1 DEF Has
  <2>3. Answering(s, msgs[i])
    BY <2>2 DEF Asked
  <2>4. Answering(r, msgs[i])
    BY <1>1, <2>3 DEF Answering, Own
  <2>5. ASSUME s.conn_state = "MQTT_CONNECTING"
        PROVE  msgs[i].type # "SUBACK_DENIED"
    <3>1. ~s.data_cb
      BY <2>5 DEF Hand, Connecting
    <3> QED
      BY <2>1, <3>1 DEF Data
  <2> QED
    BY <1>1, <2>4, <2>5
<1> QED
  BY <1>3, <1>4 DEF Answers1

(* mqtt_tcp_recv_cb with a pbuf.                                           *)
LEMMA RecvCbOnEdge ==
  ASSUME NEW s, Core(s, 0), Data(s), Hand(s), Asked(s), IdsLast,
         NEW n \in 1 .. Len(s.rx),
         NEW t, t = RecvCb([s EXCEPT !.rx = SubSeq(s.rx, n + 1, Len(s.rx))],
                           SubSeq(s.rx, 1, n))
  PROVE  OnEdge(s, t)
<1>1. s \in State /\ s.rx \in Seq(Msg)
  BY StateFields DEF Core
<1>2. PICK r : r = [s EXCEPT !.rx = SubSeq(s.rx, n + 1, Len(s.rx))]
  OBVIOUS
<1>3. PICK msgs : msgs = SubSeq(s.rx, 1, n)
  OBVIOUS
<1>4. IsReceiving(s, n, r)
  BY <1>1, <1>2, ReceivingIs
<1>5. Core(r, 0) /\ Data(r) /\ Arriving(r, msgs)
  BY <1>1, <1>2, <1>3, ReceivingArrives
<1>6. Asked(r) /\ Answers1(r, msgs)
  <2>1. r.rx = SubSeq(s.rx, n + 1, Len(s.rx))
    BY <1>4 DEF IsReceiving
  <2>2. IsSplit(s.rx, msgs, r.rx, Msg)
    BY <1>1, <1>3, <2>1, Split
  <2>3. /\ msgs \in Seq(Msg)
        /\ \A i \in 1 .. Len(msgs) : \E j \in 1 .. Len(s.rx) : msgs[i] = s.rx[j]
        /\ \A i \in 1 .. Len(r.rx) : \E j \in 1 .. Len(s.rx) : r.rx[i] = s.rx[j]
    BY <2>2 DEF IsSplit
  <2> QED
    BY <1>4, <2>3, ReceivingAsked
<1>7. ParseWorks(r, ParseIncoming(r, msgs))
  BY <1>5, <1>6, ParseIncomingWorks
<1>8. r.conn_state \in {"MQTT_CONNECTING", "MQTT_CONNECTED"}
  BY <1>5 DEF Arriving
<1>9. PICK closed : /\ closed = (IF ParseIncoming(r, msgs).status = "MQTT_CONNECT_ACCEPTED"
                                 THEN ParseIncoming(r, msgs).st
                                 ELSE Close(ParseIncoming(r, msgs).st,
                                            ParseIncoming(r, msgs).status))
                    /\ t = IF KeepAlive = 0 THEN closed
                           ELSE [closed EXCEPT !.server_watchdog = 0]
  BY <1>2, <1>3 DEF RecvCb
<1>10. closed \in State /\ OnEdge(r, closed)
  <2>1. ASSUME NEW u, ParseIncoming(r, msgs) = Continue(u), Step(r, u),
               Works(r, u, r.conn_state = "MQTT_CONNECTING")
        PROVE  closed \in State /\ OnEdge(r, closed)
    <3>1. closed = u
      BY <1>9, <2>1, ContinueIs
    <3>2. closed \in State
      BY <2>1, <3>1 DEF Step, Core
    <3>3. OnEdge(r, u)
      BY <1>8, <2>1, WorksOnEdge
    <3> QED
      BY <3>1, <3>2, <3>3
  <2>2. ASSUME ParseIncoming(r, msgs) = Refused(r), r.conn_state = "MQTT_CONNECTING"
        PROVE  closed \in State /\ OnEdge(r, closed)
    <3>1. closed = Close(r, "MQTT_CONNECT_REFUSED")
      BY <1>9, <2>2, RefusedIs
    <3>2. Closable(r)
      BY <1>5, CoreClosable
    <3>3. Down(r, closed)
      BY <2>2, <3>1, <3>2, CloseCore
    <3>4. closed \in State
      BY <3>3 DEF Down, Core
    <3>5. OnEdge(r, closed)
      BY <1>6, <2>2, <3>1, <3>2, CloseOnEdge
    <3> QED
      BY <3>4, <3>5
  <2> QED
    BY <1>7, <2>1, <2>2 DEF ParseWorks
<1>11. Asked(t) /\ t.conn_state = closed.conn_state /\ t.req = closed.req
  <2>1. CASE t = closed
    BY <1>10, <2>1 DEF OnEdge
  <2>2. CASE t = [closed EXCEPT !.server_watchdog = 0]
    <3>1. /\ t.conn_state = closed.conn_state /\ t.pend = closed.pend
          /\ t.req = closed.req /\ t.nreq = closed.nreq /\ t.ring = closed.ring
          /\ t.tx = closed.tx /\ t.rx = closed.rx
          /\ t.pkt_id_seq = closed.pkt_id_seq /\ t.qos0 = closed.qos0
          /\ t.served = closed.served
      BY <1>10, <2>2, WatchdogResetIs
    <3>2. Asked(closed)
      BY <1>10 DEF OnEdge
    <3> QED
      BY <3>1, <3>2, SameAsked
  <2> QED
    BY <1>9, <2>1, <2>2
<1>12. r.conn_state = s.conn_state /\ r.req = s.req
  BY <1>4 DEF IsReceiving
<1> QED
  BY <1>10, <1>11, <1>12, EdgeFrame

(* mqtt_tcp_sent_cb ends QoS 0 publishes only.                             *)
LEMMA CompleteOneWorks ==
  ASSUME NEW s \in State, Queued(s.pend, s.req, s.nreq), NEW u, Core(u, 0),
         Works(s, u, FALSE)
  PROVE  Works(s, CompleteOne(u), FALSE)
<1>1. CASE ~HasRequest(u.pend, 0)
  BY <1>1 DEF CompleteOne
<1>2. CASE HasRequest(u.pend, 0)
  <2>1. CompleteOne(u) = RequestCb([u EXCEPT !.pend = TakeRequest(u.pend, 0)],
                                   u.pend[FindRequest(u.pend, 0)], "ERR_OK")
    BY <1>2 DEF CompleteOne
  <2>2. PICK i : i = FindRequest(u.pend, 0)
    OBVIOUS
  <2>3. PICK q : q = TakeRequest(u.pend, 0)
    OBVIOUS
  <2>4. u.pend \in Seq(PendReq)
    BY StateFields DEF Core
  <2>5. i \in 1 .. Len(u.pend) /\ Without(u.pend, i, q)
    BY <1>2, <2>2, <2>3, <2>4, TakeWithout
  <2>6. Among(q, u.pend) /\ u.pend[i].pkt_id = 0
    BY <1>2, <2>2, <2>3, <2>4, TakeAmong
  <2>7. u.pend[i].k \in u.served \cup u.qos0
    <3>1. Asked(u)
      BY DEF Works
    <3> QED
      BY <2>5, <2>6, <3>1 DEF Asked
  <2>8. u.pend[i].pkt_id <= s.pkt_id_seq
    <3>1. s.pkt_id_seq \in 0 .. IdMod - 1
      BY StateFields
    <3> QED
      BY <2>6, <3>1, Constants
  <2>9. FALSE \in BOOLEAN /\ "ERR_OK" \in Ends
    BY DEF Ends
  <2>10. PICK t : t = RequestCb([u EXCEPT !.pend = q], u.pend[i], "ERR_OK")
    OBVIOUS
  <2>11. Works(s, t, FALSE)
    BY <2>5, <2>6, <2>7, <2>8, <2>9, <2>10, EndWorks
  <2> QED
    BY <2>1, <2>2, <2>3, <2>10, <2>11
<1> QED
  BY <1>1, <1>2

DoneWorks(s, t) == Done(s, t) /\ Works(s, t, FALSE)

LEMMA CompleteQos0Works ==
  ASSUME NEW s, Core(s, 0), Data(s), Hand(s), Asked(s),
         s.conn_state # "TCP_DISCONNECTED"
  PROVE  Works(s, CompleteQos0(s), FALSE)
<1> DEFINE n == Len(s.pend)
<1>1. s \in State /\ s.pend \in Seq(PendReq) /\ n \in Nat
      /\ Queued(s.pend, s.req, s.nreq)
  BY StateFields DEF Core
<1>2. PICK f : /\ Unrolled(f, "complete_qos0", s, n, s.pend)
               /\ CompleteQos0(s) = f[n]
  BY <1>1, CompleteQos0Unrolled
<1>3. \A x, e : Turn("complete_qos0", x, e) = CompleteOne(x)
  BY DEF Turn
<1> DEFINE Reached == {i \in Nat : i <= n => DoneWorks(s, f[i])}
<1>4. 0 \in Reached
  <2>1. f[0] = s
    <3>1. 0 \in 0 .. n
      BY <1>1
    <3> QED
      BY <1>2, <3>1 DEF Unrolled
  <2>2. Done(s, s)
    BY DEF Done, SameGhosts
  <2>3. Works(s, s, FALSE)
    BY <1>1, WorksSelf
  <2> QED
    BY <2>1, <2>2, <2>3 DEF DoneWorks
<1>5. ASSUME NEW i \in Nat, i \in Reached PROVE i + 1 \in Reached
  <2> SUFFICES ASSUME i + 1 <= n PROVE DoneWorks(s, f[i + 1])
    OBVIOUS
  <2>1. i <= n /\ i + 1 \in 0 .. n /\ i + 1 # 0 /\ (i + 1) - 1 = i
    BY <1>1
  <2>2. f[i + 1] = CompleteOne(f[i])
    BY <1>2, <1>3, <2>1 DEF Unrolled
  <2>3. Done(s, f[i]) /\ Works(s, f[i], FALSE)
    BY <1>5, <2>1 DEF DoneWorks
  <2>4. Core(f[i], 0) /\ Data(f[i]) /\ Hand(f[i])
    BY <2>3 DEF Done
  <2>5. Done(f[i], f[i + 1])
    BY <2>2, <2>4, CompleteOneDone
  <2>6. Works(s, f[i + 1], FALSE)
    BY <1>1, <2>2, <2>3, <2>4, CompleteOneWorks
  <2> QED
    BY <2>3, <2>5, <2>6, DoneTransitive DEF DoneWorks
<1> HIDE DEF Reached
<1>6. n \in Reached
  BY <1>1, <1>4, <1>5, SetInduction
<1>7. n <= n
  BY <1>1
<1>8. DoneWorks(s, f[n])
  BY <1>6, <1>7 DEF Reached
<1> QED
  BY <1>2, <1>8 DEF DoneWorks

LEMMA AckedAsked ==
  ASSUME NEW s, Asked(s), NEW k, NEW a, IsAcked(s, k, 0, a)
  PROVE  Asked(a) /\ a.conn_state = s.conn_state /\ a.req = s.req
  BY SameAsked DEF IsAcked

(* What is sent changes nothing of the requests.                           *)
LEMMA SendWorks ==
  ASSUME NEW s, NEW u \in State, NEW new, Works(s, u, new), NEW t, t = Send(u)
  PROVE  Works(s, t, new)
<1>1. Asked(t)
  BY SendAsked DEF Works
<1>2. /\ t.pkt_id_seq = u.pkt_id_seq /\ t.pend = u.pend /\ t.served = u.served
      /\ t.req = u.req /\ t.conn_state = u.conn_state
  BY SendFields
<1> QED
  BY <1>1, <1>2, WorksFrame

(* mqtt_tcp_sent_cb.                                                       *)
LEMMA SentCbOnEdge ==
  ASSUME NEW s, Core(s, 0), Data(s), Hand(s), s.conn, Asked(s),
         NEW n \in 1 .. s.unacked, NEW t, t = SentCb(s, n)
  PROVE  OnEdge(s, t)
<1>1. s \in State /\ s.unacked - n \in 0 .. SndBuf
  <2>1. s \in State /\ s.unacked \in 0 .. SndBuf /\ SndBuf \in Nat
    BY StateFields, Constants DEF Core
  <2> QED
    BY <2>1
<1>2. PICK k : k = s.unacked - n
  OBVIOUS
<1>3. PICK a : a = [s EXCEPT !.unacked = k]
  OBVIOUS
<1>4. k \in 0 .. SndBuf /\ IsAcked(s, k, 0, a)
  BY <1>1, <1>2, <1>3, AckedIs
<1>5. Asked(a) /\ a.conn_state = s.conn_state /\ a.req = s.req
  BY <1>4, AckedAsked
<1>6. PICK b : b = [a EXCEPT !.cyclic_tick = 0, !.server_watchdog = 0]
  OBVIOUS
<1>7. CASE s.conn_state # "MQTT_CONNECTED"
  <2>1. t = a
    BY <1>2, <1>3, <1>7 DEF SentCb
  <2> QED
    BY <1>5, <2>1 DEF OnEdge, Edge
<1>8. CASE s.conn_state = "MQTT_CONNECTED"
  <2>1. t = Send(CompleteQos0(b))
    BY <1>2, <1>3, <1>6, <1>8 DEF SentCb
  <2>2. a \in State /\ a.unacked = k
    BY <1>4 DEF IsAcked
  <2>3. IsAcked(a, k, 0, b)
    BY <1>4, <1>6, <2>2, TicksResetIs
  <2>4. Core(a, 0) /\ Data(a) /\ Hand(a) /\ a.conn
    <3>1. Done(s, a)
      BY <1>4, AckedDone
    <3>2. a.conn
      BY <1>4 DEF IsAcked
    <3> QED
      BY <3>1, <3>2 DEF Done
  <2>5. Core(b, 0) /\ Data(b) /\ Hand(b)
    <3>1. Done(a, b)
      BY <2>3, <2>4, AckedDone
    <3> QED
      BY <3>1 DEF Done
  <2>6. Asked(b) /\ b.conn_state = s.conn_state /\ b.req = s.req
    BY <1>5, <2>3, AckedAsked
  <2>7. PICK c : c = CompleteQos0(b)
    OBVIOUS
  <2>8. Works(b, c, FALSE)
    BY <1>8, <2>5, <2>6, <2>7, CompleteQos0Works
  <2>9. c \in State
    <3>1. Done(b, c)
      BY <2>5, <2>7, CompleteQos0Done
    <3> QED
      BY <3>1 DEF Done, Core
  <2>10. Works(b, t, FALSE)
    BY <2>1, <2>7, <2>8, <2>9, SendWorks
  <2>11. Works(b, t, b.conn_state = "MQTT_CONNECTING")
    <3>1. (b.conn_state = "MQTT_CONNECTING") = FALSE
      BY <1>8, <2>6
    <3> QED
      BY <2>10, <3>1
  <2>12. OnEdge(b, t)
    BY <1>8, <2>6, <2>11, WorksOnEdge
  <2>13. Asked(t)
    BY <2>12 DEF OnEdge
  <2> QED
    BY <2>6, <2>12, <2>13, EdgeFrame
<1> QED
  BY <1>7, <1>8

(* The clocks of the queue are no concern of the session.                  *)
SameRequests(p, q) ==
  /\ Len(q) = Len(p)
  /\ \A i \in 1 .. Len(p) : q[i].k = p[i].k /\ q[i].pkt_id = p[i].pkt_id

LEMMA ReclockedWorks ==
  ASSUME NEW s, NEW u \in State, NEW new, Works(s, u, new),
         NEW q \in Seq(PendReq), SameRequests(u.pend, q),
         NEW t, t = [u EXCEPT !.pend = q]
  PROVE  Works(s, t, new)
<1>1. IsRequeued(u, q, t)
  BY RequeuedIs
<1>2. /\ t.pend = q /\ t.conn_state = u.conn_state /\ t.req = u.req
      /\ t.nreq = u.nreq /\ t.ring = u.ring /\ t.tx = u.tx /\ t.rx = u.rx
      /\ t.pkt_id_seq = u.pkt_id_seq /\ t.qos0 = u.qos0 /\ t.served = u.served
  BY <1>1 DEF IsRequeued
<1>3. Asked(t)
  <2>1. \A x \in Msg : Outgoing(t, x) => Outgoing(u, x)
    BY <1>2 DEF Outgoing
  <2>2. Among(t.pend, u.pend)
    BY <1>2 DEF Among, SameRequests
  <2>3. Follows(u, t)
    BY <1>2, <2>1, <2>2 DEF Follows
  <2> QED
    BY <2>3, FollowsAsked DEF Works
<1>4. ASSUME NEW j \in 1 .. Len(t.pend), t.pend[j].pkt_id <= s.pkt_id_seq
      PROVE  \E i \in 1 .. Len(s.pend) : /\ s.pend[i].pkt_id = t.pend[j].pkt_id
                                         /\ s.pend[i].k = t.pend[j].k
  <2>1. /\ j \in 1 .. Len(u.pend) /\ t.pend[j].pkt_id = u.pend[j].pkt_id
        /\ t.pend[j].k = u.pend[j].k
    BY <1>2 DEF SameRequests
  <2> QED
    BY <1>4, <2>1 DEF Works
<1> QED
  BY <1>2, <1>3, <1>4 DEF Works

LEMMA AgedWorks ==
  ASSUME NEW s, Core(s, 0), Asked(s), s.conn_state # "TCP_DISCONNECTED",
         NEW t, t = Aged(s)
  PROVE  Works(s, t, FALSE)
<1>1. s \in State /\ s.pend \in Seq(PendReq) /\ Clock(s.pend, 0)
      /\ MQTT_CYCLIC_TIMER_INTERVAL \in Nat
  BY StateFields, Constants DEF Core
<1>2. PICK q : q = [i \in DOMAIN s.pend |->
                      [s.pend[i] EXCEPT !.age = s.pend[i].age
                                                  + MQTT_CYCLIC_TIMER_INTERVAL]]
  OBVIOUS
<1>3. t = [s EXCEPT !.pend = q]
  BY <1>2 DEF Aged
<1>4. AgedTo(s.pend, q, MQTT_CYCLIC_TIMER_INTERVAL)
  BY <1>1, <1>2, ClockAged
<1>5. q \in Seq(PendReq) /\ SameRequests(s.pend, q)
  BY <1>4 DEF AgedTo, SameRequests
<1>6. Works(s, s, FALSE)
  BY <1>1, WorksSelf
<1> QED
  BY <1>1, <1>3, <1>5, <1>6, ReclockedWorks

LEMMA ElapseRestsWorks ==
  ASSUME NEW s, NEW st, NEW left, Core(st, left), left \in Nat, Works(s, st, FALSE),
         st.pend # <<>>, left < Head(st.pend).timeout_diff,
         NEW t, t = [st EXCEPT !.pend = [st.pend EXCEPT ![1] =
                       [st.pend[1] EXCEPT !.timeout_diff =
                          st.pend[1].timeout_diff - left]]]
  PROVE  Works(s, t, FALSE)
<1>1. /\ st \in State /\ st.pend \in Seq(PendReq) /\ left \in Int
      /\ Clock(st.pend, left)
  BY StateFields DEF Core
<1>2. PICK q : q = [st.pend EXCEPT ![1] = [st.pend[1] EXCEPT !.timeout_diff =
                       st.pend[1].timeout_diff - left]]
  OBVIOUS
<1>3. left < st.pend[1].timeout_diff
  BY <1>1, TailIs
<1>4. Rested(st.pend, q)
  BY <1>1, <1>2, <1>3, ClockElapse
<1>5. q \in Seq(PendReq) /\ SameRequests(st.pend, q)
  BY <1>4 DEF Rested, SameRequests
<1>6. t = [st EXCEPT !.pend = q]
  BY <1>2
<1> QED
  BY <1>1, <1>5, <1>6, ReclockedWorks

LEMMA ElapseExpiresWorks ==
  ASSUME NEW s \in State, Queued(s.pend, s.req, s.nreq), NEW st, NEW left,
         Core(st, left), Works(s, st, FALSE), st.pend # <<>>,
         NEW t, t = RequestCb([st EXCEPT !.pend = Tail(st.pend)], Head(st.pend),
                              "ERR_TIMEOUT")
  PROVE  Works(s, t, FALSE)
<1>1. st \in State /\ st.pend \in Seq(PendReq)
  BY StateFields DEF Core
<1>2. PICK q : q = Tail(st.pend)
  OBVIOUS
<1>3. /\ Head(st.pend) = st.pend[1]
      /\ q \in Seq(PendReq) /\ Len(q) = Len(st.pend) - 1
      /\ \A i \in 1 .. Len(st.pend) - 1 : q[i] = st.pend[i + 1]
  BY <1>1, <1>2, TailIs
<1>4. 1 \in 1 .. Len(st.pend)
  BY <1>1
<1>5. Without(st.pend, 1, q)
  BY <1>1, <1>3 DEF Without
<1>6. Among(q, st.pend)
  BY <1>1, <1>2, TailAmong
<1>7. st.pend[1].pkt_id <= s.pkt_id_seq
  <2>1. st.pkt_id_seq = s.pkt_id_seq /\ Asked(st)
    BY DEF Works
  <2> QED
    BY <1>4, <2>1 DEF Asked
<1>8. t = RequestCb([st EXCEPT !.pend = q], st.pend[1], "ERR_TIMEOUT")
  BY <1>2, <1>3
<1>9. "ERR_TIMEOUT" \in Ends /\ FALSE \in BOOLEAN /\ "ERR_TIMEOUT" # "ERR_OK"
  BY DEF Ends
<1> QED
  BY <1>4, <1>5, <1>6, <1>7, <1>8, <1>9, EndWorks

LEMMA ElapseOneWorks ==
  ASSUME NEW s \in State, Queued(s.pend, s.req, s.nreq),
         NEW x, Core(x.st, x.left), x.left \in Nat, Works(s, x.st, FALSE),
         x = [st |-> x.st, left |-> x.left], NEW y, y = ElapseOne(x)
  PROVE  Works(s, y.st, FALSE)
<1>1. PICK st, left : st = x.st /\ left = x.left
  OBVIOUS
<1>2. /\ x = [st |-> st, left |-> left] /\ Core(st, left) /\ left \in Nat
      /\ Works(s, st, FALSE)
  BY <1>1
<1>3. st.pend \in Seq(PendReq)
  BY <1>2, StateFields DEF Core
<1>4. CASE (left = 0 \/ st.pend = <<>>) /\ y = x
  BY <1>1, <1>2, <1>4
<1>5. CASE /\ left # 0 /\ st.pend # <<>> /\ left >= Head(st.pend).timeout_diff
           /\ y = [st |-> RequestCb([st EXCEPT !.pend = Tail(st.pend)],
                                    Head(st.pend), "ERR_TIMEOUT"),
                   left |-> left - Head(st.pend).timeout_diff]
  <2>1. PICK t : t = RequestCb([st EXCEPT !.pend = Tail(st.pend)], Head(st.pend),
                               "ERR_TIMEOUT")
    OBVIOUS
  <2>2. Works(s, t, FALSE)
    BY <1>2, <1>5, <2>1, ElapseExpiresWorks
  <2>3. y.st = t
    BY <1>5, <2>1
  <2> QED
    BY <2>2, <2>3
<1>6. CASE /\ left # 0 /\ st.pend # <<>> /\ ~(left >= Head(st.pend).timeout_diff)
           /\ y = [st |-> [st EXCEPT !.pend = [st.pend EXCEPT ![1] =
                             [st.pend[1] EXCEPT !.timeout_diff =
                                st.pend[1].timeout_diff - left]]],
                   left |-> 0]
  <2>1. PICK t : t = [st EXCEPT !.pend = [st.pend EXCEPT ![1] =
                        [st.pend[1] EXCEPT !.timeout_diff =
                           st.pend[1].timeout_diff - left]]]
    OBVIOUS
  <2>2. left < Head(st.pend).timeout_diff
    <3>1. Head(st.pend).timeout_diff \in Int
      BY <1>3, <1>6, TailIs, PendReqFields
    <3> QED
      BY <1>2, <1>6, <3>1
  <2>3. Works(s, t, FALSE)
    BY <1>2, <1>6, <2>1, <2>2, ElapseRestsWorks
  <2>4. y.st = t
    BY <1>6, <2>1
  <2> QED
    BY <2>3, <2>4
<1>7. ElapsesTo(st, left, x, y)
  BY <1>2, ElapseOneCases
<1> QED
  BY <1>4, <1>5, <1>6, <1>7, Zenon DEF ElapsesTo

ElapsingWorks(s, z, x, k) ==
  /\ Elapsing(z, x.st, x.left, k) /\ Works(s, x.st, FALSE)
  /\ x = [st |-> x.st, left |-> x.left]

(* mqtt_request_time_elapsed.                                              *)
LEMMA TimeElapsedWorks ==
  ASSUME NEW s \in State, Queued(s.pend, s.req, s.nreq),
         NEW z, NEW t \in Nat, Core(z, t), Works(s, z, FALSE),
         NEW u, u = TimeElapsed(z, t)
  PROVE  Works(s, u, FALSE)
<1> DEFINE n == Len(z.pend)
<1>1. z.pend \in Seq(PendReq) /\ n \in Nat
  BY StateFields DEF Core
<1>2. PICK f : /\ Unrolled(f, "time_elapsed", [st |-> z, left |-> t], n, z.pend)
               /\ TimeElapsed(z, t) = f[n].st
  BY <1>1, TimeElapsedUnrolled
<1>3. \A x, e : Turn("time_elapsed", x, e) = ElapseOne(x)
  BY DEF Turn
<1> DEFINE Reached == {i \in Nat : i <= n => ElapsingWorks(s, z, f[i], n - i)}
<1>4. 0 \in Reached
  <2>1. f[0] = [st |-> z, left |-> t]
    <3>1. 0 \in 0 .. n
      BY <1>1
    <3> QED
      BY <1>2, <3>1 DEF Unrolled
  <2>2. Elapsing(z, z, t, n - 0)
    BY <1>1 DEF Elapsing, SameGhosts, Calm
  <2>3. f[0].st = z /\ f[0].left = t
    BY <2>1
  <2>4. ElapsingWorks(s, z, f[0], n - 0)
    BY <2>1, <2>2, <2>3 DEF ElapsingWorks
  <2> QED
    BY <2>4
<1>5. ASSUME NEW i \in Nat, i \in Reached PROVE i + 1 \in Reached
  <2> SUFFICES ASSUME i + 1 <= n PROVE ElapsingWorks(s, z, f[i + 1], n - (i + 1))
    OBVIOUS
  <2>1. i <= n /\ i + 1 \in 0 .. n /\ i + 1 # 0 /\ (i + 1) - 1 = i
    BY <1>1
  <2>2. f[i + 1] = ElapseOne(f[i])
    BY <1>2, <1>3, <2>1 DEF Unrolled
  <2>3. ElapsingWorks(s, z, f[i], n - i)
    BY <1>5, <2>1
  <2>4. PICK k \in Nat : n - i = k + 1 /\ n - (i + 1) = k
    <3>1. n - (i + 1) \in Nat /\ n - i = (n - (i + 1)) + 1
      BY <1>1
    <3> QED
      BY <3>1
  <2>5. PICK x, y : x = f[i] /\ y = f[i + 1]
    OBVIOUS
  <2>6. /\ Elapsing(z, x.st, x.left, k + 1) /\ Works(s, x.st, FALSE)
        /\ x = [st |-> x.st, left |-> x.left] /\ y = ElapseOne(x)
    BY <2>2, <2>3, <2>4, <2>5 DEF ElapsingWorks
  <2>7. Elapsing(z, y.st, y.left, k) /\ y = [st |-> y.st, left |-> y.left]
    BY <2>6, ElapseOneCore
  <2>8. Core(x.st, x.left) /\ x.left \in Nat
    BY <2>6 DEF Elapsing
  <2>9. Works(s, y.st, FALSE)
    BY <2>6, <2>8, ElapseOneWorks
  <2> QED
    BY <2>4, <2>5, <2>7, <2>9 DEF ElapsingWorks
<1> HIDE DEF Reached
<1>6. n \in Reached
  BY <1>1, <1>4, <1>5, SetInduction
<1>7. n <= n
  BY <1>1
<1>8. ElapsingWorks(s, z, f[n], n - n)
  BY <1>6, <1>7 DEF Reached
<1> QED
  BY <1>2, <1>8 DEF ElapsingWorks

LEMMA WorksUnmoved ==
  ASSUME NEW s, NEW u, NEW new, Works(s, u, new), NEW t, Unmoved(u, t)
  PROVE  Works(s, t, new)
<1>1. Asked(t)
  BY UnmovedAsked DEF Works
<1>2. /\ t.pkt_id_seq = u.pkt_id_seq /\ t.pend = u.pend /\ t.served = u.served
      /\ t.req = u.req /\ t.conn_state = u.conn_state
  BY DEF Unmoved
<1> QED
  BY <1>1, <1>2, WorksFrame

LEMMA WorkedOnEdge ==
  ASSUME NEW s, s.conn_state = "MQTT_CONNECTED", NEW t, Works(s, t, FALSE)
  PROVE  OnEdge(s, t)
<1>1. (s.conn_state = "MQTT_CONNECTING") = FALSE
  OBVIOUS
<1>2. Works(s, t, s.conn_state = "MQTT_CONNECTING")
  BY <1>1
<1> QED
  BY <1>2, WorksOnEdge

(* PINGREQ asks for nothing.                                               *)
Kept(s, t) ==
  /\ t \in State /\ Asked(t)
  /\ t.pkt_id_seq = s.pkt_id_seq /\ t.pend = s.pend
  /\ t.served = s.served /\ t.req = s.req /\ t.conn_state = s.conn_state

LEMMA KeepAliveKept ==
  ASSUME NEW s \in State, Asked(s), NEW t, t = KeepAliveSend(s)
  PROVE  Kept(s, t)
<1>1. s.cyclic_tick \in Nat /\ s.cyclic_tick + 1 \in Nat
  BY StateFields
<1>2. CASE t = s
  BY <1>2 DEF Kept
<1>3. ASSUME NEW n \in Nat, NEW u, u = [s EXCEPT !.cyclic_tick = n]
      PROVE  Unmoved(s, u) /\ Kept(s, u)
  <2>1. Unmoved(s, u)
    BY <1>3, TickIs
  <2>2. Asked(u)
    BY <2>1, UnmovedAsked
  <2> QED
    BY <2>1, <2>2 DEF Kept, Unmoved
<1>4. CASE t = [s EXCEPT !.cyclic_tick = s.cyclic_tick + 1]
  BY <1>1, <1>3, <1>4
<1>5. CASE t = Append1([s EXCEPT !.cyclic_tick = 0], PingMsg)
  <2>1. PICK u : u = [s EXCEPT !.cyclic_tick = 0]
    OBVIOUS
  <2>2. Unmoved(s, u) /\ Kept(s, u)
    BY <1>3, <2>1
  <2>3. u \in State /\ Asked(u)
    BY <2>2 DEF Unmoved, Kept
  <2>4. t = Append1(u, PingMsg)
    BY <1>5, <2>1
  <2>5. PingMsg \in Msg /\ Asking(u, PingMsg)
    BY PingMsgType DEF PingMsg, Asking, AskTypes
  <2>6. Asked(t)
    BY <2>3, <2>4, <2>5, Append1Asked
  <2>7. /\ t \in State
        /\ t.pkt_id_seq = u.pkt_id_seq /\ t.pend = u.pend /\ t.served = u.served
        /\ t.req = u.req /\ t.conn_state = u.conn_state
    BY <2>3, <2>4, <2>5, Append1Fields
  <2> QED
    BY <2>2, <2>6, <2>7 DEF Kept
<1> QED
  BY <1>2, <1>4, <1>5, KeepAliveCases

LEMMA SetTimeoutUnmoved ==
  ASSUME NEW s \in State, NEW t, t = SetTimeout(s)
  PROVE  Unmoved(s, t)
<1>1. s.timers + 1 \in Nat
  <2>1. s.timers \in Nat
    BY StateFields
  <2> QED
    BY <2>1
<1>2. t = [s EXCEPT !.timers = s.timers + 1]
  BY DEF SetTimeout
<1> QED
  BY <1>1, <1>2, TimersIs

LEMMA ConnectingTickOnEdge ==
  ASSUME NEW s, Core(s, 0), Asked(s), s.conn_state = "MQTT_CONNECTING",
         NEW t, t = ConnectingTick(s)
  PROVE  OnEdge(s, t)
<1>1. s \in State /\ s.cyclic_tick + 1 \in Nat
  BY StateFields DEF Core
<1>2. PICK u : u = [s EXCEPT !.cyclic_tick = s.cyclic_tick + 1]
  OBVIOUS
<1>3. Unmoved(s, u)
  BY <1>1, <1>2, TickIs
<1>4. Core(u, 0) /\ Asked(u) /\ u.conn_state = s.conn_state /\ u.req = s.req
  BY <1>3, UnmovedCore, UnmovedAsked DEF Unmoved
<1>5. CASE t = Close(u, "MQTT_CONNECT_TIMEOUT")
  <2>1. OnEdge(u, t)
    BY <1>4, <1>5, CoreClosable, CloseOnEdge
  <2> QED
    BY <1>4, <2>1, EdgeFrame DEF OnEdge
<1>6. CASE t = SetTimeout(u)
  <2>1. Unmoved(u, t)
    BY <1>4, <1>6, SetTimeoutUnmoved DEF Core
  <2>2. Asked(t) /\ t.conn_state = s.conn_state /\ t.req = s.req
    BY <1>4, <2>1, UnmovedAsked DEF Unmoved
  <2> QED
    BY <2>2 DEF OnEdge, Edge
<1> QED
  BY <1>2, <1>5, <1>6 DEF ConnectingTick

LEMMA ConnectedTickOnEdge ==
  ASSUME NEW s, Core(s, 0), Data(s), Hand(s), Asked(s),
         s.conn_state = "MQTT_CONNECTED", NEW t, t = ConnectedTick(s)
  PROVE  OnEdge(s, t)
<1>1. PICK a : a = Aged(s)
  OBVIOUS
<1>2. Core(a, MQTT_CYCLIC_TIMER_INTERVAL) /\ Works(s, a, FALSE)
  <2>1. Requeued(s, a, a.pend, MQTT_CYCLIC_TIMER_INTERVAL)
    BY <1>1, AgedCore
  <2>2. Works(s, a, FALSE)
    BY <1>1, AgedWorks
  <2> QED
    BY <2>1, <2>2 DEF Requeued
<1>3. PICK e : e = TimeElapsed(a, MQTT_CYCLIC_TIMER_INTERVAL)
  OBVIOUS
<1>4. Core(e, 0) /\ e \in State
  <2>1. Elapsing(a, e, 0, 0)
    BY <1>2, <1>3, Constants, TimeElapsedCore
  <2> QED
    BY <2>1 DEF Elapsing, Core
<1>5. Works(s, e, FALSE)
  <2>1. s \in State /\ Queued(s.pend, s.req, s.nreq)
    BY DEF Core
  <2> QED
    BY <1>2, <1>3, <2>1, Constants, TimeElapsedWorks
<1>6. PICK w : w = [e EXCEPT !.server_watchdog = e.server_watchdog + 1]
  OBVIOUS
<1>7. Unmoved(e, w)
  <2>1. e.server_watchdog + 1 \in Nat
    BY <1>4, StateFields
  <2> QED
    BY <1>4, <1>6, <2>1, WatchedIs
<1>8. Core(w, 0) /\ Works(s, w, FALSE) /\ w \in State /\ Asked(w)
  <2>1. Core(w, 0)
    BY <1>4, <1>7, UnmovedCore
  <2>2. Works(s, w, FALSE)
    BY <1>5, <1>7, WorksUnmoved
  <2> QED
    BY <2>1, <2>2 DEF Core, Works
<1>9. CASE t = SetTimeout(e)
  <2>1. Unmoved(e, t)
    BY <1>4, <1>9, SetTimeoutUnmoved
  <2>2. Works(s, t, FALSE)
    BY <1>5, <2>1, WorksUnmoved
  <2> QED
    BY <2>2, WorkedOnEdge
<1>10. CASE t = KeepAliveSend(Close(w, "MQTT_CONNECT_TIMEOUT"))
  <2>1. PICK c : c = Close(w, "MQTT_CONNECT_TIMEOUT")
    OBVIOUS
  <2>2. Closable(w)
    BY <1>8, CoreClosable
  <2>3. Over(w, c)
    BY <1>8, <2>1, <2>2, CloseOver
  <2>4. c \in State
    <3>1. Down(w, c)
      BY <2>1, <2>2, CloseDown
    <3> QED
      BY <3>1 DEF Down, Core
  <2>5. OnEdge(s, c)
    BY <1>8, <2>3, OverOnEdge
  <2>6. Kept(c, t)
    BY <1>10, <2>1, <2>4, <2>5, KeepAliveKept DEF OnEdge
  <2> QED
    BY <2>5, <2>6, EdgeFrame DEF Kept
<1>11. CASE t = SetTimeout(KeepAliveSend(w))
  <2>1. PICK k : k = KeepAliveSend(w)
    OBVIOUS
  <2>2. Kept(w, k)
    BY <1>8, <2>1, KeepAliveKept
  <2>3. Works(s, k, FALSE)
    BY <1>8, <2>2, WorksFrame DEF Kept
  <2>4. k \in State
    BY <2>2 DEF Kept
  <2>5. Unmoved(k, t)
    BY <1>11, <2>1, <2>4, SetTimeoutUnmoved
  <2>6. Works(s, t, FALSE)
    BY <2>3, <2>5, WorksUnmoved
  <2> QED
    BY <2>6, WorkedOnEdge
<1> QED
  BY <1>1, <1>3, <1>6, <1>9, <1>10, <1>11 DEF ConnectedTick

(* mqtt_cyclic_timer, taken off the timer list.                            *)
LEMMA CyclicTimerOnEdge ==
  ASSUME NEW s, Core(s, 0), Data(s), Hand(s), Asked(s), s.timers > 0,
         NEW t, t = CyclicTimer(s)
  PROVE  OnEdge(s, t)
<1>1. s \in State /\ s.timers - 1 \in Nat
  <2>1. s \in State /\ s.timers \in Nat
    BY StateFields DEF Core
  <2> QED
    BY <2>1
<1>2. PICK f : f = [s EXCEPT !.timers = s.timers - 1]
  OBVIOUS
<1>3. Unmoved(s, f)
  BY <1>1, <1>2, TimersIs
<1>4. /\ Core(f, 0) /\ Data(f) /\ Hand(f) /\ Asked(f)
      /\ f.conn_state = s.conn_state /\ f.req = s.req
  BY <1>3, UnmovedCore, UnmovedAsked DEF Unmoved
<1>5. OnEdge(f, t)
  <2>1. CASE s.conn_state = "MQTT_CONNECTING"
    <3>1. t = ConnectingTick(f)
      BY <1>2, <2>1 DEF CyclicTimer
    <3> QED
      BY <1>4, <2>1, <3>1, ConnectingTickOnEdge
  <2>2. CASE s.conn_state = "MQTT_CONNECTED"
    <3>1. t = ConnectedTick(f)
      BY <1>2, <2>2 DEF CyclicTimer
    <3> QED
      BY <1>4, <2>2, <3>1, ConnectedTickOnEdge
  <2>3. CASE s.conn_state \notin {"MQTT_CONNECTING", "MQTT_CONNECTED"}
    <3>1. t = f
      BY <1>2, <2>3 DEF CyclicTimer
    <3> QED
      BY <1>4, <3>1, SelfOnEdge
  <2> QED
    BY <2>1, <2>2, <2>3
<1> QED
  BY <1>4, <1>5, EdgeFrame DEF OnEdge

LEMMA PollCbOnEdge ==
  ASSUME NEW s \in State, Asked(s), NEW t, t = PollCb(s)
  PROVE  OnEdge(s, t)
<1>1. CASE t = s
  BY <1>1, SelfOnEdge
<1>2. CASE t = Send(s)
  <2>1. t.conn_state = s.conn_state /\ t.req = s.req
    BY <1>2, SendFields
  <2>2. Asked(t)
    BY <1>2, SendAsked
  <2> QED
    BY <2>1, <2>2 DEF OnEdge, Edge
<1> QED
  BY <1>1, <1>2 DEF PollCb

LEMMA ErrCbOnEdge ==
  ASSUME NEW s, Good(s), Asked(s), s.conn_state # "TCP_DISCONNECTED",
         NEW t, t = ErrCb(s)
  PROVE  OnEdge(s, t)
<1>1. PICK l : l = [s EXCEPT !.conn = FALSE]
  OBVIOUS
<1>2. /\ l \in State /\ l.pend = s.pend /\ l.req = s.req /\ l.nreq = s.nreq
      /\ l.ring = s.ring /\ l.firstOut = s.firstOut /\ l.tx = s.tx
      /\ l.rx = s.rx /\ l.conn_state = s.conn_state
      /\ l.pkt_id_seq = s.pkt_id_seq /\ l.qos0 = s.qos0
      /\ l.served = s.served
  <2>1. s \in State
    BY DEF Good, Core
  <2> QED
    BY <1>1, <2>1, LostIs
<1>3. Closable(l)
  <2>1. Closable(s)
    BY CoreClosable DEF Good
  <2> QED
    BY <1>2, <2>1 DEF Closable
<1>4. Asked(l)
  BY <1>2, SameAsked
<1>5. t = Close(l, "MQTT_CONNECT_DISCONNECTED")
  BY <1>1 DEF ErrCb
<1>6. OnEdge(l, t)
  BY <1>2, <1>3, <1>4, <1>5, CloseOnEdge
<1> QED
  BY <1>2, <1>6, EdgeFrame DEF OnEdge

(* The TCP connection is up: the client sends CONNECT.                     *)
LEMMA TcpConnectCbOnEdge ==
  ASSUME NEW s, Good(s), Asked(s), s.conn_state = "TCP_CONNECTING",
         NEW t, t = TcpConnectCb(s)
  PROVE  OnEdge(s, t)
<1>1. PICK h : h = [s EXCEPT !.conn_state = "MQTT_CONNECTING", !.cyclic_tick = 0]
  OBVIOUS
<1>2. /\ h \in State /\ h.conn_state = "MQTT_CONNECTING"
      /\ h.pend = s.pend /\ h.req = s.req /\ h.nreq = s.nreq
      /\ h.ring = s.ring /\ h.tx = s.tx /\ h.rx = s.rx
      /\ h.pkt_id_seq = s.pkt_id_seq /\ h.qos0 = s.qos0
      /\ h.served = s.served
  <2>1. s \in State
    BY DEF Good, Core
  <2> QED
    BY <1>1, <2>1, HandshakeIs
<1>3. Asked(h)
  BY <1>2, SameAsked
<1>4. PICK u : u = SetTimeout(h)
  OBVIOUS
<1>5. Unmoved(h, u)
  BY <1>2, <1>4, SetTimeoutUnmoved
<1>6. u \in State /\ Asked(u) /\ u.conn_state = h.conn_state /\ u.req = h.req
  BY <1>3, <1>5, UnmovedAsked DEF Unmoved
<1>7. t = Send(u)
  BY <1>1, <1>4 DEF TcpConnectCb
<1>8. Asked(t) /\ t.conn_state = u.conn_state /\ t.req = u.req
  BY <1>6, <1>7, SendAsked, SendFields
<1> QED
  BY <1>2, <1>6, <1>8 DEF OnEdge, Edge

LEMMA DisconnectOnEdge ==
  ASSUME NEW s, Good(s), Asked(s), s.conn_state # "TCP_DISCONNECTED",
         NEW t, t = Disconnect(s)
  PROVE  OnEdge(s, t)
<1>1. Closable(s)
  BY CoreClosable DEF Good
<1>2. /\ Asked(t) /\ t.conn_state = "TCP_DISCONNECTED"
      /\ t.req = Dropped(s.req)
  BY <1>1, DisconnectOver
<1>3. Over(s, t)
  BY <1>2 DEF Over
<1>4. Works(s, s, FALSE)
  BY WorksSelf DEF Good, Core
<1> QED
  BY <1>3, <1>4, OverOnEdge

LEMMA ClientConnectOnEdge ==
  ASSUME NEW s, Good(s), s.conn_state = "TCP_DISCONNECTED",
         NEW t, t = ClientConnect(s)
  PROVE  OnEdge(s, t)
<1>1. s \in State
  BY DEF Good, Core
<1>2. Asked(t) /\ t.req = NoneYet
  BY <1>1, ClientConnectAsked
<1>3. Connected(s, t)
  BY <1>1, ClientConnectCore
<1> QED
  BY <1>2, <1>3 DEF OnEdge, Edge, Connected

LEMMA RequestOnEdge ==
  ASSUME NEW s, Good(s), Asked(s), IdsLast, s.conn_state # "TCP_DISCONNECTED",
         s.nreq + (IF s.conn_state = "MQTT_CONNECTED" THEN 0 ELSE 2) < MaxReqs,
         NEW kind \in Kinds, NEW t, t = Request(s, kind)
  PROVE  OnEdge(s, t)
<1>1. kind \in AskKinds
  BY ClientConstants DEF AskKinds
<1>2. s.nreq < MaxReqs
  <2>1. s.nreq \in 0 .. MaxReqs /\ MaxReqs \in Nat
    BY StateFields, Constants DEF Good, Core
  <2> QED
    BY <2>1
<1>3. Requested(s, t, kind)
  BY <1>1, <1>2, RequestAsked DEF Good
<1>4. t.conn_state = s.conn_state
  BY <1>1, <1>2, RequestCore DEF Good, SameLink
<1> QED
  BY <1>3, <1>4 DEF Requested, OnEdge, Edge

-----------------------------------------------------------------------------
(***************************************************************************)
(* The server.                                                             *)
(***************************************************************************)
LEMMA AnswersAsked ==
  ASSUME NEW msg, NEW type \in Answers(msg), type # "none", type \notin Unasked
  PROVE  /\ msg.type \in AskTypes
         /\ type \notin {"SUBACK_DENIED", "PUBREC"} =>
              type \in {"SUBACK", "PUBACK", "PUBCOMP"}
  BY DEF Answers, Unasked, AskTypes

(* The server answers with the identifier and the request it read.         *)
LEMMA ReadsOnEdge ==
  ASSUME NEW s, Good(s), Asked(s), NEW t, Reads(s, t)
  PROVE  OnEdge(s, t)
<1>1. /\ s \in State /\ s.tx \in Seq(Msg) /\ s.rx \in Seq(Msg)
      /\ s.granted \in BOOLEAN /\ s.served \in SUBSET Nat /\ s.tx # <<>>
  BY StateFields DEF Good, Core, Reads
<1>2. PICK msg : msg = Head(s.tx)
  OBVIOUS
<1>3. PICK type \in Answers(msg) : ReadsMsg(s, msg, type, t)
  BY <1>2 DEF Reads
<1>4. PICK tx : tx = Tail(s.tx)
  OBVIOUS
<1>5. /\ msg = s.tx[1] /\ msg \in Msg /\ tx \in Seq(Msg)
      /\ \A i \in 1 .. Len(tx) : \E j \in 1 .. Len(s.tx) : tx[i] = s.tx[j]
  BY <1>1, <1>2, <1>4
<1>6. PICK answer : answer = [msg EXCEPT !.type = type]
  OBVIOUS
<1>7. /\ answer \in Msg /\ answer.type = type /\ answer.id = msg.id
      /\ answer.k = msg.k
  <2>1. type \in MsgTypes
    BY AnswersAre
  <2> QED
    BY <1>5, <1>6, <2>1, MsgWith
<1>8. PICK rx : rx = IF type = "none" THEN s.rx ELSE Append(s.rx, answer)
  OBVIOUS
<1>9. rx \in Seq(Msg)
  BY <1>1, <1>7, <1>8
<1>10. PICK granted : granted = (s.granted \/ type = "SUBACK")
  OBVIOUS
<1>11. PICK served : served = IF type \in {"SUBACK", "PUBACK", "PUBCOMP"}
                                 \/ msg.type = "PUBLISH0"
                              THEN s.served \cup {msg.k} ELSE s.served
  OBVIOUS
<1>12. IsRead(s, tx, rx, granted, served, t)
  <2>1. granted \in BOOLEAN
    BY <1>1, <1>10
  <2>2. served \in SUBSET Nat
    <3>1. msg.k \in Nat
      BY <1>5, Constants DEF Msg
    <3> QED
      BY <1>1, <1>11, <3>1
  <2>3. t = [s EXCEPT !.tx = tx, !.rx = rx, !.granted = granted,
               !.served = served]
    BY <1>3, <1>4, <1>6, <1>8, <1>10, <1>11 DEF ReadsMsg
  <2> QED
    BY <1>1, <1>5, <1>9, <2>1, <2>2, <2>3, ReadIs
<1>13. /\ t.pkt_id_seq = s.pkt_id_seq /\ t.nreq = s.nreq /\ t.qos0 = s.qos0
       /\ t.pend = s.pend /\ t.ring = s.ring /\ t.req = s.req
       /\ t.conn_state = s.conn_state /\ t.tx = tx /\ t.rx = rx
       /\ t.served = served
  BY <1>12 DEF IsRead
<1>14. s.served \subseteq t.served
  BY <1>11, <1>13
<1>15. ASSUME NEW x \in Msg, Outgoing(t, x) PROVE Outgoing(s, x)
  BY <1>5, <1>13, <1>15 DEF Outgoing, Has
<1>16. ASSUME type # "none" PROVE Answering(t, answer)
  <2>1. SUFFICES ASSUME type \notin Unasked
                 PROVE  /\ Own(t, answer)
                        /\ type \notin {"SUBACK_DENIED", "PUBREC"} =>
                             answer.k \in t.served
    BY <1>7 DEF Answering
  <2>2. /\ msg.type \in AskTypes
        /\ type \notin {"SUBACK_DENIED", "PUBREC"} =>
             type \in {"SUBACK", "PUBACK", "PUBCOMP"}
    BY <1>16, <2>1, AnswersAsked
  <2>3. Outgoing(s, msg)
    <3>1. 1 \in 1 .. Len(s.tx)
      BY <1>1
    <3> QED
      BY <1>5, <3>1 DEF Outgoing, Has
  <2>4. Own(s, msg)
    BY <1>5, <2>2, <2>3 DEF Asked, Asking
  <2>5. Own(t, answer)
    BY <1>7, <1>13, <2>4 DEF Own
  <2> QED
    BY <1>7, <1>11, <1>13, <2>2, <2>5
<1>17. ASSUME NEW x \in Msg, Has(t.rx, x)
       PROVE  Has(s.rx, x) \/ Answering(t, x)
  <2>1. CASE type = "none"
    BY <1>8, <1>13, <1>17, <2>1
  <2>2. CASE type # "none"
    <3>1. Has(Append(s.rx, answer), x)
      BY <1>8, <1>13, <1>17, <2>2
    <3>2. Has(s.rx, x) \/ x = answer
      BY <1>1, <1>7, <3>1, HasAppend
    <3> QED
      BY <1>16, <2>2, <3>2
  <2> QED
    BY <2>1, <2>2
<1>18. Follows(s, t)
  BY <1>13, <1>14, <1>15, <1>17, AmongSelf DEF Follows
<1>19. Asked(t)
  BY <1>18, FollowsAsked
<1> QED
  BY <1>13, <1>19 DEF OnEdge, Edge

LEMMA PublishesOnEdge ==
  ASSUME NEW s, Good(s), Asked(s), NEW t, Publishes(s, t)
  PROVE  OnEdge(s, t)
<1>1. s \in State /\ s.rx \in Seq(Msg) /\ s.npub \in 0 .. MaxPub /\ s.npub < MaxPub
  BY StateFields DEF Good, Core, Publishes
<1>2. PICK kind \in Kinds :
        t = [s EXCEPT !.npub = s.npub + 1,
               !.rx = Append(s.rx, [type |-> kind, id |-> s.npub + 1, k |-> 0])]
  BY DEF Publishes
<1>3. PICK msg : msg = [type |-> kind, id |-> s.npub + 1, k |-> 0]
  OBVIOUS
<1>4. PICK n : n = s.npub + 1
  OBVIOUS
<1>5. n \in 0 .. MaxPub /\ n \in 0 .. IdMod
  BY <1>1, <1>4, ClientConstants, Constants
<1>6. msg \in Msg /\ msg.type = kind
  <2>1. kind \in MsgTypes
    BY ClientConstants DEF MsgTypes
  <2>2. 0 \in 0 .. MaxReqs
    BY Constants
  <2>3. msg = [type |-> kind, id |-> n, k |-> 0]
    BY <1>3, <1>4
  <2> QED
    BY <1>5, <2>1, <2>2, <2>3 DEF Msg
<1>7. PICK rx : rx = Append(s.rx, msg)
  OBVIOUS
<1>8. rx \in Seq(Msg)
  BY <1>1, <1>6, <1>7
<1>9. IsRead(s, s.tx, rx, s.granted, s.served, t)
  <2>1. t = [s EXCEPT !.npub = n, !.rx = rx]
    BY <1>2, <1>3, <1>4, <1>7
  <2> QED
    BY <1>1, <1>5, <1>8, <2>1, PublishedIs
<1>10. /\ t.pkt_id_seq = s.pkt_id_seq /\ t.nreq = s.nreq /\ t.qos0 = s.qos0
       /\ t.pend = s.pend /\ t.ring = s.ring /\ t.req = s.req
       /\ t.conn_state = s.conn_state /\ t.tx = s.tx /\ t.rx = rx
       /\ t.served = s.served
  BY <1>9 DEF IsRead
<1>11. Answering(t, msg)
  BY <1>6, ClientConstants DEF Answering, Unasked
<1>12. ASSUME NEW x \in Msg, Has(t.rx, x)
       PROVE  Has(s.rx, x) \/ Answering(t, x)
  <2>1. Has(s.rx, x) \/ x = msg
    BY <1>1, <1>6, <1>7, <1>10, <1>12, HasAppend
  <2> QED
    BY <1>11, <2>1
<1>13. Follows(s, t)
  BY <1>10, <1>12, AmongSelf DEF Follows, Outgoing
<1>14. Asked(t)
  BY <1>13, FollowsAsked
<1> QED
  BY <1>10, <1>14 DEF OnEdge, Edge

-----------------------------------------------------------------------------
(***************************************************************************)
(* The invariant of the session.                                           *)
(***************************************************************************)
LEMMA HandlesOnEdge ==
  ASSUME NEW s, Good(s), Asked(s), IdsLast, NEW t, Handles(s, t)
  PROVE  OnEdge(s, t)
<1>1. CASE s.conn_state = "TCP_DISCONNECTED" /\ t = ClientConnect(s)
  BY <1>1, ClientConnectOnEdge
<1>2. CASE /\ s.conn_state # "TCP_DISCONNECTED"
           /\ s.nreq + (IF s.conn_state = "MQTT_CONNECTED" THEN 0 ELSE 2) < MaxReqs
           /\ \E kind \in Kinds : t = Request(s, kind)
  BY <1>2, RequestOnEdge
<1>3. CASE s.conn_state # "TCP_DISCONNECTED" /\ t = Disconnect(s)
  BY <1>3, DisconnectOnEdge
<1>4. CASE s.conn_state = "TCP_CONNECTING" /\ t = TcpConnectCb(s)
  BY <1>4, TcpConnectCbOnEdge
<1>5. CASE s.conn_state # "TCP_DISCONNECTED" /\ t = ErrCb(s)
  BY <1>5, ErrCbOnEdge
<1>6. CASE /\ s.conn_state # "TCP_DISCONNECTED"
           /\ t = Close(s, "MQTT_CONNECT_DISCONNECTED")
  <2>1. Closable(s)
    BY CoreClosable DEF Good
  <2> QED
    BY <1>6, <2>1, CloseOnEdge
<1>7. ASSUME NEW n \in 1 .. Len(s.rx),
             t = RecvCb([s EXCEPT !.rx = SubSeq(s.rx, n + 1, Len(s.rx))],
                        SubSeq(s.rx, 1, n))
      PROVE  OnEdge(s, t)
  BY <1>7, RecvCbOnEdge DEF Good
<1>8. ASSUME s.conn, NEW n \in 1 .. s.unacked, t = SentCb(s, n)
      PROVE  OnEdge(s, t)
  BY <1>8, SentCbOnEdge DEF Good
<1>9. CASE t = PollCb(s)
  BY <1>9, PollCbOnEdge DEF Good, Core
<1>10. CASE s.timers > 0 /\ t = CyclicTimer(s)
  BY <1>10, CyclicTimerOnEdge DEF Good
<1> QED
  BY <1>1, <1>2, <1>3, <1>4, <1>5, <1>6, <1>7, <1>8, <1>9, <1>10
     DEF Handles, Calls

LEMMA NextOnEdge ==
  ASSUME Good(m), Asked(m), IdsLast, Next
  PROVE  OnEdge(m, m')
<1>1. ASSUME NEW mem \in BOOLEAN, HandlesWith(m, mem, m') PROVE OnEdge(m, m')
  <2>1. PICK s : s = [m EXCEPT !.mem = mem]
    OBVIOUS
  <2>2. PICK t : Handles(s, t) /\ m' = [t EXCEPT !.mem = TRUE]
    BY <1>1, <2>1 DEF HandlesWith
  <2>3. Good(s) /\ Unmoved(m, s)
    BY <2>1, Handled
  <2>4. Asked(s) /\ s.conn_state = m.conn_state /\ s.req = m.req
    BY <2>3, UnmovedAsked DEF Unmoved
  <2>5. OnEdge(s, t)
    BY <2>2, <2>3, <2>4, HandlesOnEdge
  <2>6. t \in State
    <3>1. After(s, t)
      BY <2>2, <2>3, HandlesAfter
    <3> QED
      BY <3>1 DEF After, Core
  <2>7. Unmoved(t, m')
    BY <2>2, <2>6, MemoryIs
  <2>8. Asked(m') /\ m'.conn_state = t.conn_state /\ m'.req = t.req
    BY <2>5, <2>7, UnmovedAsked DEF Unmoved, OnEdge
  <2> QED
    BY <2>4, <2>5, <2>8, EdgeFrame
<1>2. CASE Reads(m, m')
  BY <1>2, ReadsOnEdge
<1>3. CASE Publishes(m, m')
  BY <1>3, PublishesOnEdge
<1>4. CASE m' = m
  BY <1>4, SelfOnEdge
<1> QED
  BY <1>1, <1>2, <1>3, <1>4, NextCases

(* No request ends before the session is accepted.                         *)
Unended(s) ==
  s.conn_state \in Connecting => \A k \in Requests : s.req[k] \notin Ends

LEMMA EdgeUnended ==
  ASSUME NEW s, Unended(s), NEW t, Edge(s, t)
  PROVE  Unended(t)
<1> USE DEF Connecting, Ends
<1>1. CASE t.req = NoneYet
  BY <1>1 DEF Unended, NoneYet
<1>2. CASE t.conn_state = s.conn_state /\ t.req = s.req
  BY <1>2 DEF Unended
<1>3. CASE /\ s.conn_state = "TCP_CONNECTING" /\ t.conn_state = "MQTT_CONNECTING"
           /\ t.req = s.req
  BY <1>3 DEF Unended
<1>4. CASE t.conn_state \in {"MQTT_CONNECTED", "TCP_DISCONNECTED"}
  BY <1>4 DEF Unended
<1>5. CASE /\ t.conn_state = s.conn_state
           /\ \A k \in Requests : NewRequest(s.req[k], t.req[k])
  BY <1>5 DEF Unended, NewRequest
<1> QED
  BY <1>1, <1>2, <1>3, <1>4, <1>5 DEF Edge

SessionInv == IInv /\ Asked(m) /\ Unended(m)

LEMMA FreshAsked == Asked(Fresh) /\ Unended(Fresh)
<1>1. Fresh \in State
  BY FreshGood DEF Good, Core
<1>2. /\ Fresh.pend = <<>> /\ Fresh.rx = <<>> /\ Fresh.tx = <<>>
      /\ Fresh.ring = <<>> /\ Fresh.nreq = 0 /\ Fresh.pkt_id_seq = 0
      /\ Fresh.served = {} /\ Fresh.qos0 = {} /\ Fresh.req = NoneYet
      /\ Fresh.conn_state = "TCP_DISCONNECTED"
  BY DEF Fresh, Wiped, NoneYet
<1>3. \A x \in Msg : Has(Fresh.ring, x) => x.type \notin AskTypes
  BY <1>2, HasEmpty
<1>4. Asked(Fresh)
  BY <1>1, <1>2, <1>3, WipeAsked
<1> QED
  BY <1>2, <1>4 DEF Unended, Connecting

LEMMA SpecSessionInv ==
  ASSUME IdsLast
  PROVE  Spec => []SessionInv
<1>1. Init => SessionInv
  BY InitIInv, FreshAsked DEF Init, SessionInv
<1>2. SessionInv /\ [Next]_vars => SessionInv'
  <2>1. SUFFICES ASSUME SessionInv, [Next]_vars PROVE SessionInv'
    OBVIOUS
  <2>2. IInv'
    BY <2>1, StepIInv DEF SessionInv
  <2>3. CASE Next
    <3>1. OnEdge(m, m')
      BY <2>1, <2>3, NextOnEdge DEF SessionInv, IInv
    <3>2. Asked(m') /\ Unended(m')
      BY <2>1, <3>1, EdgeUnended DEF SessionInv, OnEdge
    <3> QED
      BY <2>2, <3>2 DEF SessionInv
  <2>4. CASE UNCHANGED vars
    BY <2>1, <2>2, <2>4 DEF SessionInv, vars
  <2> QED
    BY <2>1, <2>3, <2>4
<1> QED
  BY <1>1, <1>2, PTL DEF Spec

-----------------------------------------------------------------------------
(***************************************************************************)
(* What the session invariant says of the properties.                      *)
(***************************************************************************)
(* A request reported as successful was answered by the server, unless it  *)
(* is a QoS 0 publish, which nothing answers (mqtt_take_request and its    *)
(* callers, mqtt.c:344 and 838).                                           *)
THEOREM OkIsServed ==
  ASSUME IdsLast
  PROVE  Spec => []OkMeansServed
<1>1. SessionInv => OkMeansServed
  BY DEF SessionInv, Asked, OkMeansServed
<1> QED
  BY <1>1, SpecSessionInv, PTL

(* The steps of the session, one for each edge of the client's.            *)
LEMMA OpenStep ==
  ASSUME m.conn_state = "TCP_DISCONNECTED",
         m'.conn_state \in {"TCP_DISCONNECTED", "TCP_CONNECTING"},
         m'.req = NoneYet
  PROVE  Session!Open
  BY DEF Session!Open, Session!NoRequests, NoneYet

LEMMA EstablishStep ==
  ASSUME m.conn_state = "TCP_CONNECTING", m'.conn_state = "MQTT_CONNECTING",
         m'.req = m.req
  PROVE  Session!Establish
  BY DEF Session!Establish

LEMMA ReopenStep ==
  ASSUME m.conn_state \in ConnStates, m.conn_state # "TCP_DISCONNECTED",
         m'.conn_state \in {"TCP_DISCONNECTED", "TCP_CONNECTING"},
         m'.req = NoneYet
  PROVE  Session!Reopen
  BY DEF Session!Reopen, Session!NoRequests, NoneYet, ConnStates

LEMMA OutcomesMove ==
  ASSUME NEW from, NEW new \in BOOLEAN
  PROVE  Outcomes(from, new, FALSE) \subseteq Session!Moves(from)
  BY DEF Outcomes, Session!Moves, Session!Ended, Ends

LEMMA OutcomesDrop ==
  ASSUME NEW from
  PROVE  Outcomes(from, FALSE, TRUE) \subseteq Session!Drops(from)
  BY DEF Outcomes, Session!Drops, Session!Ended, Ends

LEMMA AcceptStep ==
  ASSUME m.conn_state = "MQTT_CONNECTING", m'.conn_state = "MQTT_CONNECTED",
         DOMAIN m'.req = Requests,
         \A k \in Requests : m'.req[k] \in Outcomes(m.req[k], TRUE, FALSE)
  PROVE  Session!Accept
<1>1. \A k \in Requests : m'.req[k] \in Session!Moves(m.req[k])
  BY OutcomesMove
<1> QED
  BY <1>1 DEF Session!Accept

LEMMA LoseStep ==
  ASSUME m.conn_state \in ConnStates, m.conn_state # "TCP_DISCONNECTED",
         m'.conn_state = "TCP_DISCONNECTED", DOMAIN m'.req = Requests,
         \A k \in Requests : m'.req[k] \in Outcomes(m.req[k], FALSE, TRUE)
  PROVE  Session!Lose
<1>1. \A k \in Requests : m'.req[k] \in Session!Drops(m.req[k])
  BY OutcomesDrop
<1> QED
  BY <1>1 DEF Session!Lose, ConnStates

LEMMA AnswerStep ==
  ASSUME m.conn_state = "MQTT_CONNECTED", m'.conn_state = "MQTT_CONNECTED",
         DOMAIN m'.req = Requests,
         \A k \in Requests : m'.req[k] \in Outcomes(m.req[k], FALSE, FALSE)
  PROVE  Session!Work
<1>1. \A k \in Requests : m'.req[k] \in Session!Moves(m.req[k])
  BY OutcomesMove
<1> QED
  BY <1>1 DEF Session!Work

(* No request ends in a session that is not up: this is where Unended is   *)
(* needed, for the session allows such a step only when it ends nothing.   *)
LEMMA RequestStep ==
  ASSUME m.conn_state \in ConnStates, m.conn_state # "TCP_DISCONNECTED",
         m'.conn_state = m.conn_state, DOMAIN m'.req = Requests,
         Unended(m), Unended(m)',
         \A k \in Requests : NewRequest(m.req[k], m'.req[k])
  PROVE  Session!Work
<1>1. \A k \in Requests : m'.req[k] \in Session!Moves(m.req[k])
  BY DEF NewRequest, Session!Moves, Session!Ended
<1>2. m.conn_state # "MQTT_CONNECTED" =>
        \A k \in Requests : m'.req[k] \notin Session!Ended
  BY DEF Unended, Connecting, ConnStates, Session!Ended, Ends
<1> QED
  BY <1>1, <1>2 DEF Session!Work, ConnStates

LEMMA EdgeIsSession ==
  ASSUME m.conn_state \in ConnStates, DOMAIN m'.req = Requests,
         Unended(m), Unended(m)', Edge(m, m')
  PROVE  [Session!Next]_(Session!svars)
<1>1. CASE m'.conn_state = m.conn_state /\ m'.req = m.req
  BY <1>1 DEF Session!svars
<1>2. CASE ~(m'.conn_state = m.conn_state /\ m'.req = m.req)
  <2>1. \/ Session!Open \/ Session!Establish \/ Session!Accept
        \/ Session!Work \/ Session!Lose \/ Session!Reopen
    BY <1>2, OpenStep, EstablishStep, AcceptStep, RequestStep, AnswerStep,
       LoseStep, ReopenStep DEF Edge
  <2> QED
    BY <2>1 DEF Session!Next
<1> QED
  BY <1>1, <1>2

(* The client implements the session it promises its application: requests *)
(* move forward only, succeed only in an accepted session, and none of     *)
(* them survives the session in which it was made.                         *)
THEOREM SessionImplemented ==
  ASSUME IdsLast
  PROVE  Spec => ImplementsSession
<1>1. Init => Session!Init
  <2>1. Fresh.conn_state = "TCP_DISCONNECTED" /\ Fresh.req = NoneYet
    BY DEF Fresh, Wiped, NoneYet
  <2> QED
    BY <2>1 DEF Init, Session!Init, Session!NoRequests, NoneYet
<1>2. SessionInv /\ SessionInv' /\ [Next]_vars
        => [Session!Next]_(Session!svars)
  <2>1. SUFFICES ASSUME SessionInv, SessionInv', [Next]_vars
                 PROVE  [Session!Next]_(Session!svars)
    OBVIOUS
  <2>2. m \in State /\ m' \in State
    BY <2>1 DEF SessionInv, IInv, Good, Core
  <2>3. m.conn_state \in ConnStates /\ DOMAIN m'.req = Requests
    BY <2>2 DEF State
  <2>4. CASE Next
    <3>1. Edge(m, m')
      BY <2>1, <2>4, NextOnEdge DEF SessionInv, IInv, OnEdge
    <3> QED
      BY <2>1, <2>3, <3>1, EdgeIsSession DEF SessionInv
  <2>5. CASE UNCHANGED vars
    BY <2>5 DEF vars, Session!svars
  <2> QED
    BY <2>1, <2>4, <2>5
<1> QED
  BY <1>1, <1>2, SpecSessionInv, PTL DEF Spec, ImplementsSession, Session!Spec
=============================================================================
