--------------------------- MODULE MempPools_proofs ---------------------------
(***************************************************************************)
(* Theorems about MempPools, for pools, frames and mailboxes of every      *)
(* size. As long as the two tasks were never inside one pool at once,      *)
(* memp_malloc never hands out an element that is in use, memp_free never  *)
(* puts back an element the task does not have, a frame that waits is      *)
(* whole, and nothing leaks.                                               *)
(***************************************************************************)
EXTENDS MempPools, TLAPS, WellFoundedInduction

(* The inductive invariant. Local: what holds even after an overlap.       *)
Local ==
  /\ \A t \in Task : pc[t] \in {"next", "pop"} => elem[t] \in Word(pool[t]) \ {NULL}
  /\ \A t \in Task : pc[t] \in {"pop", "got", "free", "link", "push"} =>
       elem[t] \in Elem(pool[t])
  /\ \A t \in Task : pc[t] \in {"pop", "link", "push"} => reg[t] \in Word(pool[t])
  /\ \A t \in Task : pc[t] = "unlink" => p[t] # NULL
  /\ pc["tcpip"] \in {"idle", "unlink", "free", "link", "push"}
  /\ pc["tcpip"] = "idle" <=> msg = NULL
  /\ pc["tcpip"] \in {"free", "link", "push"} /\ pool["tcpip"] = "msg" => elem["tcpip"] = msg /\ p["tcpip"] = NULL
  /\ pc["input"] \in {"read", "next", "pop", "got", "empty"} /\ pool["input"] = "pbuf" => rem > 0
  /\ pc["input"] \in {"read", "next", "pop", "got", "empty"} /\ pool["input"] = "msg" => p["input"] # NULL
  /\ pc["input"] \in {"free", "link", "push"} /\ pool["input"] = "msg" => p["input"] # NULL
  /\ \A i \in 1 .. Len(mbox) : payload[mbox[i]] # NULL

(* The elements whose first word is no link of theirs: a task has just got *)
(* them or is putting them back.                                           *)
Loose(q, e) == \E t \in Task :
  pool[t] = q /\ elem[t] = e /\ pc[t] \in {"got", "free", "link", "push"}

(* Every holder has what it thinks it has. *)
TabFree == \A q \in Pool : tab[q] # NULL => tab[q] \in Elem(q) /\ who[q][tab[q]] = FREE
ChainHeld == \A t \in Task : p[t] # NULL /\ pc[t] # "idle" =>
  who["pbuf"][p[t]] = Hand(t) /\ ~Loose("pbuf", p[t])
LooseHeld == \A t \in Task :
  pc[t] \in {"got", "free", "link", "push"} => who[pool[t]][elem[t]] = Hand(t)
Boxed ==
  /\ \A i \in 1 .. Len(mbox) :
       /\ who["msg"][mbox[i]] = mbox[i] /\ mbox[i] # msg
       /\ who["pbuf"][payload[mbox[i]]] = mbox[i]
  /\ \A i, j \in 1 .. Len(mbox) : mbox[i] = mbox[j] => i = j
Messages ==
  /\ msg # NULL => who["msg"][msg] = msg
  /\ \A m \in Elem("msg") :
       /\ who["msg"][m] \in {FREE, INPUT, m}
       /\ who["msg"][m] = m /\ ~Loose("msg", m) => next["msg"][m] = INPKT
LastLinked ==
  pc["input"] \in {"read", "next", "pop", "got"} /\ pool["input"] = "pbuf" =>
    IF p["input"] = NULL THEN last = NULL
    ELSE /\ last # NULL /\ who["pbuf"][last] = INPUT
         /\ ~Loose("pbuf", last) /\ next["pbuf"][last] = NULL
Held == TabFree /\ ChainHeld /\ LooseHeld /\ Boxed /\ Messages /\ LastLinked

(* Links stay within one holder's elements, no two of them meet, and none  *)
(* leads to the head of a list.                                            *)
Closed == \A q \in Pool : \A e \in Elem(q) : ~Loose(q, e) =>
  /\ who[q][e] = FREE => next[q][e] # INPKT
  /\ next[q][e] \in Elem(q) =>
       who[q][next[q][e]] = who[q][e] /\ ~Loose(q, next[q][e])
Unshared == \A q \in Pool : \A e, f \in Elem(q) :
  ~Loose(q, e) /\ ~Loose(q, f) /\ next[q][e] = next[q][f] /\ next[q][e] \in Elem(q) => e = f
IsHead(q, e) ==
  \/ e = tab[q]
  \/ q = "pbuf" /\ \E t \in Task : pc[t] # "idle" /\ e = p[t]
  \/ q = "pbuf" /\ \E i \in 1 .. Len(mbox) : e = payload[mbox[i]]
HeadsFirst == \A q \in Pool : \A e \in Elem(q) :
  ~Loose(q, e) /\ next[q][e] \in Elem(q) => ~IsHead(q, next[q][e])

(* What a task inside a pool has loaded is still true.                     *)
Loaded ==
  /\ pc["input"] \in {"next", "pop"} => elem["input"] = tab[pool["input"]]
  /\ pc["input"] = "pop" => reg["input"] = next[pool["input"]][elem["input"]]
  /\ \A t \in Task : pc[t] \in {"link", "push"} => reg[t] = tab[pool[t]]
  /\ \A t \in Task : pc[t] = "push" => next[pool[t]][elem[t]] = reg[t]
  /\ ~Overlaps

Sound == Held /\ Closed /\ Unshared /\ HeadsFirst /\ Loaded
IInv == ~overlap => Sound

-----------------------------------------------------------------------------
LEMMA Words ==
  \A q \in Pool : Elem(q) \subseteq Word(q) /\ Word(q) \subseteq Int /\ NULL \in Word(q)
                 /\ NULL \notin Elem(q) /\ INPKT \notin Elem(q) /\ FREE # INPUT
                 /\ Elem("msg") \subseteq 0 .. INPUT
BY MempConstants DEF Pool, Elem, Word, NULL, INPKT, FREE, INPUT

LEMMA InitTyped == Init => TypeOK /\ Local
<1> SUFFICES ASSUME Init PROVE TypeOK /\ Local
  OBVIOUS
<1>1. TypeOK
  <2>1. \A q \in Pool : tab[q] \in Word(q) /\ next[q] \in [Elem(q) -> Word(q)]
                     /\ who[q] \in [Elem(q) -> 0 .. INPUT]
    BY MempConstants DEF Init, Pool, Elem, Word, NULL, INPKT, FREE, INPUT
  <2>2. tab \in [Pool -> Int] /\ DOMAIN next = Pool /\ DOMAIN who = Pool
    BY MempConstants DEF Init
  <2>3. payload \in [Elem("msg") -> Word("pbuf")] /\ p \in [Task -> Word("pbuf")]
        /\ last \in Word("pbuf") /\ msg \in Elem("msg") \cup {NULL}
    BY DEF Init, Word
  <2>4. rem \in 0 .. MaxChain /\ elem \in [Task -> Int] /\ reg \in [Task -> Int]
    BY MempConstants DEF Init, NULL
  <2>5. pool \in [Task -> Pool] /\ overlap \in BOOLEAN
    BY DEF Init, Pool
  <2>7. mbox \in Seq(Elem("msg"))
    BY DEF Init
  <2>6. pc \in [Task -> {"idle", "read", "next", "pop", "got", "empty",
                       "unlink", "free", "link", "push"}]
    BY DEF Init
  <2> QED
    BY <2>1, <2>2, <2>3, <2>4, <2>5, <2>6, <2>7 DEF TypeOK
<1>2. Local
  BY DEF Init, Local, Task, Pool, NULL
<1> QED
  BY <1>1, <1>2

LEMMA MallocReadTyped ==
  ASSUME TypeOK, Local, MallocRead PROVE TypeOK' /\ Local'
<1>1. TypeOK'
  BY Words, MempConstants DEF MallocRead, TypeOK, Local, listVars, allocVars, SetElem, At, Goto, Watch, Task, Pool, INPUT, FREE
<1>2. Local'
  BY Words DEF MallocRead, TypeOK, Local, listVars, allocVars, SetElem, At, Goto, Task, Pool
<1> QED
  BY <1>1, <1>2

LEMMA MallocNextTyped ==
  ASSUME TypeOK, Local, MallocNext PROVE TypeOK' /\ Local'
<1>1. TypeOK'
  BY Words, MempConstants DEF MallocNext, TypeOK, Local, listVars, allocVars, At, Goto, Watch, Task, Pool, INPUT, FREE
<1>2. Local'
  BY Words DEF MallocNext, TypeOK, Local, listVars, allocVars, At, Goto, Task, Pool
<1> QED
  BY <1>1, <1>2

LEMMA MallocPopTyped ==
  ASSUME TypeOK, Local, MallocPop PROVE TypeOK' /\ Local'
<1> USE DEF MallocPop
<1>1. tab' \in [Pool -> Int] /\ DOMAIN next' = Pool /\ DOMAIN who' = Pool
  BY Words DEF TypeOK, Local, Owner, At, Task
<1>2. ASSUME NEW q \in Pool PROVE tab'[q] \in Word(q) /\ next'[q] \in [Elem(q) -> Word(q)]
                                 /\ who'[q] \in [Elem(q) -> 0 .. INPUT]
  <2>1. INPUT \in 0 .. INPUT
    BY MempConstants DEF INPUT
  <2>2. CASE q = pool["input"]
    BY <2>1, <2>2, Words DEF TypeOK, Local, Owner, At, Task
  <2>3. CASE q # pool["input"]
    BY <2>3 DEF TypeOK, Owner
  <2> QED
    BY <2>2, <2>3
<1>3. pc' \in [Task -> {"idle", "read", "next", "pop", "got", "empty",
                     "unlink", "free", "link", "push"}]
  BY DEF TypeOK, Goto
<1>4. TypeOK'
  BY <1>1, <1>2, <1>3 DEF TypeOK, funcVars, allocVars, Watch
<1>5. Local'
  BY Words DEF TypeOK, Local, funcVars, allocVars, Owner, At, Goto, Task
<1> QED
  BY <1>4, <1>5

LEMMA FreeReadTyped ==
  ASSUME NEW t \in Task, TypeOK, Local, FreeRead(t) PROVE TypeOK' /\ Local'
<1>1. TypeOK'
  BY Words DEF FreeRead, TypeOK, Local, listVars, allocVars, At, Goto, Watch
<1>2. Local'
  BY Words DEF FreeRead, TypeOK, Local, listVars, allocVars, At, Goto, Task
<1> QED
  BY <1>1, <1>2

LEMMA FreeLinkTyped ==
  ASSUME NEW t \in Task, TypeOK, Local, FreeLink(t) PROVE TypeOK' /\ Local'
<1>1. TypeOK'
  BY Words DEF FreeLink, TypeOK, Local, funcVars, allocVars, At, Goto, Watch
<1>2. Local'
  BY Words DEF FreeLink, TypeOK, Local, funcVars, allocVars, At, Goto, Task
<1> QED
  BY <1>1, <1>2

LEMMA FreePushTyped ==
  ASSUME NEW t \in Task, TypeOK, Local, FreePush(t) PROVE TypeOK' /\ Local'
<1> USE DEF FreePush
<1>1. TypeOK'
  <2>1. tab' \in [Pool -> Int] /\ DOMAIN next' = Pool /\ DOMAIN who' = Pool
    BY Words DEF TypeOK, Local, Owner, At
  <2>2. ASSUME NEW q \in Pool PROVE tab'[q] \in Word(q) /\ next'[q] \in [Elem(q) -> Word(q)]
                                   /\ who'[q] \in [Elem(q) -> 0 .. INPUT]
    <3>1. FREE \in 0 .. INPUT
      BY MempConstants DEF FREE, INPUT
    <3>2. CASE q = pool[t]
      BY <3>1, <3>2, Words DEF TypeOK, Local, Owner, At
    <3>3. CASE q # pool[t]
      BY <3>3 DEF TypeOK, Owner
    <3> QED
      BY <3>2, <3>3
  <2>3. pool' \in [Task -> Pool] /\ elem' \in [Task -> Int] /\ msg' \in Elem("msg") \cup {NULL}
    <3>1. CASE p[t] # NULL
      BY <3>1 DEF TypeOK
    <3>2. CASE p[t] = NULL /\ t = "tcpip" /\ pool[t] = "pbuf"
      <4>1. msg \in Int
        BY <3>2, Words DEF TypeOK, Local, At
      <4>2. pool' = [pool EXCEPT ![t] = "msg"] /\ elem' = [elem EXCEPT ![t] = msg] /\ msg' = msg
        BY <3>2 DEF SetPool, SetElem
      <4>3. pool' \in [Task -> Pool]
        BY <4>2 DEF TypeOK, Pool
      <4>4. elem' \in [Task -> Int]
        BY <4>1, <4>2 DEF TypeOK
      <4> QED
        BY <4>2, <4>3, <4>4 DEF TypeOK
    <3>3. CASE p[t] = NULL /\ ~(t = "tcpip" /\ pool[t] = "pbuf")
      BY <3>3, Words DEF TypeOK
    <3> QED
      BY <3>1, <3>2, <3>3
  <2>4. pc' \in [Task -> {"idle", "read", "next", "pop", "got", "empty",
                       "unlink", "free", "link", "push"}]
    BY DEF TypeOK, Goto
  <2> QED
    BY <2>1, <2>2, <2>3, <2>4 DEF TypeOK, allocVars, Watch
<1>2. Local'
  <2>1. CASE p[t] # NULL
    BY <2>1, Words DEF TypeOK, Local, allocVars, At, Goto, Task
  <2>2. CASE p[t] = NULL /\ t = "tcpip" /\ pool[t] = "pbuf"
    BY <2>2, Words, ZenonT(60) DEF TypeOK, Local, allocVars, At, Goto, SetPool, SetElem, Task, Pool
  <2>3. CASE p[t] = NULL /\ ~(t = "tcpip" /\ pool[t] = "pbuf")
    BY <2>3, Words DEF TypeOK, Local, allocVars, At, Goto, Task
  <2> QED
    BY <2>1, <2>2, <2>3
<1> QED
  BY <1>1, <1>2

LEMMA UnlinkTyped ==
  ASSUME NEW t \in Task, TypeOK, Local, Unlink(t) PROVE TypeOK' /\ Local'
<1>1. p[t] \in Elem("pbuf") /\ next["pbuf"][p[t]] \in Word("pbuf")
  BY DEF Unlink, TypeOK, Local, At, Word, Pool
<1>2. TypeOK'
  BY <1>1, Words DEF Unlink, TypeOK, listVars, allocVars, At, Goto, Watch, SetElem, SetPool, Pool
<1>3. Local'
  BY <1>1, Words DEF Unlink, TypeOK, Local, listVars, allocVars, At, Goto, SetElem, SetPool, Task
<1> QED
  BY <1>2, <1>3

LEMMA ReceiveTyped ==
  ASSUME TypeOK, Local, Receive PROVE TypeOK' /\ Local'
<1>1. TypeOK'
  BY Words, MempConstants DEF Receive, TypeOK, listVars, At, Goto, Watch, SetPool, Task, Pool
<1>2. Local'
  BY Words, MempConstants DEF Receive, TypeOK, Local, listVars, At, Goto, SetPool, Task
<1> QED
  BY <1>1, <1>2

LEMMA ChainPbufTyped ==
  ASSUME TypeOK, Local, ChainPbuf PROVE TypeOK' /\ Local'
<1>1. TypeOK'
  BY Words, MempConstants DEF ChainPbuf, TypeOK, Local, At, Goto, Watch, SetPool, Task, Pool
<1>2. Local'
  BY Words DEF ChainPbuf, TypeOK, Local, At, Goto, SetPool, Task, Pool
<1> QED
  BY <1>1, <1>2

LEMMA AllocFailsTyped ==
  ASSUME TypeOK, Local, AllocFails PROVE TypeOK' /\ Local'
<1>1. TypeOK'
  BY DEF AllocFails, TypeOK, listVars, funcVars, allocVars, At, Goto, Watch, Task
<1>2. Local'
  BY DEF AllocFails, TypeOK, Local, listVars, funcVars, allocVars, At, Goto, Task
<1> QED
  BY <1>1, <1>2

LEMMA PostMsgTyped ==
  ASSUME TypeOK, Local, PostMsg PROVE TypeOK' /\ Local'
<1> USE DEF PostMsg
<1> DEFINE m == elem["input"]
<1>1. m \in Elem("msg") /\ m \in 0 .. INPUT /\ p["input"] # NULL
  BY Words DEF TypeOK, Local, At, Task
<1>2. TypeOK'
  <2>1. DOMAIN next' = Pool /\ DOMAIN who' = Pool
    BY DEF TypeOK
  <2>2. ASSUME NEW q \in Pool PROVE next'[q] \in [Elem(q) -> Word(q)]
    BY <1>1, Words DEF TypeOK, Word, Pool
  <2>3. ASSUME NEW q \in Pool PROVE who'[q] \in [Elem(q) -> 0 .. INPUT]
    <3>1. CASE Len(mbox) < QueueLength
      <4>4. who' = [who EXCEPT !["msg"][m] = m, !["pbuf"] =
             [e \in Elem("pbuf") |-> IF @[e] = INPUT THEN m ELSE @[e]]]
        BY <3>1, MempConstants DEF TypeOK
      <4>5. DOMAIN who = {"pbuf", "msg"}
        BY DEF TypeOK, Pool
      <4>1. /\ who'["msg"] = [who["msg"] EXCEPT ![m] = m]
            /\ who'["pbuf"] = [e \in Elem("pbuf") |->
                                IF who["pbuf"][e] = INPUT THEN m ELSE who["pbuf"][e]]
        BY <4>4, <4>5
      <4>2. who'["msg"] \in [Elem("msg") -> 0 .. INPUT]
        BY <4>1, <1>1 DEF TypeOK, Pool
      <4>3. who'["pbuf"] \in [Elem("pbuf") -> 0 .. INPUT]
        BY <4>1, <1>1 DEF TypeOK, Pool
      <4> QED
        BY <4>2, <4>3 DEF Pool
    <3>2. CASE Len(mbox) >= QueueLength
      BY <3>2, MempConstants DEF TypeOK
    <3> QED
      BY <3>1, <3>2, MempConstants DEF TypeOK
  <2>4. payload' \in [Elem("msg") -> Word("pbuf")]
    BY <1>1 DEF TypeOK, Task
  <2>6. mbox' \in Seq(Elem("msg"))
    <3>1. mbox' = mbox \/ mbox' = Append(mbox, m)
      OBVIOUS
    <3>2. mbox \in Seq(Elem("msg"))
      BY DEF TypeOK
    <3>3. Append(mbox, m) \in Seq(Elem("msg"))
      BY <3>2, <1>1
    <3> QED
      BY <3>1, <3>2, <3>3
  <2>5. pc' \in [Task -> {"idle", "read", "next", "pop", "got", "empty",
                       "unlink", "free", "link", "push"}]
    BY DEF TypeOK, Goto
  <2> QED
    BY <2>1, <2>2, <2>3, <2>4, <2>5, <2>6 DEF TypeOK, funcVars, allocVars, Watch
<1>3. \A i \in 1 .. Len(mbox') : payload'[mbox'[i]] # NULL
  <2>1. CASE Len(mbox) < QueueLength
    BY <2>1, <1>1 DEF TypeOK, Local
  <2>2. CASE Len(mbox) >= QueueLength
    BY <2>2, <1>1 DEF TypeOK, Local
  <2> QED
    BY <2>1, <2>2, MempConstants DEF TypeOK
<1>4. Local'
  BY <1>1, <1>3 DEF TypeOK, Local, funcVars, allocVars, At, Goto, Task
<1> QED
  BY <1>2, <1>4

LEMMA FetchTyped ==
  ASSUME TypeOK, Local, Fetch PROVE TypeOK' /\ Local'
<1> USE DEF Fetch
<1>1. msg' \in Elem("msg") /\ mbox' \in Seq(Elem("msg")) /\ msg' = mbox[1]
      /\ payload[msg'] # NULL /\ payload[msg'] \in Word("pbuf")
  BY DEF TypeOK, Local
<1>2. \A i \in 1 .. Len(mbox') : i + 1 \in 1 .. Len(mbox) /\ mbox'[i] = mbox[i + 1]
  BY DEF TypeOK
<1>3. TypeOK'
  BY <1>1, Words DEF TypeOK, listVars, funcVars, allocVars, At, Goto, Watch, Pool, Task
<1>4. \A i \in 1 .. Len(mbox') : payload'[mbox'[i]] # NULL
  BY <1>2 DEF Local, listVars, TypeOK
<1>5. Local'
  BY <1>1, <1>4, Words DEF TypeOK, Local, listVars, funcVars, allocVars, At, Goto, Task, Pool
<1> QED
  BY <1>3, <1>5

LEMMA TypedStep == TypeOK /\ Local /\ [Next]_vars => TypeOK' /\ Local'
<1> SUFFICES ASSUME TypeOK, Local, [Next]_vars PROVE TypeOK' /\ Local'
  OBVIOUS
<1>1. CASE Stopped \/ UNCHANGED vars
  BY <1>1 DEF Stopped, TypeOK, Local, vars, listVars, funcVars, allocVars
<1> QED
  BY <1>1, MallocReadTyped, MallocNextTyped, MallocPopTyped, FreeReadTyped, FreeLinkTyped,
     FreePushTyped, UnlinkTyped, ReceiveTyped, ChainPbufTyped, AllocFailsTyped, PostMsgTyped,
     FetchTyped DEF Next, InputStep, TcpipStep, Free, Task

(* The type invariant holds, whether or not the tasks overlap.             *)
THEOREM TypeOKHolds == Spec => []TypeOK
<1>1. Init => TypeOK /\ Local
  BY InitTyped
<1>2. TypeOK /\ Local /\ [Next]_vars => TypeOK' /\ Local'
  BY TypedStep
<1> QED
  BY <1>1, <1>2, PTL DEF Spec
-----------------------------------------------------------------------------
LEMMA Tags ==
  ASSUME TypeOK, Local
  PROVE  /\ Hand("input") = INPUT /\ Hand("tcpip") = msg
         /\ INPUT \notin Elem("msg") /\ INPUT # FREE /\ FREE \notin Elem("msg") /\ INPUT # NULL
         /\ msg # INPUT /\ (pc["tcpip"] # "idle" => msg \in Elem("msg") /\ msg # FREE)
         /\ FREE = NULL /\ INPKT \notin Elem("pbuf") /\ INPKT \notin Elem("msg")
BY MempConstants DEF TypeOK, Local, Hand, INPUT, FREE, NULL, Elem, INPKT

LEMMA InitSound == Init => Sound
<1> SUFFICES ASSUME Init PROVE Sound
  OBVIOUS
<1>1. \A t \in Task : pc[t] = "idle"
  BY DEF Init
<1>2. mbox = <<>> /\ Len(mbox) = 0 /\ msg = NULL
  BY DEF Init
<1>3. Held
  <2>1. TabFree
    BY MempConstants DEF Init, TabFree, Pool, Elem, NULL, FREE
  <2>2. ChainHeld /\ LooseHeld /\ Boxed /\ LastLinked
    BY <1>1, <1>2 DEF ChainHeld, LooseHeld, Boxed, LastLinked, Task
  <2>3. Messages
    BY <1>2, MempConstants DEF Init, Messages, Pool, Elem, FREE, NULL
  <2> QED
    BY <2>1, <2>2, <2>3 DEF Held
<1>4. \A q \in Pool : \A e \in Elem(q) : who[q][e] = FREE /\ next[q][e] = e - 1 /\ e - 1 # INPKT
  BY MempConstants DEF Init, Elem, INPKT
<1>5. Closed /\ Unshared
  BY <1>4, <1>1 DEF Closed, Unshared, Elem, Loose, Pool
<1>6. HeadsFirst
  BY <1>4, <1>1, <1>2, MempConstants DEF Init, HeadsFirst, IsHead, Elem, Pool
<1>7. Loaded
  BY <1>1 DEF Loaded, Overlaps, Inside, Task
<1> QED
  BY <1>3, <1>5, <1>6, <1>7 DEF Sound

(* A step that changes no link, no owner and no holder. *)
LEMMA SameHolders ==
  ASSUME UNCHANGED <<tab, next, who, mbox, payload, p, msg, last>>,
         \A q \in Pool : \A e : Loose(q, e)' <=> Loose(q, e),
         \A t \in Task : pc'[t] # "idle" => pc[t] # "idle", Held
  PROVE  /\ Closed => Closed'
         /\ Unshared => Unshared'
         /\ HeadsFirst => HeadsFirst'
         /\ TabFree' /\ ChainHeld' /\ Boxed' /\ Messages'
<1>1. (Closed => Closed') /\ (Unshared => Unshared')
  BY DEF Closed, Unshared
<1>2. \A q, e : IsHead(q, e)' => IsHead(q, e)
  BY DEF IsHead
<1>3. HeadsFirst => HeadsFirst'
  BY <1>2 DEF HeadsFirst
<1>4. TabFree' /\ ChainHeld' /\ Boxed' /\ Messages'
  BY DEF Held, TabFree, ChainHeld, Boxed, Messages, Hand, Pool
<1> QED
  BY <1>1, <1>3, <1>4

LEMMA MallocReadSound == ASSUME TypeOK, Local, Sound, ~Overlaps', MallocRead PROVE Sound'
<1> USE DEF MallocRead, At, Goto, SetElem, listVars, allocVars
<1>1. \A q \in Pool : \A e : Loose(q, e)' <=> Loose(q, e)
  BY DEF Loose, TypeOK, Task
<1>2. \A t \in Task : pc'[t] # "idle" => pc[t] # "idle"
  BY DEF TypeOK, Task
<1>3. LooseHeld'
  BY DEF Sound, Held, LooseHeld, Hand, TypeOK, Task
<1>4. LastLinked'
  BY <1>1 DEF Sound, Held, LastLinked, TypeOK, Task, Pool
<1>5. Loaded'
  BY DEF Sound, Loaded, TypeOK, Task
<1> QED
  BY <1>1, <1>2, <1>3, <1>4, <1>5, SameHolders DEF Sound, Held

LEMMA MallocNextSound == ASSUME TypeOK, Local, Sound, ~Overlaps', MallocNext PROVE Sound'
<1> USE DEF MallocNext, At, Goto, listVars, allocVars
<1>1. \A q \in Pool : \A e : Loose(q, e)' <=> Loose(q, e)
  BY DEF Loose, TypeOK, Task
<1>2. \A t \in Task : pc'[t] # "idle" => pc[t] # "idle"
  BY DEF TypeOK, Task
<1>3. LooseHeld'
  BY DEF Sound, Held, LooseHeld, Hand, TypeOK, Task
<1>4. LastLinked'
  BY <1>1 DEF Sound, Held, LastLinked, TypeOK, Task, Pool
<1>5. Loaded'
  BY DEF Sound, Loaded, TypeOK, Task
<1> QED
  BY <1>1, <1>2, <1>3, <1>4, <1>5, SameHolders DEF Sound, Held

LEMMA FreeReadSound ==
  ASSUME NEW t \in Task, TypeOK, Local, Sound, ~Overlaps', FreeRead(t) PROVE Sound'
<1> USE DEF FreeRead, At, Goto, listVars, allocVars
<1>1. \A q \in Pool : \A e : Loose(q, e)' <=> Loose(q, e)
  BY DEF Loose, TypeOK
<1>2. \A u \in Task : pc'[u] # "idle" => pc[u] # "idle"
  BY DEF TypeOK
<1>3. LooseHeld'
  BY DEF Sound, Held, LooseHeld, Hand, TypeOK
<1>4. LastLinked'
  BY <1>1 DEF Sound, Held, LastLinked, TypeOK, Task, Pool
<1>5. Loaded'
  BY DEF Sound, Loaded, TypeOK, Task
<1> QED
  BY <1>1, <1>2, <1>3, <1>4, <1>5, SameHolders DEF Sound, Held

LEMMA AllocFailsSound == ASSUME TypeOK, Local, Sound, ~Overlaps', AllocFails PROVE Sound'
<1> USE DEF AllocFails, At, Goto, listVars, funcVars, allocVars
<1>1. \A q \in Pool : \A e : Loose(q, e)' <=> Loose(q, e)
  BY DEF Loose, TypeOK, Task
<1>2. \A t \in Task : pc'[t] # "idle" => pc[t] # "idle"
  BY DEF TypeOK, Task
<1>3. LooseHeld'
  BY DEF Sound, Held, LooseHeld, Hand, TypeOK, Task
<1>4. LastLinked'
  BY DEF LastLinked, TypeOK, Task
<1>5. Loaded'
  BY DEF Sound, Loaded, TypeOK, Task
<1> QED
  BY <1>1, <1>2, <1>3, <1>4, <1>5, SameHolders DEF Sound, Held

LEMMA MallocPopSound == ASSUME TypeOK, Local, Sound, ~Overlaps', MallocPop PROVE Sound'
<1> USE DEF MallocPop, At, Goto, Owner, funcVars, allocVars
<1> DEFINE r == pool["input"]
           a == elem["input"]
           b == next[r][a]
<1>1. r \in Pool /\ a \in Elem(r) /\ a = tab[r] /\ b = reg["input"] /\ b \in Word(r)
  BY DEF TypeOK, Local, Sound, Loaded, Task
<1>2. who[r][a] = FREE /\ ~Loose(r, a)
  BY <1>1, Tags, Words DEF Sound, Held, TabFree, LooseHeld, Loose, Local, TypeOK, Hand, Task
<1>3. /\ \A q \in Pool : tab'[q] = IF q = r THEN b ELSE tab[q]
      /\ \A q \in Pool : \A e : e \in Elem(q) =>
           who'[q][e] = IF q = r /\ e = a THEN INPUT ELSE who[q][e]
  BY <1>1 DEF TypeOK
<1>4. \A q \in Pool : \A e : Loose(q, e)' <=> Loose(q, e) \/ (q = r /\ e = a)
  BY DEF Loose, TypeOK, Task
<1>5. b # a /\ (b # NULL => b \in Elem(r) /\ who[r][b] = FREE /\ ~Loose(r, b))
  BY <1>1, <1>2, Words DEF Sound, Closed, HeadsFirst, IsHead, Word
<1>6. Closed'
  BY <1>1, <1>2, <1>3, <1>4, Tags DEF Sound, Closed, HeadsFirst, IsHead
<1>7. Unshared'
  BY <1>4 DEF Sound, Unshared
<1>8. HeadsFirst'
  <2>1. \A q \in Pool : \A e : IsHead(q, e)' => IsHead(q, e) \/ (q = r /\ e = b)
    BY <1>3, <1>1 DEF IsHead, TypeOK, Task
  <2> QED
    BY <2>1, <1>1, <1>2, <1>4, <1>5 DEF Sound, HeadsFirst, Unshared
<1>9. Held'
  <2>1. TabFree'
    BY <1>3, <1>5, <1>1 DEF Sound, Held, TabFree
  <2>2. \A t \in Task : p[t] # NULL => p[t] \in Elem("pbuf")
    BY DEF TypeOK, Word
  <2>3. ChainHeld'
    BY <1>2, <1>3, <1>4, <2>2, Tags DEF Sound, Held, ChainHeld, TypeOK, Task, Hand, Pool
  <2>4. LooseHeld'
    BY <1>1, <1>2, <1>3, Tags DEF Sound, Held, LooseHeld, TypeOK, Task, Hand, Loose, Local
  <2>5. Boxed'
    <3>1. \A i \in 1 .. Len(mbox) : mbox[i] \in Elem("msg") /\ payload[mbox[i]] \in Elem("pbuf")
      BY DEF TypeOK, Local, Word
    <3> QED
      BY <3>1, <1>2, <1>3, Tags DEF Sound, Held, Boxed, Pool
  <2>6. Messages'
    BY <1>2, <1>3, <1>4, Tags DEF Sound, Held, Messages, Pool, TypeOK
  <2>7. LastLinked'
    <3>1. last # NULL => last \in Elem("pbuf")
      BY DEF TypeOK, Word
    <3> QED
      BY <3>1, <1>2, <1>3, <1>4, Tags DEF Sound, Held, LastLinked, TypeOK, Task, Pool
  <2> QED
    BY <2>1, <2>3, <2>4, <2>5, <2>6, <2>7 DEF Held
<1>10. Loaded'
  BY <1>1, <1>3 DEF Sound, Loaded, TypeOK, Task, Overlaps, Inside
<1> QED
  BY <1>6, <1>7, <1>8, <1>9, <1>10 DEF Sound

LEMMA FreeLinkSound ==
  ASSUME NEW t \in Task, TypeOK, Local, Sound, ~Overlaps', FreeLink(t) PROVE Sound'
<1> USE DEF FreeLink, At, Goto, funcVars, allocVars
<1> DEFINE r == pool[t]
           a == elem[t]
<1>1. r \in Pool /\ a \in Elem(r) /\ Loose(r, a) /\ reg[t] = tab[r]
  BY DEF TypeOK, Local, Sound, Loaded, Loose
<1>2. \A q \in Pool : \A e : e \in Elem(q) =>
        next'[q][e] = IF q = r /\ e = a THEN reg[t] ELSE next[q][e]
  BY <1>1 DEF TypeOK
<1>3. \A q \in Pool : \A e : Loose(q, e)' <=> Loose(q, e)
  BY DEF Loose, TypeOK
<1>4. Closed'
  BY <1>1, <1>2, <1>3 DEF Sound, Closed
<1>5. Unshared'
  BY <1>1, <1>2, <1>3 DEF Sound, Unshared
<1>6. HeadsFirst'
  <2>1. \A q \in Pool : \A e : IsHead(q, e)' => IsHead(q, e)
    BY DEF IsHead, TypeOK
  <2> QED
    BY <2>1, <1>1, <1>2, <1>3 DEF Sound, HeadsFirst
<1>7. Held'
  <2>1. TabFree' /\ Boxed'
    BY DEF Sound, Held, TabFree, Boxed
  <2>2. ChainHeld'
    BY <1>3 DEF Sound, Held, ChainHeld, TypeOK, Hand, Pool
  <2>3. LooseHeld'
    BY DEF Sound, Held, LooseHeld, TypeOK, Hand
  <2>4. Messages'
    BY <1>1, <1>2, <1>3 DEF Sound, Held, Messages, Pool
  <2>5. LastLinked'
    <3>1. last # NULL => last \in Elem("pbuf")
      BY DEF TypeOK, Word
    <3> QED
      BY <3>1, <1>1, <1>2, <1>3 DEF Sound, Held, LastLinked, TypeOK, Task, Pool
  <2> QED
    BY <2>1, <2>2, <2>3, <2>4, <2>5 DEF Held
<1>8. Loaded'
  <2>1. \A u \in Task : pc[u] \in {"pop", "push"} => ~(pool[u] = r /\ elem[u] = a)
    BY <1>1 DEF Sound, Held, Loaded, Overlaps, Inside, Task
  <2>2. \A u \in Task : pc[u] \in {"pop", "push"} => elem[u] \in Elem(pool[u]) /\ pool[u] \in Pool
    BY DEF TypeOK, Local
  <2> QED
    BY <1>1, <1>2, <2>1, <2>2 DEF Sound, Loaded, TypeOK, Task
<1> QED
  BY <1>4, <1>5, <1>6, <1>7, <1>8 DEF Sound

LEMMA ReceiveSound == ASSUME TypeOK, Local, Sound, ~Overlaps', Receive PROVE Sound'
<1> USE DEF Receive, At, Goto, SetPool, listVars
<1>1. \A q \in Pool : \A e : Loose(q, e)' <=> Loose(q, e)
  BY DEF Loose, TypeOK, Task
<1>2. Closed' /\ Unshared'
  BY <1>1 DEF Sound, Closed, Unshared
<1>3. HeadsFirst'
  <2>1. \A q \in Pool : \A e \in Elem(q) : IsHead(q, e)' => IsHead(q, e)
    BY Words DEF IsHead, TypeOK, Task
  <2> QED
    BY <2>1, <1>1 DEF Sound, HeadsFirst
<1>4. Held'
  <2>1. TabFree' /\ Boxed' /\ LooseHeld'
    BY DEF Sound, Held, TabFree, Boxed, LooseHeld, TypeOK, Task, Hand
  <2>2. ChainHeld'
    BY <1>1 DEF Sound, Held, ChainHeld, TypeOK, Task, Hand, Pool
  <2>3. Messages' /\ LastLinked'
    BY <1>1 DEF Sound, Held, Messages, LastLinked, TypeOK, Task, Pool
  <2> QED
    BY <2>1, <2>2, <2>3 DEF Held
<1>5. Loaded'
  BY DEF Sound, Loaded, TypeOK, Task
<1> QED
  BY <1>2, <1>3, <1>4, <1>5 DEF Sound

LEMMA UnlinkSound ==
  ASSUME NEW t \in Task, TypeOK, Local, Sound, ~Overlaps', Unlink(t) PROVE Sound'
<1> USE DEF Unlink, At, Goto, SetElem, SetPool, listVars, allocVars
<1> DEFINE h == p[t]
           n == next["pbuf"][h]
<1>1. h \in Elem("pbuf") /\ h # NULL /\ n \in Word("pbuf") /\ "pbuf" \in Pool
  BY DEF TypeOK, Local, Word, Pool
<1>2. who["pbuf"][h] = Hand(t) /\ ~Loose("pbuf", h) /\ IsHead("pbuf", h)
  BY <1>1 DEF Sound, Held, ChainHeld, IsHead
<1>3. \A q \in Pool : \A e : Loose(q, e)' <=> Loose(q, e) \/ (q = "pbuf" /\ e = h)
  BY <1>1 DEF Loose, TypeOK
<1>4. n # NULL => n \in Elem("pbuf") /\ who["pbuf"][n] = Hand(t) /\ ~Loose("pbuf", n)
                 /\ n # h /\ ~IsHead("pbuf", n)
  BY <1>1, <1>2, Tags DEF Sound, Closed, HeadsFirst, Word
<1>5. \A u \in Task : u # t => Hand(u) # Hand(t)
  BY Tags DEF Task
<1>6. Closed'
  BY <1>1, <1>2, <1>3 DEF Sound, Closed, HeadsFirst
<1>7. Unshared'
  BY <1>3 DEF Sound, Unshared
<1>8. HeadsFirst'
  <2>1. \A q \in Pool : \A e : IsHead(q, e)' => IsHead(q, e) \/ (q = "pbuf" /\ e = n)
    BY DEF IsHead, TypeOK
  <2> QED
    BY <2>1, <1>1, <1>2, <1>3, <1>4 DEF Sound, HeadsFirst, Unshared
<1>9. Held'
  <2>1. TabFree' /\ Boxed'
    BY DEF Sound, Held, TabFree, Boxed
  <2>2. ChainHeld'
    BY <1>1, <1>2, <1>3, <1>4, <1>5 DEF Sound, Held, ChainHeld, TypeOK, Hand
  <2>3. LooseHeld'
    BY <1>2 DEF Sound, Held, LooseHeld, TypeOK, Hand
  <2>4. Messages'
    BY <1>3 DEF Sound, Held, Messages, Pool
  <2>5. LastLinked'
    BY <1>1, <1>2, <1>3, Tags DEF Sound, Held, LastLinked, TypeOK, Task, Pool
  <2> QED
    BY <2>1, <2>2, <2>3, <2>4, <2>5 DEF Held
<1>10. Loaded'
  BY DEF Sound, Loaded, TypeOK, Task
<1> QED
  BY <1>6, <1>7, <1>8, <1>9, <1>10 DEF Sound

LEMMA ChainPbufSound == ASSUME TypeOK, Local, Sound, ~Overlaps', ChainPbuf PROVE Sound'
<1> USE DEF ChainPbuf, At, Goto, SetPool
<1> DEFINE c == elem["input"]
           N == next["pbuf"]
<1>1. c \in Elem("pbuf") /\ Loose("pbuf", c) /\ who["pbuf"][c] = INPUT /\ "pbuf" \in Pool
      /\ c # NULL
  BY Tags, Words DEF TypeOK, Local, Sound, Held, LooseHeld, Loose, Task, Pool
<1>2. last # c /\ (last # NULL => last \in Elem("pbuf") /\ ~Loose("pbuf", last)
                                 /\ who["pbuf"][last] = INPUT /\ N[last] = NULL)
  BY <1>1 DEF Sound, Held, LastLinked, TypeOK, Word
<1>3. \A q \in Pool : \A e : e \in Elem(q) =>
        next'[q][e] = IF q = "pbuf" /\ e = c THEN NULL
                      ELSE IF q = "pbuf" /\ e = last THEN c ELSE next[q][e]
  BY <1>1 DEF TypeOK
<1>4. \A q \in Pool : \A e : Loose(q, e)' <=> Loose(q, e) /\ ~(q = "pbuf" /\ e = c)
  <2>1. pc["tcpip"] \in {"free", "link", "push"} /\ pool["tcpip"] = "pbuf" => elem["tcpip"] # c
    BY <1>1, Tags DEF Sound, Held, LooseHeld, Task
  <2>2. pc["tcpip"] # "got"
    BY DEF Local
  <2> QED
    BY <2>1, <2>2 DEF Loose, TypeOK, Task
<1>5. p'["input"] = IF p["input"] = NULL THEN c ELSE p["input"]
  BY DEF TypeOK, Task
<1>6. ~IsHead("pbuf", c)
  <2>1. c # tab["pbuf"]
    BY <1>1, Tags DEF Sound, Held, TabFree
  <2>2. \A t \in Task : pc[t] # "idle" => c # p[t]
    BY <1>1 DEF Sound, Held, ChainHeld
  <2>3. \A i \in 1 .. Len(mbox) : c # payload[mbox[i]]
    BY <1>1, Tags DEF Sound, Held, Boxed, TypeOK
  <2> QED
    BY <2>1, <2>2, <2>3 DEF IsHead
<1>7. Closed'
  BY <1>1, <1>2, <1>3, <1>4, Words, Tags, SMTT(30) DEF Sound, Closed
<1>8. Unshared'
  <2> SUFFICES ASSUME NEW q \in Pool, NEW e \in Elem(q), NEW f \in Elem(q),
                      ~Loose(q, e)', ~Loose(q, f)', next'[q][e] = next'[q][f],
                      next'[q][e] \in Elem(q)
               PROVE  e = f
    BY DEF Unshared
  <2>1. \A g \in Elem(q) : ~Loose(q, g) /\ next[q][g] \in Elem(q) => ~Loose(q, next[q][g])
    BY DEF Sound, Closed
  <2>2. CASE q = "pbuf" /\ next'[q][e] = c
    BY <2>2, <2>1, <1>1, <1>2, <1>3, <1>4, Words
  <2>3. CASE ~(q = "pbuf" /\ next'[q][e] = c)
    BY <2>3, <1>1, <1>3, <1>4, Words DEF Sound, Unshared
  <2> QED
    BY <2>2, <2>3
<1>9. HeadsFirst'
  <2>1. \A q \in Pool : \A e : IsHead(q, e)' =>
          IsHead(q, e) \/ (q = "pbuf" /\ e = c /\ p["input"] = NULL)
    BY <1>5 DEF IsHead, TypeOK, Task
  <2>2. p["input"] = NULL => last = NULL
    BY DEF Sound, Held, LastLinked
  <2> QED
    BY <2>1, <2>2, <1>1, <1>2, <1>3, <1>4, <1>6, Words DEF Sound, HeadsFirst, Closed
<1>10. Held'
  <2>1. TabFree' /\ Boxed'
    BY DEF Sound, Held, TabFree, Boxed
  <2>2. ChainHeld'
    BY <1>1, <1>4, <1>5, Tags DEF Sound, Held, ChainHeld, TypeOK, Task, Hand
  <2>3. LooseHeld'
    BY DEF Sound, Held, LooseHeld, TypeOK, Hand, Task
  <2>4. Messages'
    BY <1>3, <1>4 DEF Sound, Held, Messages, Pool
  <2>5. LastLinked'
    BY <1>1, <1>3, <1>4, <1>5 DEF Sound, LastLinked, TypeOK, Task
  <2> QED
    BY <2>1, <2>2, <2>3, <2>4, <2>5 DEF Held
<1>11. Loaded'
  <2>1. \A t \in Task : pc'[t] = "push" => t = "tcpip" /\ pc[t] = "push"
    BY DEF TypeOK, Task
  <2>2. pc["tcpip"] = "push" => ~(pool["tcpip"] = "pbuf" /\ elem["tcpip"] \in {c, last})
                            /\ elem["tcpip"] \in Elem(pool["tcpip"])
    <3>1. pc["tcpip"] = "push" => elem["tcpip"] \in Elem(pool["tcpip"]) /\ elem["tcpip"] # NULL
                              /\ pool["tcpip"] \in Pool
      BY Words DEF Local, Task, TypeOK
    <3>2. pc["tcpip"] = "push" => who[pool["tcpip"]][elem["tcpip"]] = msg
      BY Tags DEF Sound, Held, LooseHeld, Task
    <3> QED
      BY <3>1, <3>2, <1>1, <1>2, Tags
  <2> QED
    BY <2>1, <2>2, <1>3 DEF Sound, Loaded, TypeOK, Task
<1> QED
  BY <1>7, <1>8, <1>9, <1>10, <1>11 DEF Sound

LEMMA FetchSound == ASSUME TypeOK, Local, Sound, ~Overlaps', Fetch PROVE Sound'
<1> USE DEF Fetch, At, Goto, listVars, funcVars, allocVars
<1>1. msg' = mbox[1] /\ msg' \in Elem("msg") /\ mbox[1] \in Elem("msg") /\ 1 \in 1 .. Len(mbox)
  BY DEF TypeOK
<1>2. \A i \in 1 .. Len(mbox') : i + 1 \in 1 .. Len(mbox) /\ mbox'[i] = mbox[i + 1] /\ i + 1 # 1
  BY DEF TypeOK
<1>3. \A q \in Pool : \A e : Loose(q, e)' <=> Loose(q, e)
  BY DEF Loose, TypeOK, Task
<1>4. Closed' /\ Unshared'
  BY <1>3 DEF Sound, Closed, Unshared
<1>5. p'["tcpip"] = payload[mbox[1]] /\ p'["input"] = p["input"]
  BY <1>1 DEF TypeOK, Task
<1>6. HeadsFirst'
  <2>1. \A q \in Pool : \A e : IsHead(q, e)' => IsHead(q, e)
    BY <1>1, <1>2, <1>5 DEF IsHead, TypeOK, Task
  <2> QED
    BY <2>1, <1>3 DEF Sound, HeadsFirst
<1>7. Held'
  <2>1. TabFree'
    BY DEF Sound, Held, TabFree
  <2>2. Boxed'
    BY <1>1, <1>2 DEF Sound, Held, Boxed
  <2>3. ChainHeld'
    <3>1. who["pbuf"][payload[mbox[1]]] = msg'
      BY <1>1 DEF Sound, Held, Boxed
    <3>2. ~Loose("pbuf", payload[mbox[1]])
      BY <3>1, <1>1, Tags DEF Sound, Held, LooseHeld, Loose, Task
    <3> QED
      BY <3>1, <3>2, <1>3, <1>5 DEF Sound, Held, ChainHeld, TypeOK, Task, Hand, Pool
  <2>4. LooseHeld'
    BY DEF Sound, Held, LooseHeld, TypeOK, Hand, Task
  <2>5. Messages'
    BY <1>1, <1>3 DEF Sound, Held, Messages, Boxed, Pool
  <2>6. LastLinked'
    BY <1>3, <1>5 DEF Sound, Held, LastLinked, TypeOK, Task, Pool
  <2> QED
    BY <2>1, <2>2, <2>3, <2>4, <2>5, <2>6 DEF Held
<1>8. Loaded'
  BY DEF Sound, Loaded, TypeOK, Task
<1> QED
  BY <1>4, <1>6, <1>7, <1>8 DEF Sound

LEMMA FreePushSound ==
  ASSUME NEW t \in Task, TypeOK, Local, Sound, ~Overlaps', FreePush(t) PROVE Sound'
<1> USE DEF FreePush, At, Owner, allocVars
<1> DEFINE r == pool[t]
           a == elem[t]
           more == t = "tcpip" /\ p[t] = NULL /\ r = "pbuf"
<1>1. /\ r \in Pool /\ a \in Elem(r) /\ a # NULL /\ Loose(r, a) /\ who[r][a] = Hand(t)
      /\ reg[t] = tab[r] /\ next[r][a] = tab[r] /\ Hand(t) # FREE /\ pc[t] # "idle"
  BY Tags, Words DEF TypeOK, Local, Sound, Held, LooseHeld, Loaded, Loose, Task
<1>2. /\ \A q \in Pool : tab'[q] = IF q = r THEN a ELSE tab[q]
      /\ \A q \in Pool : \A e : e \in Elem(q) =>
           who'[q][e] = IF q = r /\ e = a THEN FREE ELSE who[q][e]
  BY <1>1 DEF TypeOK
<1>3. \A u \in Task : u # t => Hand(u) # Hand(t) /\ pc'[u] = pc[u] /\ pool'[u] = pool[u]
                                /\ elem'[u] = elem[u]
  BY Tags DEF Task, TypeOK, Goto, SetPool, SetElem
<1>4. \A u \in Task : u # t /\ pc[u] \in {"got", "free", "link", "push"} =>
                   ~(pool[u] = r /\ elem[u] = a)
  BY <1>1, <1>3 DEF Sound, Held, LooseHeld
<1>5. more => /\ r = "pbuf" /\ msg \in Elem("msg") /\ who["msg"][msg] = msg /\ msg # NULL
              /\ ~Loose("msg", msg) /\ next["msg"][msg] = INPKT
  <2> SUFFICES ASSUME more PROVE /\ msg \in Elem("msg") /\ who["msg"][msg] = msg /\ msg # NULL
                                 /\ ~Loose("msg", msg) /\ next["msg"][msg] = INPKT
    OBVIOUS
  <2>1. msg \in Elem("msg") /\ who["msg"][msg] = msg /\ msg # NULL
    BY <1>1, Tags, Words DEF Sound, Held, Messages, Local
  <2>2. ~Loose("msg", msg)
    BY <2>1, Tags DEF Sound, Held, LooseHeld, Loose, Task
  <2> QED
    BY <2>1, <2>2 DEF Sound, Held, Messages
<1>6. \A f \in Elem("msg") : more /\ ~Loose("msg", f) => next["msg"][f] # msg
  <2> SUFFICES ASSUME NEW f \in Elem("msg"), more, ~Loose("msg", f), next["msg"][f] = msg
               PROVE  FALSE
    OBVIOUS
  <2>1. who["msg"][f] = msg
    BY <1>5 DEF Sound, Closed, Pool
  <2>2. f = msg
    BY <2>1, <1>5, Tags DEF Sound, Held, Messages
  <2> QED
    BY <2>2, <1>5, Tags
<1>7. \A q \in Pool : \A e : Loose(q, e)' <=>
        (Loose(q, e) /\ ~(q = r /\ e = a)) \/ (more /\ q = "msg" /\ e = msg)
  <2>1. pc'[t] \in {"got", "free", "link", "push"} <=> more
    BY DEF TypeOK, Goto
  <2>2. more => pool'[t] = "msg" /\ elem'[t] = msg
    BY DEF TypeOK, SetPool, SetElem
  <2> QED
    BY <2>1, <2>2, <1>1, <1>3, <1>4, <1>5 DEF Loose
<1>8. tab[r] # NULL => tab[r] \in Elem(r) /\ who[r][tab[r]] = FREE /\ tab[r] # a /\ ~Loose(r, tab[r])
  BY <1>1, Tags DEF Sound, Held, TabFree, LooseHeld, Loose, Task
<1>9. Closed'
  <2> SUFFICES ASSUME NEW q \in Pool, NEW e \in Elem(q), ~Loose(q, e)'
               PROVE  /\ who'[q][e] = FREE => next[q][e] # INPKT
                      /\ next[q][e] \in Elem(q) => who'[q][next[q][e]] = who'[q][e]
                                                  /\ ~Loose(q, next[q][e])'
    BY DEF Closed
  <2>1. CASE q = r /\ e = a
    BY <2>1, <1>1, <1>2, <1>5, <1>7, <1>8, Words DEF Word, NULL, INPKT, TypeOK
  <2>2. CASE ~(q = r /\ e = a)
    BY <2>2, <1>1, <1>2, <1>6, <1>7 DEF Sound, Closed
  <2> QED
    BY <2>1, <2>2
<1>10. Unshared'
  <2>1. \A e \in Elem(r) : ~Loose(r, e) /\ next[r][e] \in Elem(r) => next[r][e] # tab[r]
    BY <1>1 DEF Sound, HeadsFirst, IsHead
  <2> QED
    BY <2>1, <1>1, <1>7 DEF Sound, Unshared
<1>11. HeadsFirst'
  <2>1. \A q \in Pool : \A e : IsHead(q, e)' => IsHead(q, e) \/ (q = r /\ e = a)
    BY <1>1, <1>2, <1>3 DEF IsHead, TypeOK
  <2>2. \A e \in Elem(r) : ~Loose(r, e) /\ next[r][e] \in Elem(r) => next[r][e] # a
    BY <1>1 DEF Sound, Closed
  <2>3. ASSUME NEW q \in Pool, NEW x, q = r, x = tab[r], x # NULL PROVE ~IsHead(q, x)'
    <3>1. tab'[q] # x /\ who[q][x] = FREE
      BY <2>3, <1>1, <1>2, <1>8
    <3>2. \A u \in Task : pc'[u] # "idle" => pc[u] # "idle" /\ p'[u] = p[u]
      BY <1>1, <1>3
    <3>3. \A u \in Task : pc'[u] # "idle" /\ q = "pbuf" => x # p'[u]
      BY <2>3, <3>1, <3>2, Tags DEF Sound, Held, ChainHeld, Task
    <3>4. \A i \in 1 .. Len(mbox) : q = "pbuf" => x # payload[mbox[i]]
      BY <3>1, Tags DEF Sound, Held, Boxed, TypeOK
    <3> QED
      BY <3>1, <3>3, <3>4 DEF IsHead
  <2> SUFFICES ASSUME NEW q \in Pool, NEW e \in Elem(q), ~Loose(q, e)', NEW x, x = next[q][e],
                      x \in Elem(q)
               PROVE  ~IsHead(q, x)'
    BY DEF HeadsFirst
  <2>4. CASE q = r /\ e = a
    BY <2>3, <2>4, <1>1, Words
  <2>5. CASE ~(q = r /\ e = a)
    BY <2>1, <2>2, <2>5, <1>7 DEF Sound, HeadsFirst
  <2> QED
    BY <2>4, <2>5
<1>12. Held'
  <2>1. TabFree'
    BY <1>1, <1>2 DEF Sound, Held, TabFree
  <2>2. \A u \in Task : pc'[u] # "idle" => Hand(u)' = Hand(u) /\ pc[u] # "idle"
    BY <1>1, <1>3, Tags DEF Hand, Task, Goto, TypeOK
  <2>3. ChainHeld'
    <3>1. \A u \in Task : p[u] # NULL => p[u] \in Elem("pbuf")
      BY DEF TypeOK, Word
    <3>2. \A u \in Task : p[u] # NULL /\ pc[u] # "idle" => ~(r = "pbuf" /\ p[u] = a)
      BY <1>1 DEF Sound, Held, ChainHeld
    <3> QED
      BY <2>2, <3>1, <3>2, <1>2, <1>7 DEF Sound, Held, ChainHeld, Pool
  <2>4. LooseHeld'
    <3> SUFFICES ASSUME NEW u \in Task, pc'[u] \in {"got", "free", "link", "push"}
                 PROVE  who'[pool'[u]][elem'[u]] = Hand(u)'
      BY DEF LooseHeld
    <3>1. CASE u = t
      <4>1. more /\ pool'[t] = "msg" /\ elem'[t] = msg
        BY <3>1 DEF TypeOK, Goto, SetPool, SetElem
      <4> QED
        BY <4>1, <3>1, <2>2, <1>2, <1>5, Tags DEF Pool
    <3>2. CASE u # t
      <4>1. pool[u] \in Pool /\ elem[u] \in Elem(pool[u])
        BY <3>2, <1>3 DEF TypeOK, Local
      <4> QED
        BY <4>1, <3>2, <2>2, <1>2, <1>3, <1>4 DEF Sound, Held, LooseHeld
    <3> QED
      BY <3>1, <3>2
  <2>5. \A i \in 1 .. Len(mbox) : mbox[i] \in Elem("msg") /\ payload[mbox[i]] \in Elem("pbuf")
    BY DEF TypeOK, Local, Word
  <2>6. \A i \in 1 .. Len(mbox) : Hand(t) # mbox[i]
    BY <2>5, Tags DEF Sound, Held, Boxed, Task
  <2>7. msg' = msg \/ msg' = NULL
    OBVIOUS
  <2>8. Boxed'
    BY <1>1, <1>2, <2>5, <2>6, <2>7, Words DEF Sound, Held, Boxed, Pool
  <2>9. Messages'
    <3>1. msg' # NULL => msg' = msg /\ ~(r = "msg" /\ a = msg)
      <4>1. t = "input" => Hand(t) # msg
        BY Tags
      <4>2. t = "tcpip" /\ msg' # NULL => r = "pbuf"
        <5>1. t = "tcpip" => p[t] = NULL \/ r = "pbuf"
          BY DEF Local, Task, TypeOK, Pool
        <5> QED
          BY <5>1
      <4> QED
        BY <4>1, <4>2, <2>7, <1>1, Words DEF Sound, Held, Messages, Task
    <3>2. \A m \in Elem("msg") : who'["msg"][m] \in {FREE, INPUT, m}
      BY <1>2 DEF Sound, Held, Messages, Pool
    <3>3. \A m \in Elem("msg") : who'["msg"][m] = m /\ ~Loose("msg", m)' => next["msg"][m] = INPKT
      BY <1>2, <1>7, Tags DEF Sound, Held, Messages, Pool
    <3>4. msg' # NULL => who'["msg"][msg'] = msg'
      BY <3>1, <1>2 DEF Sound, Held, Messages, Pool, TypeOK
    <3> QED
      BY <3>2, <3>3, <3>4 DEF Messages
  <2>10. LastLinked'
    <3>1. CASE t = "input"
      BY <3>1 DEF LastLinked, Goto, TypeOK
    <3>2. CASE t = "tcpip"
      <4>1. pc'["input"] = pc["input"] /\ pool'["input"] = pool["input"]
        BY <3>2, <1>3 DEF Task
      <4>2. last # NULL => last \in Elem("pbuf") /\ (who["pbuf"][last] = INPUT => ~(r = "pbuf" /\ last = a))
        BY <3>2, <1>1, Tags DEF TypeOK, Word
      <4>3. "pbuf" \in Pool
        BY DEF Pool
      <4> QED
        BY <4>1, <4>2, <4>3, <1>2, <1>7 DEF Sound, Held, LastLinked
    <3> QED
      BY <3>1, <3>2 DEF Task
  <2> QED
    BY <2>1, <2>3, <2>4, <2>8, <2>9, <2>10 DEF Held
<1>13. Loaded'
  BY <1>1, <1>2, <1>3 DEF Sound, Loaded, Overlaps, Inside, TypeOK, Task, Goto
<1> QED
  BY <1>9, <1>10, <1>11, <1>12, <1>13 DEF Sound

LEMMA PostMsgSound == ASSUME TypeOK, Local, Sound, ~Overlaps', PostMsg PROVE Sound'
<1> USE DEF PostMsg, At, Goto, funcVars, allocVars
<1> DEFINE m == elem["input"]
           h == p["input"]
<1>1. /\ m \in Elem("msg") /\ Loose("msg", m) /\ who["msg"][m] = INPUT /\ "msg" \in Pool
      /\ "pbuf" \in Pool /\ h # NULL /\ h \in Elem("pbuf") /\ who["pbuf"][h] = INPUT
      /\ m # INPUT /\ m # FREE
  BY Tags DEF TypeOK, Local, Sound, Held, LooseHeld, ChainHeld, Loose, Task, Pool, Word
<1>2. /\ \A q \in Pool : \A e : e \in Elem(q) =>
           next'[q][e] = IF q = "msg" /\ e = m THEN INPKT ELSE next[q][e]
      /\ \A k \in Elem("msg") : payload'[k] = IF k = m THEN h ELSE payload[k]
  BY <1>1 DEF TypeOK
<1>3. pc["tcpip"] \in {"free", "link", "push"} => ~(pool["tcpip"] = "msg" /\ elem["tcpip"] = m)
  BY <1>1, Tags DEF Sound, Held, LooseHeld, Task
<1>4. m # msg /\ \A i \in 1 .. Len(mbox) : mbox[i] # m /\ mbox[i] # INPUT /\ mbox[i] \in Elem("msg")
  <2>1. m # NULL
    BY <1>1, Words
  <2>2. m # msg
    BY <2>1, <1>1 DEF Sound, Held, Messages
  <2>3. \A i \in 1 .. Len(mbox) : mbox[i] \in Elem("msg") /\ who["msg"][mbox[i]] = mbox[i]
    BY DEF TypeOK, Sound, Held, Boxed
  <2> QED
    BY <2>2, <2>3, <1>1, Tags
<1>5. pc'["tcpip"] = pc["tcpip"] /\ pc["input"] = "got" /\ pool["input"] = "msg" /\ pc["tcpip"] # "got"
  BY DEF TypeOK, Task, Local
<1>6. CASE Len(mbox) >= QueueLength
  <2>1. mbox' = mbox /\ who' = who /\ pc'["input"] = "free"
    BY <1>6, MempConstants DEF TypeOK, Task
  <2>2. \A q \in Pool : \A e : Loose(q, e)' <=> Loose(q, e)
    BY <2>1, <1>5 DEF Loose, Task
  <2>3. Closed' /\ Unshared'
    BY <2>1, <2>2, <1>1, <1>2 DEF Sound, Closed, Unshared
  <2>4. HeadsFirst'
    <3>1. \A q \in Pool : \A e : IsHead(q, e)' => IsHead(q, e)
      BY <2>1, <1>2, <1>4, <1>5 DEF IsHead, Task
    <3> QED
      BY <3>1, <2>2, <1>1, <1>2 DEF Sound, HeadsFirst
  <2>5. Held'
    <3>1. TabFree' /\ Boxed'
      BY <2>1, <1>2, <1>4 DEF Sound, Held, TabFree, Boxed
    <3>2. ChainHeld' /\ LooseHeld'
      BY <2>1, <2>2, <1>1, <1>5 DEF Sound, Held, ChainHeld, LooseHeld, Task, Hand
    <3>3. Messages'
      BY <2>1, <2>2, <1>1, <1>2 DEF Sound, Held, Messages
    <3>4. LastLinked'
      BY <2>1 DEF LastLinked
    <3> QED
      BY <3>1, <3>2, <3>3, <3>4 DEF Held
  <2>6. Loaded'
    BY <2>1, <1>2, <1>3, <1>5, <1>1 DEF Sound, Loaded, Task, TypeOK, Local
  <2> QED
    BY <2>3, <2>4, <2>5, <2>6 DEF Sound
<1>7. CASE Len(mbox) < QueueLength
  <2>1. mbox' = Append(mbox, m) /\ pc'["input"] = "idle"
    BY <1>7, MempConstants DEF TypeOK, Task
  <2>2. /\ \A i \in 1 .. Len(mbox') : mbox'[i] = IF i = Len(mbox) + 1 THEN m ELSE mbox[i]
        /\ Len(mbox') = Len(mbox) + 1 /\ Len(mbox) \in Nat
    BY <2>1, <1>1 DEF TypeOK
  <2>3. /\ \A e \in Elem("msg") : who'["msg"][e] = IF e = m THEN m ELSE who["msg"][e]
        /\ \A e \in Elem("pbuf") : who'["pbuf"][e] =
             IF who["pbuf"][e] = INPUT THEN m ELSE who["pbuf"][e]
    <3>1. who' = [who EXCEPT !["msg"][m] = m, !["pbuf"] =
             [e \in Elem("pbuf") |-> IF @[e] = INPUT THEN m ELSE @[e]]]
      BY <1>7, MempConstants DEF TypeOK
    <3>2. DOMAIN who = {"pbuf", "msg"}
      BY DEF TypeOK, Pool
    <3>3. /\ who'["msg"] = [who["msg"] EXCEPT ![m] = m]
          /\ who'["pbuf"] = [e \in Elem("pbuf") |->
                              IF who["pbuf"][e] = INPUT THEN m ELSE who["pbuf"][e]]
      BY <3>1, <3>2
    <3>4. \A e \in Elem("msg") : who'["msg"][e] = IF e = m THEN m ELSE who["msg"][e]
      BY <3>3, <1>1 DEF TypeOK
    <3> QED
      BY <3>3, <3>4
  <2>4. \A q \in Pool : \A e : Loose(q, e)' <=> Loose(q, e) /\ ~(q = "msg" /\ e = m)
    BY <2>1, <1>3, <1>5 DEF Loose, Task
  <2>5. Closed'
    <3> SUFFICES ASSUME NEW q \in Pool, NEW e \in Elem(q), ~Loose(q, e)', NEW x, x = next'[q][e]
                 PROVE  /\ who'[q][e] = FREE => x # INPKT
                        /\ x \in Elem(q) => who'[q][x] = who'[q][e] /\ ~Loose(q, x)'
      BY DEF Closed
    <3>1. CASE q = "msg" /\ e = m
      BY <3>1, <1>1, <1>2, <2>3, Words
    <3>2. CASE q = "msg" /\ e # m
      <4>1. x = next[q][e] /\ ~Loose(q, e) /\ who'[q][e] = who[q][e]
        BY <3>2, <1>2, <2>3, <2>4
      <4>2. x \in Elem(q) => x # m /\ who[q][x] = who[q][e] /\ ~Loose(q, x)
        BY <4>1, <3>2, <1>1 DEF Sound, Closed
      <4> QED
        BY <4>1, <4>2, <3>2, <2>3, <2>4 DEF Sound, Closed
    <3>3. CASE q = "pbuf"
      <4>1. x = next[q][e] /\ ~Loose(q, e)
        BY <3>3, <1>2, <2>4
      <4>2. /\ who[q][e] = FREE => x # INPKT
            /\ x \in Elem(q) => who[q][x] = who[q][e] /\ ~Loose(q, x)
        BY <4>1 DEF Sound, Closed
      <4> QED
        BY <4>2, <3>3, <1>1, <2>3, <2>4
    <3> QED
      BY <3>1, <3>2, <3>3 DEF Pool
  <2>6. Unshared'
    BY <1>1, <1>2, <2>4, Words DEF Sound, Unshared
  <2>7. HeadsFirst'
    <3>1. \A q \in Pool : \A e : IsHead(q, e)' => IsHead(q, e)
      <4>1. \A i \in 1 .. Len(mbox') : payload'[mbox'[i]] = h \/
              (i \in 1 .. Len(mbox) /\ payload'[mbox'[i]] = payload[mbox[i]])
        BY <2>2, <1>1, <1>2, <1>4
      <4> QED
        BY <4>1, <2>1, <1>5 DEF IsHead, Task
    <3> QED
      BY <3>1, <2>4, <1>1, <1>2, Words DEF Sound, HeadsFirst
  <2>8. Held'
    <3>1. TabFree'
      BY <1>1, <2>3, Tags DEF Sound, Held, TabFree, Pool
    <3>2. ChainHeld'
      <4>1. pc["tcpip"] # "idle" /\ p["tcpip"] # NULL =>
              p["tcpip"] \in Elem("pbuf") /\ who["pbuf"][p["tcpip"]] # INPUT
        BY Tags DEF Sound, Held, ChainHeld, TypeOK, Task, Word
      <4> QED
        BY <4>1, <2>1, <2>3, <2>4, <1>1, <1>5 DEF Sound, Held, ChainHeld, Task, Hand
    <3>3. LooseHeld'
      <4>1. pc["tcpip"] \in {"free", "link", "push"} =>
              /\ pool["tcpip"] \in Pool /\ elem["tcpip"] \in Elem(pool["tcpip"])
              /\ who[pool["tcpip"]][elem["tcpip"]] = msg
        BY Tags DEF Sound, Held, LooseHeld, TypeOK, Local, Task
      <4> QED
        BY <4>1, <2>1, <2>3, <1>3, <1>5, Tags DEF LooseHeld, Task, Hand, Pool
    <3>4. Boxed'
      <4>1. \A i \in 1 .. Len(mbox) : payload[mbox[i]] \in Elem("pbuf")
        BY DEF TypeOK, Local, Word
      <4>2. \A i \in 1 .. Len(mbox') :
              /\ who'["msg"][mbox'[i]] = mbox'[i] /\ mbox'[i] # msg
              /\ who'["pbuf"][payload'[mbox'[i]]] = mbox'[i]
        <5> TAKE i \in 1 .. Len(mbox')
        <5>1. CASE i = Len(mbox) + 1
          BY <5>1, <2>2, <2>3, <1>1, <1>2, <1>4
        <5>2. CASE i # Len(mbox) + 1
          <6>1. i \in 1 .. Len(mbox)
            BY <5>2, <2>2
          <6> QED
            BY <6>1, <5>2, <4>1, <2>2, <2>3, <1>2, <1>4 DEF Sound, Held, Boxed
        <5> QED
          BY <5>1, <5>2
      <4>3. \A i, j \in 1 .. Len(mbox') : mbox'[i] = mbox'[j] => i = j
        BY <2>2, <1>4 DEF Sound, Held, Boxed
      <4> QED
        BY <4>2, <4>3 DEF Boxed
    <3>5. Messages'
      BY <1>1, <1>2, <1>4, <2>3, <2>4 DEF Sound, Held, Messages, TypeOK
    <3>6. LastLinked'
      BY <2>1 DEF LastLinked
    <3> QED
      BY <3>1, <3>2, <3>3, <3>4, <3>5, <3>6 DEF Held
  <2>9. Loaded'
    BY <2>1, <1>2, <1>3, <1>5, <1>1 DEF Sound, Loaded, Task, TypeOK, Local
  <2> QED
    BY <2>5, <2>6, <2>7, <2>8, <2>9 DEF Sound
<1> QED
  BY <1>6, <1>7, MempConstants DEF TypeOK

-----------------------------------------------------------------------------
(***************************************************************************)
(* Nothing drops out of a list. Every element in its place is the head of  *)
(* a list, or a message on its way, or the next of another element; and    *)
(* links do not go round, for the elements can be ranked along them.       *)
(***************************************************************************)
Posted(q, e) == q = "msg" /\ (e = msg \/ \E i \in 1 .. Len(mbox) : e = mbox[i])
Linked(q, e) == \E f \in Elem(q) : ~Loose(q, f) /\ next[q][f] = e
Covered == \A q \in Pool : \A e \in Elem(q) :
  ~Loose(q, e) => IsHead(q, e) \/ Posted(q, e) \/ Linked(q, e)
Ranked(q, r) == \A e \in Elem(q) :
  ~Loose(q, e) /\ next[q][e] \in Elem(q) => r[e] < r[next[q][e]]
Acyclic == \A q \in Pool : \E r \in [Elem(q) -> Nat] : Ranked(q, r)
Whole == Covered /\ Acyclic

LEMMA InitWhole == Init => Whole
<1> SUFFICES ASSUME Init PROVE Whole
  OBVIOUS
<1>1. \A q \in Pool : \A e : ~Loose(q, e)
  BY DEF Init, Loose, Task
<1>2. ASSUME NEW q \in Pool
      PROVE  \E n \in Nat : Elem(q) = 1 .. n /\ tab[q] = n /\ next[q] = [e \in 1 .. n |-> e - 1]
  BY MempConstants DEF Init, Elem, Pool
<1>3. Covered
  <2> SUFFICES ASSUME NEW q \in Pool, NEW e \in Elem(q)
               PROVE  IsHead(q, e) \/ Linked(q, e)
    BY DEF Covered
  <2>1. PICK n \in Nat : Elem(q) = 1 .. n /\ tab[q] = n /\ next[q] = [f \in 1 .. n |-> f - 1]
    BY <1>2
  <2>2. CASE e = n
    BY <2>1, <2>2 DEF IsHead
  <2>3. CASE e # n
    <3>1. e + 1 \in 1 .. n /\ next[q][e + 1] = e
      BY <2>1, <2>3
    <3> QED
      BY <3>1, <2>1, <1>1 DEF Linked
  <2> QED
    BY <2>2, <2>3
<1>4. Acyclic
  <2> SUFFICES ASSUME NEW q \in Pool PROVE \E r \in [Elem(q) -> Nat] : Ranked(q, r)
    BY DEF Acyclic
  <2>1. PICK n \in Nat : Elem(q) = 1 .. n /\ tab[q] = n /\ next[q] = [f \in 1 .. n |-> f - 1]
    BY <1>2
  <2>2. PICK r : r = [e \in 1 .. n |-> n - e]
    OBVIOUS
  <2>3. r \in [Elem(q) -> Nat] /\ Ranked(q, r)
    BY <2>1, <2>2 DEF Ranked
  <2> QED
    BY <2>3
<1> QED
  BY <1>3, <1>4 DEF Whole

(* When no link in its place changes, the ranks stay.                      *)
LEMMA SameRanks ==
  ASSUME \A q \in Pool : \A e \in Elem(q) : ~Loose(q, e)' =>
           \/ ~Loose(q, e) /\ next'[q][e] = next[q][e]
           \/ next'[q][e] \notin Elem(q),
         Acyclic
  PROVE  Acyclic'
<1> SUFFICES ASSUME NEW q \in Pool PROVE \E r \in [Elem(q) -> Nat] : Ranked(q, r)'
  BY DEF Acyclic, Elem
<1>1. PICK r \in [Elem(q) -> Nat] : Ranked(q, r)
  BY DEF Acyclic
<1>2. Ranked(q, r)'
  BY <1>1 DEF Ranked, Elem
<1> QED
  BY <1>2

LEMMA SameWhole ==
  ASSUME Whole, UNCHANGED <<tab, next, mbox, payload, p, msg>>,
         \A q \in Pool : \A e : Loose(q, e)' <=> Loose(q, e),
         \A t \in Task : pc[t] # "idle" /\ pc'[t] = "idle" => p[t] = NULL
  PROVE  Whole'
<1>1. \A q \in Pool : \A e \in Elem(q) : IsHead(q, e) => IsHead(q, e)'
  BY Words DEF IsHead
<1>2. \A q \in Pool : \A e : Linked(q, e) => Linked(q, e)'
  BY DEF Linked, Elem
<1>3. \A q, e : Posted(q, e) => Posted(q, e)'
  BY DEF Posted
<1>4. Covered'
  BY <1>1, <1>2, <1>3 DEF Whole, Covered, Elem
<1> QED
  BY <1>4, SameRanks DEF Whole

LEMMA QuietWhole ==
  ASSUME TypeOK, Local, Whole, NEW t \in Task,
         MallocRead \/ MallocNext \/ FreeRead(t) \/ AllocFails
  PROVE  Whole'
<1> USE DEF MallocRead, MallocNext, FreeRead, AllocFails, At, Goto, SetElem, listVars,
            funcVars, allocVars
<1>1. \A q \in Pool : \A e : Loose(q, e)' <=> Loose(q, e)
  BY DEF Loose, TypeOK, Task
<1>2. \A u \in Task : pc[u] # "idle" /\ pc'[u] = "idle" => p[u] = NULL
  BY DEF TypeOK, Task
<1> QED
  BY <1>1, <1>2, SameWhole

LEMMA FreeLinkWhole ==
  ASSUME TypeOK, Local, Sound, Whole, NEW t \in Task, FreeLink(t) PROVE Whole'
<1> USE DEF FreeLink, At, Goto, funcVars, allocVars
<1>1. pool[t] \in Pool /\ elem[t] \in Elem(pool[t]) /\ Loose(pool[t], elem[t])
  BY DEF TypeOK, Local, Loose
<1>2. \A q \in Pool : \A e \in Elem(q) : ~Loose(q, e) => next'[q][e] = next[q][e]
  BY <1>1 DEF TypeOK
<1>3. \A q \in Pool : \A e : Loose(q, e)' <=> Loose(q, e)
  BY DEF Loose, TypeOK
<1>4. \A q \in Pool : \A e : IsHead(q, e) => IsHead(q, e)'
  BY DEF IsHead, TypeOK
<1>5. \A q, e : Posted(q, e) => Posted(q, e)'
  BY DEF Posted
<1>6. Covered'
  BY <1>2, <1>3, <1>4, <1>5 DEF Whole, Covered, Linked, Elem
<1> QED
  BY <1>2, <1>3, <1>6, SameRanks DEF Whole

LEMMA ReceiveWhole == ASSUME TypeOK, Whole, Receive PROVE Whole'
<1> USE DEF Receive, At, Goto, SetPool, listVars
<1>1. \A q \in Pool : \A e : Loose(q, e)' <=> Loose(q, e)
  BY DEF Loose, TypeOK, Task
<1>2. \A q \in Pool : \A e : IsHead(q, e) => IsHead(q, e)'
  BY DEF IsHead, TypeOK, Task
<1>3. Covered'
  BY <1>1, <1>2 DEF Whole, Covered, Linked, Posted, Elem
<1> QED
  BY <1>1, <1>3, SameRanks DEF Whole

LEMMA FetchWhole == ASSUME TypeOK, Local, Whole, Fetch PROVE Whole'
<1> USE DEF Fetch, At, Goto, listVars, funcVars, allocVars
<1>1. Len(mbox) \in Nat /\ msg' = mbox[1] /\ Len(mbox') = Len(mbox) - 1 /\ msg = NULL
      /\ \A i \in 1 .. Len(mbox') : mbox'[i] = mbox[i + 1]
  BY DEF TypeOK, Local
<1>2. \A i \in 1 .. Len(mbox) : i # 1 =>
        i - 1 \in 1 .. Len(mbox') /\ mbox'[i - 1] = mbox[i]
  BY <1>1
<1>3. \A q \in Pool : \A e : Loose(q, e)' <=> Loose(q, e)
  BY DEF Loose, TypeOK, Task
<1>4. p'["tcpip"] = payload[mbox[1]] /\ p'["input"] = p["input"]
      /\ pc'["tcpip"] = "unlink" /\ pc'["input"] = pc["input"]
  BY <1>1 DEF TypeOK, Task
<1>5. \A q \in Pool : \A e \in Elem(q) : IsHead(q, e) => IsHead(q, e)'
  BY <1>2, <1>4 DEF IsHead, Task
<1>6. \A q \in Pool : \A e \in Elem(q) : Posted(q, e) => Posted(q, e)'
  BY <1>1, <1>2, Words DEF Posted
<1>7. Covered'
  BY <1>3, <1>5, <1>6 DEF Whole, Covered, Linked, Elem
<1> QED
  BY <1>3, <1>7, SameRanks DEF Whole

(* The element taken was the first: the second one is the head now.        *)
LEMMA MallocPopWhole == ASSUME TypeOK, Local, Sound, Whole, MallocPop PROVE Whole'
<1> USE DEF MallocPop, At, Goto, Owner, funcVars, allocVars
<1> DEFINE r == pool["input"]
           a == elem["input"]
<1>1. r \in Pool /\ a \in Elem(r) /\ a = tab[r] /\ next[r][a] = reg["input"]
  BY DEF TypeOK, Local, Sound, Loaded, Task
<1>2. \A q \in Pool : tab'[q] = IF q = r THEN next[r][a] ELSE tab[q]
  BY <1>1 DEF TypeOK
<1>3. \A q \in Pool : \A e : Loose(q, e)' <=> Loose(q, e) \/ (q = r /\ e = a)
  BY DEF Loose, TypeOK, Task
<1>4. \A q \in Pool : \A e \in Elem(q) :
        IsHead(q, e) => IsHead(q, e)' \/ (q = r /\ e = a)
  BY <1>1, <1>2 DEF IsHead, TypeOK, Task
<1>5. \A q \in Pool : \A e \in Elem(q) : Linked(q, e) => Linked(q, e)' \/ IsHead(q, e)'
  BY <1>2, <1>3 DEF Linked, IsHead, Elem
<1>6. Covered'
  BY <1>3, <1>4, <1>5 DEF Whole, Covered, Posted, Elem
<1> QED
  BY <1>3, <1>6, SameRanks DEF Whole

(* The head of the chain is taken off, its next is the head now.           *)
LEMMA UnlinkWhole ==
  ASSUME TypeOK, Local, Whole, NEW t \in Task, Unlink(t) PROVE Whole'
<1> USE DEF Unlink, At, Goto, SetElem, SetPool, listVars, allocVars
<1> DEFINE h == p[t]
<1>1. h \in Elem("pbuf") /\ h # NULL /\ "pbuf" \in Pool
  BY DEF TypeOK, Local, Word, Pool
<1>2. \A q \in Pool : \A e : Loose(q, e)' <=> Loose(q, e) \/ (q = "pbuf" /\ e = h)
  BY <1>1 DEF Loose, TypeOK
<1>3. p'[t] = next["pbuf"][h] /\ pc'[t] # "idle"
      /\ \A u \in Task : u # t => p'[u] = p[u] /\ pc'[u] = pc[u]
  BY DEF TypeOK
<1>4. \A q \in Pool : \A e \in Elem(q) :
        IsHead(q, e) => IsHead(q, e)' \/ (q = "pbuf" /\ e = h)
  BY <1>3 DEF IsHead
<1>5. \A q \in Pool : \A e \in Elem(q) : Linked(q, e) => Linked(q, e)' \/ IsHead(q, e)'
  BY <1>2, <1>3 DEF Linked, IsHead, Elem
<1>6. Covered'
  BY <1>2, <1>4, <1>5 DEF Whole, Covered, Posted, Elem
<1> QED
  BY <1>2, <1>6, SameRanks DEF Whole

(* The new pbuf is the last of the chain: it is ranked behind the one that *)
(* was, and is the next of that, or the head.                              *)
LEMMA ChainPbufWhole == ASSUME TypeOK, Local, Sound, Whole, ChainPbuf PROVE Whole'
<1> USE DEF ChainPbuf, At, Goto, SetPool
<1>0. PICK c, l : c = elem["input"] /\ c = elem'["input"] /\ l = last
  BY DEF TypeOK
<1>1. c \in Elem("pbuf") /\ Loose("pbuf", c) /\ who["pbuf"][c] = INPUT /\ "pbuf" \in Pool
      /\ c # NULL
  BY <1>0, Tags, Words DEF TypeOK, Local, Sound, Held, LooseHeld, Loose, Task, Pool
<1>2. /\ p["input"] = NULL => l = NULL
      /\ p["input"] # NULL => l \in Elem("pbuf") /\ ~Loose("pbuf", l) /\ next["pbuf"][l] = NULL
      /\ l # c
  BY <1>0, <1>1 DEF Sound, Held, LastLinked, TypeOK, Word
<1>3. \A q \in Pool : \A e : e \in Elem(q) =>
        next'[q][e] = IF q = "pbuf" /\ e = c THEN NULL
                      ELSE IF q = "pbuf" /\ e = l THEN c ELSE next[q][e]
  BY <1>0, <1>1 DEF TypeOK
<1>4. \A q \in Pool : \A e : Loose(q, e)' <=> Loose(q, e) /\ ~(q = "pbuf" /\ e = c)
  <2>1. pc["tcpip"] \in {"free", "link", "push"} /\ pool["tcpip"] = "pbuf" => elem["tcpip"] # c
    BY <1>1, Tags DEF Sound, Held, LooseHeld, Task
  <2>2. pc["tcpip"] # "got"
    BY DEF Local
  <2> QED
    BY <1>0, <2>1, <2>2 DEF Loose, TypeOK, Task
<1>5. p'["input"] = (IF p["input"] = NULL THEN c ELSE p["input"])
      /\ p'["tcpip"] = p["tcpip"] /\ pc'["input"] # "idle" /\ pc'["tcpip"] = pc["tcpip"]
  BY <1>0 DEF TypeOK, Task
<1>0a. tab' = tab /\ mbox' = mbox /\ payload' = payload /\ msg' = msg
  OBVIOUS
<1> HIDE DEF ChainPbuf, At, Goto, SetPool
<1>6. \A q \in Pool : \A e \in Elem(q) : IsHead(q, e) => IsHead(q, e)'
  BY <1>0a, <1>5, Words DEF IsHead, Task
<1>7. \A q \in Pool : \A e \in Elem(q) : Linked(q, e) => Linked(q, e)'
  <2> SUFFICES ASSUME NEW q \in Pool, NEW e \in Elem(q), NEW f \in Elem(q),
                      ~Loose(q, f), next[q][f] = e
               PROVE  Linked(q, e)'
    BY DEF Linked
  <2>1. ~(q = "pbuf" /\ f = l)
    <3>1. q = "pbuf" /\ f = l => p["input"] # NULL
      BY <1>2, Words
    <3> QED
      BY <3>1, <1>2, Words
  <2>2. ~Loose(q, f)' /\ next'[q][f] = e
    BY <2>1, <1>1, <1>3, <1>4
  <2> QED
    BY <2>2 DEF Linked, Elem
<1>8. Linked("pbuf", c)' \/ IsHead("pbuf", c)'
  <2>1. CASE p["input"] = NULL
    BY <2>1, <1>5 DEF IsHead, Task
  <2>2. CASE p["input"] # NULL
    <3>1. l \in Elem("pbuf") /\ ~Loose("pbuf", l)' /\ next'["pbuf"][l] = c
      BY <2>2, <1>1, <1>2, <1>3, <1>4
    <3> QED
      BY <3>1 DEF Linked, Elem
  <2> QED
    BY <2>1, <2>2
<1>9. Covered'
  BY <1>0a, <1>4, <1>6, <1>7, <1>8 DEF Whole, Covered, Posted, Elem
<1>10. Acyclic'
  <2> SUFFICES ASSUME NEW q \in Pool PROVE \E s \in [Elem(q) -> Nat] : Ranked(q, s)'
    BY DEF Acyclic, Elem
  <2>1. PICK s \in [Elem(q) -> Nat] : Ranked(q, s)
    BY DEF Whole, Acyclic
  <2>2. CASE q = "pbuf"
    <3>1. PICK z : z = [s EXCEPT ![c] = IF p["input"] = NULL THEN 0 ELSE s[l] + 1]
      OBVIOUS
    <3>2. z[c] \in Nat /\ z \in [Elem(q) -> Nat]
      BY <3>1, <2>2, <1>1, <1>2
    <3>3. ASSUME NEW e \in Elem(q), ~Loose(q, e)', next'[q][e] \in Elem(q)
          PROVE  z[e] < z[next'[q][e]]
      <4>1. e # c
        BY <3>3, <2>2, <1>1, <1>3, Words
      <4>2. CASE e = l
        <5>1. p["input"] # NULL
          BY <4>2, <1>2, Words
        <5>2. next'[q][e] = c
          BY <4>1, <4>2, <2>2, <1>3
        <5>3. z[c] = s[l] + 1 /\ z[e] = s[l] /\ s[l] \in Nat
          BY <3>1, <5>1, <4>1, <4>2, <2>2, <1>1, <1>2
        <5> QED
          BY <5>2, <5>3
      <4>3. CASE e # l
        <5>1. next'[q][e] = next[q][e] /\ ~Loose(q, e)
          BY <3>3, <4>1, <4>3, <2>2, <1>1, <1>3, <1>4
        <5>2. next[q][e] # c
          BY <5>1, <3>3, <2>2, <1>1 DEF Sound, Closed
        <5>3. z[e] = s[e] /\ z[next[q][e]] = s[next[q][e]]
          BY <3>1, <3>3, <4>1, <5>1, <5>2
        <5> QED
          BY <5>1, <5>3, <2>1, <3>3 DEF Ranked
      <4> QED
        BY <4>2, <4>3
    <3> QED
      BY <3>2, <3>3 DEF Ranked, Elem
  <2>3. CASE q # "pbuf"
    <3>1. Ranked(q, s)'
      BY <2>1, <2>3, <1>3, <1>4 DEF Ranked, Elem
    <3> QED
      BY <3>1
  <2> QED
    BY <2>2, <2>3
<1> QED
  BY <1>9, <1>10 DEF Whole

(* The chain changes hands: its head is the frame of the message.          *)
LEMMA PostMsgWhole == ASSUME TypeOK, Local, Sound, Whole, PostMsg PROVE Whole'
<1> USE DEF PostMsg, At, Goto, funcVars, allocVars
<1> DEFINE m == elem["input"]
           h == p["input"]
<1>1. /\ m \in Elem("msg") /\ Loose("msg", m) /\ who["msg"][m] = INPUT /\ "msg" \in Pool
  BY Tags DEF TypeOK, Local, Sound, Held, LooseHeld, Loose, Task, Pool
<1>2. /\ \A q \in Pool : \A e : e \in Elem(q) =>
           next'[q][e] = IF q = "msg" /\ e = m THEN INPKT ELSE next[q][e]
      /\ \A k \in Elem("msg") : payload'[k] = IF k = m THEN h ELSE payload[k]
      /\ Len(mbox) \in Nat
  BY <1>1 DEF TypeOK
<1>3. \A i \in 1 .. Len(mbox) : mbox[i] # m /\ mbox[i] \in Elem("msg")
  BY <1>1, Tags DEF Sound, Held, Boxed, TypeOK
<1>4. pc'["tcpip"] = pc["tcpip"] /\ pc["input"] = "got" /\ pool["input"] = "msg"
      /\ pc["tcpip"] # "got"
  BY DEF TypeOK, Task, Local
<1>5. pc["tcpip"] \in {"free", "link", "push"} => ~(pool["tcpip"] = "msg" /\ elem["tcpip"] = m)
  BY <1>1, Tags DEF Sound, Held, LooseHeld, Task
<1>6. pc'["input"] \in {"idle", "free"}
  BY DEF TypeOK, Task
<1>7. \A q \in Pool : \A e : Loose(q, e)' =>  Loose(q, e)
  BY <1>4, <1>6 DEF Loose, Task
<1>8. \A q \in Pool : \A e : Loose(q, e) => Loose(q, e)' \/ (q = "msg" /\ e = m)
  BY <1>4, <1>5 DEF Loose, Task
<1>9. \A q \in Pool : \A e \in Elem(q) : Linked(q, e) => Linked(q, e)'
  BY <1>1, <1>2, <1>7 DEF Linked, Elem
<1>10. Acyclic'
  <2>1. \A q \in Pool : INPKT \notin Elem(q)
    BY Words
  <2> QED
    BY <2>1, <1>1, <1>2, <1>8, SameRanks DEF Whole
<1>11. CASE Len(mbox) < QueueLength
  <2>1. mbox' = Append(mbox, m) /\ pc'["input"] = "idle"
    BY <1>11, MempConstants DEF TypeOK, Task
  <2>2. /\ \A i \in 1 .. Len(mbox) : i \in 1 .. Len(mbox') /\ mbox'[i] = mbox[i]
        /\ Len(mbox) + 1 \in 1 .. Len(mbox') /\ mbox'[Len(mbox) + 1] = m
    BY <2>1, <1>1 DEF TypeOK
  <2>3. \A q \in Pool : \A e \in Elem(q) : IsHead(q, e) => IsHead(q, e)'
    <3>1. \A i \in 1 .. Len(mbox) : payload'[mbox'[i]] = payload[mbox[i]]
      BY <2>2, <1>2, <1>3
    <3>2. payload'[mbox'[Len(mbox) + 1]] = h
      BY <2>2, <1>1, <1>2
    <3> QED
      BY <3>1, <3>2, <2>2, <1>4 DEF IsHead, Task
  <2>4. \A q \in Pool : \A e \in Elem(q) : Posted(q, e) \/ (q = "msg" /\ e = m) => Posted(q, e)'
    BY <2>2 DEF Posted
  <2>5. Covered'
    BY <1>8, <1>9, <2>3, <2>4 DEF Whole, Covered, Elem
  <2> QED
    BY <1>10, <2>5 DEF Whole
<1>12. CASE Len(mbox) >= QueueLength
  <2>1. mbox' = mbox /\ pc'["input"] = "free"
    BY <1>12, MempConstants DEF TypeOK, Task
  <2>2. \A q \in Pool : \A e \in Elem(q) : IsHead(q, e) => IsHead(q, e)'
    BY <2>1, <1>2, <1>3, <1>4 DEF IsHead, Task
  <2>3. Loose("msg", m)'
    BY <2>1, <1>4 DEF Loose, Task
  <2>4. Covered'
    BY <1>8, <1>9, <2>1, <2>2, <2>3 DEF Whole, Covered, Posted, Elem
  <2> QED
    BY <1>10, <2>4 DEF Whole
<1> QED
  BY <1>2, <1>11, <1>12, MempConstants

(* What is put back is the head of the free list now, ranked before the    *)
(* one that was.                                                           *)
LEMMA FreePushWhole ==
  ASSUME TypeOK, Local, Sound, Whole, NEW t \in Task, FreePush(t) PROVE Whole'
<1> USE DEF FreePush, At, Owner, allocVars
<1>0. PICK r, a : r = pool[t] /\ a = elem[t]
  OBVIOUS
<1>1. /\ r \in Pool /\ a \in Elem(r) /\ a # NULL /\ Loose(r, a) /\ who[r][a] = Hand(t)
      /\ next[r][a] = tab[r] /\ Hand(t) # FREE
  BY <1>0, Tags, Words DEF TypeOK, Local, Sound, Held, LooseHeld, Loaded, Loose, Task
<1>2. \A q \in Pool : tab'[q] = IF q = r THEN a ELSE tab[q]
  BY <1>0, <1>1 DEF TypeOK
<1>3. /\ next' = next /\ mbox' = mbox /\ payload' = payload /\ p' = p
      /\ msg' = msg \/ (t = "tcpip" /\ r = "msg" /\ a = msg)
  BY <1>0, <1>1 DEF Local, Pool, Task
<1>4. \A u \in Task : u # t =>
        Hand(u) # Hand(t) /\ pc'[u] = pc[u] /\ pool'[u] = pool[u] /\ elem'[u] = elem[u]
  BY Tags DEF Task, TypeOK, Goto, SetPool, SetElem
<1>5. pc'[t] = "idle" => p[t] = NULL
  BY DEF TypeOK, Goto
<1>6. pc'[t] \in {"got", "free", "link", "push"} =>
        t = "tcpip" /\ r = "pbuf" /\ pool'[t] = "msg" /\ elem'[t] = msg
  BY <1>0 DEF TypeOK, Goto, SetPool, SetElem
<1>7. \A q \in Pool : \A e : Loose(q, e) => Loose(q, e)' \/ (q = r /\ e = a)
  BY <1>0, <1>4 DEF Loose
<1>8. \A q \in Pool : \A e : Loose(q, e)' =>
        Loose(q, e) \/ (t = "tcpip" /\ q = "msg" /\ e = msg)
  BY <1>4, <1>6 DEF Loose
<1>9. \A u \in Task : u # t /\ pc[u] \in {"got", "free", "link", "push"} =>
                   ~(pool[u] = r /\ elem[u] = a)
  BY <1>1, <1>4 DEF Sound, Held, LooseHeld
<1>10. ~Loose(r, a)'
  BY <1>4, <1>6, <1>9 DEF Loose
<1>11. \A e \in Elem("msg") : t = "tcpip" /\ e = msg /\ ~Loose("msg", e) => next["msg"][e] = INPKT
  BY Tags DEF Sound, Held, Messages, Local
<1>a. pc[t] # "idle" /\ \A q \in Pool : NULL \notin Elem(q) /\ INPKT \notin Elem(q)
  BY Words
<1>b. tab[r] # NULL => who[r][tab[r]] = FREE
  BY <1>1 DEF Sound, Held, TabFree
<1> HIDE DEF FreePush, At, Owner, allocVars
<1>12. \A q \in Pool : \A e \in Elem(q) :
         IsHead(q, e) => IsHead(q, e)' \/ (q = r /\ e = tab[r])
  BY <1>2, <1>3, <1>4, <1>5, <1>a DEF IsHead
<1>13. \A e \in Elem(r) : e = tab[r] => Linked(r, e)'
  BY <1>1, <1>3, <1>10 DEF Linked, Elem
<1>14. \A q \in Pool : \A e \in Elem(q) : Linked(q, e) => Linked(q, e)'
  BY <1>3, <1>8, <1>11, <1>a DEF Linked, Elem
<1>15. \A q \in Pool : \A e \in Elem(q) : Posted(q, e) => Posted(q, e)' \/ (q = r /\ e = a)
  BY <1>3 DEF Posted
<1>16. \A q \in Pool : \A e : q = r /\ e = a => IsHead(q, e)'
  BY <1>2 DEF IsHead
<1>17. Covered'
  BY <1>7, <1>12, <1>13, <1>14, <1>15, <1>16 DEF Whole, Covered, Elem
<1>18. Acyclic'
  <2> SUFFICES ASSUME NEW q \in Pool PROVE \E s \in [Elem(q) -> Nat] : Ranked(q, s)'
    BY DEF Acyclic, Elem
  <2>1. PICK s \in [Elem(q) -> Nat] : Ranked(q, s)
    BY DEF Whole, Acyclic
  <2>2. CASE q = r
    <3>1. PICK z : z = [e \in Elem(q) |-> IF e = a THEN 0 ELSE s[e] + 1]
      OBVIOUS
    <3>2. z \in [Elem(q) -> Nat]
      BY <3>1
    <3>3. ASSUME NEW e \in Elem(q), ~Loose(q, e)', next[q][e] \in Elem(q)
          PROVE  z[e] < z[next[q][e]]
      <4>1. CASE e = a
        <5>1. next[q][e] # a
          BY <4>1, <3>3, <2>2, <1>1, <1>b, <1>a
        <5>2. z[e] = 0 /\ z[next[q][e]] = s[next[q][e]] + 1 /\ s[next[q][e]] \in Nat
          BY <3>1, <3>3, <4>1, <5>1
        <5> QED
          BY <5>2
      <4>2. CASE e # a
        <5>1. ~Loose(q, e)
          BY <3>3, <4>2, <2>2, <1>7
        <5>2. next[q][e] # a
          BY <5>1, <3>3, <2>2, <1>1 DEF Sound, Closed
        <5>3. s[e] < s[next[q][e]]
          BY <5>1, <3>3, <2>1 DEF Ranked
        <5>4. z[e] = s[e] + 1 /\ z[next[q][e]] = s[next[q][e]] + 1
          BY <3>1, <3>3, <4>2, <5>2
        <5> QED
          BY <3>3, <5>3, <5>4
      <4> QED
        BY <4>1, <4>2
    <3> QED
      BY <3>2, <3>3, <1>3 DEF Ranked, Elem
  <2>3. CASE q # r
    <3>1. Ranked(q, s)'
      BY <2>1, <2>3, <1>3, <1>7 DEF Ranked, Elem
    <3> QED
      BY <3>1
  <2> QED
    BY <2>2, <2>3
<1> QED
  BY <1>17, <1>18 DEF Whole
-----------------------------------------------------------------------------
LEMMA IInvStep == TypeOK /\ Local /\ IInv /\ [Next]_vars => IInv'
<1> SUFFICES ASSUME TypeOK, Local, IInv, [Next]_vars, ~overlap' PROVE Sound'
  BY DEF IInv
<1>1. CASE Stopped \/ UNCHANGED vars
  <2>1. UNCHANGED vars
    BY <1>1 DEF Stopped
  <2>2. Sound
    BY <2>1 DEF IInv, vars
  <2> QED
    BY <2>1, <2>2 DEF vars, listVars, funcVars, allocVars, Sound, Held, TabFree, ChainHeld, LooseHeld,
       Boxed, Messages, LastLinked, Closed, Unshared, HeadsFirst, IsHead, Loaded, Overlaps, Inside,
       Loose, Hand
<1>2. CASE Receive \/ InputStep \/ TcpipStep
  <2>1. Watch
    BY <1>2 DEF InputStep, TcpipStep, Free, Receive, MallocRead, MallocNext, MallocPop, FreeRead,
       FreeLink, FreePush, Unlink, ChainPbuf, AllocFails, PostMsg, Fetch
  <2>2. ~overlap /\ ~Overlaps'
    BY <2>1 DEF Watch
  <2>3. Sound
    BY <2>2 DEF IInv
  <2> QED
    BY <2>2, <2>3, <1>2, MallocReadSound, MallocNextSound, MallocPopSound, FreeReadSound,
       FreeLinkSound, FreePushSound, UnlinkSound, ReceiveSound, ChainPbufSound, AllocFailsSound,
       PostMsgSound, FetchSound DEF InputStep, TcpipStep, Free, Task
<1> QED
  BY <1>1, <1>2 DEF Next

LEMMA IInvHolds == Spec => [](TypeOK /\ Local /\ IInv)
<1>1. Init => TypeOK /\ Local /\ IInv
  BY InitTyped, InitSound DEF IInv
<1>2. TypeOK /\ Local /\ IInv /\ [Next]_vars => (TypeOK /\ Local /\ IInv)'
  BY TypedStep, IInvStep
<1> QED
  BY <1>1, <1>2, PTL DEF Spec

LEMMA WholeStep ==
  TypeOK /\ Local /\ IInv /\ (~overlap => Whole) /\ [Next]_vars => (~overlap' => Whole')
<1> SUFFICES ASSUME TypeOK, Local, IInv, ~overlap => Whole, [Next]_vars, ~overlap'
             PROVE  Whole'
  OBVIOUS
<1>1. CASE Stopped \/ UNCHANGED vars
  <2>1. UNCHANGED vars
    BY <1>1 DEF Stopped
  <2>2. Whole /\ UNCHANGED <<tab, next, mbox, payload, p, msg, pc, pool, elem>>
    BY <2>1 DEF vars, listVars, funcVars
  <2> QED
    BY <2>2, SameWhole DEF Loose
<1>2. CASE Receive \/ InputStep \/ TcpipStep
  <2>1. Watch
    BY <1>2 DEF InputStep, TcpipStep, Free, Receive, MallocRead, MallocNext, MallocPop,
       FreeRead, FreeLink, FreePush, Unlink, ChainPbuf, AllocFails, PostMsg, Fetch
  <2>2. ~overlap
    BY <2>1 DEF Watch
  <2>3. Sound /\ Whole
    BY <2>2 DEF IInv
  <2> QED
    BY <2>3, <1>2, QuietWhole, MallocPopWhole, FreeLinkWhole, FreePushWhole, UnlinkWhole,
       ReceiveWhole, ChainPbufWhole, PostMsgWhole, FetchWhole
       DEF InputStep, TcpipStep, Free, Task
<1> QED
  BY <1>1, <1>2 DEF Next

LEMMA WholeHolds == Spec => [](TypeOK /\ Local /\ (~overlap => Sound /\ Whole))
<1>1. Init => Whole
  BY InitWhole
<1>2. TypeOK /\ Local /\ IInv /\ (~overlap => Whole) /\ [Next]_vars => (~overlap' => Whole')
  BY WholeStep
<1>3. TypeOK /\ Local /\ IInv /\ (~overlap => Whole)
        => TypeOK /\ Local /\ (~overlap => Sound /\ Whole)
  BY DEF IInv
<1> QED
  BY <1>1, <1>2, <1>3, IInvHolds, PTL DEF Spec

(* A set of numbers has a least one. *)
LEMMA Least ==
  ASSUME NEW T \in SUBSET Nat, T # {}
  PROVE  \E n \in T : \A k \in T : n <= k
<1> DEFINE R == OpToRel(<, Nat)
<1>1. IsWellFoundedOn(R, Nat)
  BY NatLessThanWellFounded
<1>2. \A x, y \in Nat : y < x => <<y, x>> \in R
  BY DEF OpToRel
<1> HIDE DEF R
<1>3. PICK n \in T : \A y \in T : ~ (<<y, n>> \in R)
  BY <1>1, WFMin
<1>4. \A k \in T : ~ (k < n)
  BY <1>2, <1>3
<1>5. \A k \in T : n <= k
  BY <1>4
<1> QED
  BY <1>5

(* From an element outside a set that links do not leave one gets back,    *)
(* against the links, to a head outside it that has the same owner.        *)
LEMMA Rooted ==
  ASSUME Sound, Whole, NEW q \in Pool, NEW S, FollowsLinks(q, S),
         NEW x \in Elem(q), ~Loose(q, x), x \notin S
  PROVE  \E h \in Elem(q) : /\ h \notin S /\ who[q][h] = who[q][x]
                            /\ IsHead(q, h) \/ Posted(q, h)
<1> DEFINE T == {e \in Elem(q) : ~Loose(q, e) /\ e \notin S /\ who[q][e] = who[q][x]}
<1>1. PICK r \in [Elem(q) -> Nat] : Ranked(q, r)
  BY DEF Whole, Acyclic
<1>2. PICK h \in T : \A e \in T : r[h] <= r[e]
  <2> DEFINE K == {r[e] : e \in T}
  <2>1. K \in SUBSET Nat /\ K # {}
    OBVIOUS
  <2> HIDE DEF K
  <2>2. PICK n \in K : \A k \in K : n <= k
    BY <2>1, Least
  <2> QED
    BY <2>2 DEF K
<1>3. ~Linked(q, h)
  <2> SUFFICES ASSUME NEW f \in Elem(q), ~Loose(q, f), next[q][f] = h PROVE FALSE
    BY DEF Linked
  <2>1. who[q][f] = who[q][h]
    BY DEF Sound, Closed
  <2>2. f \notin S
    BY DEF FollowsLinks
  <2>3. r[f] < r[h]
    BY <1>1 DEF Ranked
  <2>4. r[h] <= r[f] /\ r[h] \in Nat /\ r[f] \in Nat
    BY <1>2, <2>1, <2>2
  <2> QED
    BY <2>3, <2>4
<1>4. IsHead(q, h) \/ Posted(q, h)
  BY <1>3 DEF Whole, Covered
<1> QED
  BY <1>4

(* Until the tasks overlap in a pool, memp_malloc never hands out a pbuf   *)
(* or a message that someone has.                                          *)
THEOREM HandedOutOnceHolds == Spec => []HandedOutOnce
<1>1. TypeOK /\ Local /\ IInv => HandedOutOnce
  BY Words DEF TypeOK, Local, IInv, Sound, Held, TabFree, Loaded, HandedOutOnce, NeverHandedOutTwice, Task
<1> QED
  BY <1>1, IInvHolds, PTL

(* Until then, no task frees an element that is not in its hands: none is  *)
(* freed twice, and none while the other task still uses it.               *)
THEOREM FreedByOwnerHolds == Spec => []FreedByOwner
<1>1. TypeOK /\ Local /\ IInv => FreedByOwner
  BY DEF IInv, Sound, Held, LooseHeld, FreedByOwner
<1> QED
  BY <1>1, IInvHolds, PTL
(* Until the tasks overlap, a frame that waits in tcpip_mbox is the whole  *)
(* chain that was allocated for it and nothing else, for frames, pools and *)
(* mailboxes of any size: two frames share no pbuf, and none is lost from  *)
(* the middle of a chain.                                                  *)
THEOREM FrameWholeHolds == Spec => []FrameWhole
<1>1. ASSUME TypeOK, Local, Sound, Whole, NEW i \in 1 .. Len(mbox), NEW m, m = mbox[i]
      PROVE  payload[m] # NULL /\ Walk("pbuf", payload[m]) = Tagged("pbuf", m)
  <2> DEFINE h == payload[m]
  <2>1. /\ m \in Elem("msg") /\ m # INPUT /\ m # FREE /\ m # msg /\ "pbuf" \in Pool
        /\ h # NULL /\ h \in Elem("pbuf") /\ who["pbuf"][h] = m
    BY <1>1, Tags, SMTT(60) DEF TypeOK, Local, Sound, Held, Boxed, Word, Pool
  <2>2. \A e \in Elem("pbuf") : who["pbuf"][e] = m => ~Loose("pbuf", e)
    BY <1>1, <2>1, Tags DEF Sound, Held, LooseHeld, Loose, Task
  <2>3. FollowsLinks("pbuf", Tagged("pbuf", m)) /\ h \in Tagged("pbuf", m)
    BY <1>1, <2>1, <2>2 DEF Sound, Closed, FollowsLinks, Tagged
  <2>4. ASSUME NEW x \in Elem("pbuf"), who["pbuf"][x] = m, NEW S,
               {h} \cap Elem("pbuf") \subseteq S, FollowsLinks("pbuf", S), x \notin S
        PROVE  FALSE
    <3>1. PICK g \in Elem("pbuf") : /\ g \notin S /\ who["pbuf"][g] = m
                                    /\ IsHead("pbuf", g) \/ Posted("pbuf", g)
      BY <1>1, <2>1, <2>2, <2>4, Rooted
    <3>2. g # tab["pbuf"]
      BY <1>1, <2>1, <3>1, Words DEF Sound, Held, TabFree
    <3>3. \A t \in Task : pc[t] # "idle" => g # p[t]
      BY <1>1, <2>1, <3>1, Tags, Words DEF Sound, Held, ChainHeld, Task
    <3>4. \A j \in 1 .. Len(mbox) : g # payload[mbox[j]]
      BY <1>1, <2>1, <2>4, <3>1 DEF Sound, Held, Boxed
    <3> QED
      BY <3>1, <3>2, <3>3, <3>4 DEF IsHead, Posted
  <2>5. Walk("pbuf", h) \subseteq Tagged("pbuf", m)
    BY <2>3 DEF Walk, Tagged
  <2>6. Tagged("pbuf", m) \subseteq Walk("pbuf", h)
    BY <2>4 DEF Walk, Tagged
  <2> QED
    BY <2>1, <2>5, <2>6
<1>2. TypeOK /\ Local /\ (~overlap => Sound /\ Whole) => FrameWhole
  BY <1>1 DEF FrameWhole
<1> QED
  BY <1>2, WholeHolds, PTL

(* Until the tasks overlap, nothing leaks: whatever pools ran empty and    *)
(* mailboxes ran full on the way, when both tasks wait and the mailbox is  *)
(* empty every pbuf and every message is in its free list.                 *)
THEOREM NothingLostHolds == Spec => []NothingLost
<1>1. ASSUME TypeOK, Local, Sound, Whole, \A t \in Task : pc[t] = "idle", mbox = <<>>,
             NEW q \in Pool
      PROVE  Walk(q, tab[q]) = Elem(q)
  <2>1. \A e : ~Loose(q, e)
    BY <1>1 DEF Loose
  <2>2. Len(mbox) = 0 /\ msg = NULL
    BY <1>1 DEF Local, Task
  <2>3. ASSUME NEW x \in Elem(q), NEW S, {tab[q]} \cap Elem(q) \subseteq S,
               FollowsLinks(q, S), x \notin S
        PROVE  FALSE
    <3>1. PICK h \in Elem(q) : h \notin S /\ (IsHead(q, h) \/ Posted(q, h))
      BY <1>1, <2>1, <2>3, Rooted
    <3>2. ~Posted(q, h)
      BY <2>2, Words DEF Posted
    <3>3. h = tab[q]
      BY <1>1, <2>2, <3>1, <3>2 DEF IsHead
    <3> QED
      BY <2>3, <3>1, <3>3
  <2> QED
    BY <2>3 DEF Walk
<1>2. TypeOK /\ Local /\ (~overlap => Sound /\ Whole) => NothingLost
  BY <1>1 DEF NothingLost
<1> QED
  BY <1>2, WholeHolds, PTL
=============================================================================
