------------------------------ MODULE MempPools ------------------------------
(***************************************************************************)
(* The way of a received frame from ethernetif_input to the tcpip thread:  *)
(* the frame is copied into a chain of pbufs of the pool MEMP_PBUF_POOL,   *)
(* the chain is posted in a message of the pool MEMP_TCPIP_MSG_INPKT, and  *)
(* the tcpip thread gives both back.                                       *)
(*                                                                         *)
(* A pool is a linked list of its free elements. lwipopts.h sets           *)
(* SYS_LIGHTWEIGHT_PROT to 0, so SYS_ARCH_PROTECT is empty, and both tasks *)
(* have priority 4: the tick may switch between them at any step. Every    *)
(* load and store of the list is a step here. MEMP_SIZE is 0: the link of  *)
(* a free element is the first word of a used one, p->next of a pbuf and   *)
(* msg->type of a message.                                                 *)
(*                                                                         *)
(* TCP_QUEUE_OOSEQ, IP_REASSEMBLY and ARP_QUEUEING are 0 as well: what     *)
(* ethernet_input gets, it frees before it returns.                        *)
(***************************************************************************)
EXTENDS Integers, Sequences

CONSTANTS
  NumPbuf,          \* PBUF_POOL_SIZE
  NumMsg,           \* MEMP_NUM_TCPIP_MSG_INPKT
  MaxChain,         \* pbufs the longest frame takes
  QueueLength,      \* archMESG_QUEUE_LENGTH, the room in tcpip_mbox
  AfterOverlap      \* bound: whether behaviours are followed past an overlap

ASSUME MempConstants ==
  /\ NumPbuf \in Nat /\ NumMsg \in Nat /\ AfterOverlap \in BOOLEAN
  /\ MaxChain \in Nat \ {0} /\ QueueLength \in Nat

VARIABLES
  tab,              \* tab[q]: *desc->tab, the first free element of pool q
  next,             \* next[q][e]: the first word of element e of pool q
  payload,          \* payload[m]: msg.inp.p of message m
  mbox,             \* tcpip_mbox
  pc,               \* where each task is
  pool, elem, reg,  \* the pool function a task is in: pool, memp, word loaded
  p,                \* the chain a task has in hand
  last, rem,        \* pbuf_alloc: last pbuf of the chain, pbufs still to get
  msg,              \* the message the tcpip thread handles
  who,              \* ghost: who[q][e]: who has the element
  overlap           \* ghost: both tasks have been inside one pool at once

listVars == <<tab, next>>
funcVars == <<pool, elem, reg>>
allocVars == <<last, rem>>
vars == <<listVars, payload, mbox, pc, funcVars, p, allocVars, msg, who, overlap>>

Task == {"input", "tcpip"}
Pool == {"pbuf", "msg"}
NULL == 0
INPKT == -1                      \* TCPIP_MSG_INPKT read as a link
FREE == 0                        \* who: in no task's hands
INPUT == NumMsg + 1              \* who: the input task; m: in message m
Elem(q) == 1 .. (IF q = "pbuf" THEN NumPbuf ELSE NumMsg)
Word(q) == Elem(q) \cup {NULL} \cup (IF q = "msg" THEN {INPKT} ELSE {})

(* memp_init_pool: each element is linked before the one put in before it. *)
Init ==
  /\ tab = [q \in Pool |-> IF q = "pbuf" THEN NumPbuf ELSE NumMsg]
  /\ next = [q \in Pool |-> [e \in Elem(q) |-> e - 1]]
  /\ payload = [m \in Elem("msg") |-> NULL]
  /\ mbox = <<>>
  /\ pc = [t \in Task |-> "idle"]
  /\ pool = [t \in Task |-> "pbuf"]
  /\ elem = [t \in Task |-> NULL] /\ reg = [t \in Task |-> NULL]
  /\ p = [t \in Task |-> NULL]
  /\ last = NULL /\ rem = 0 /\ msg = NULL
  /\ who = [q \in Pool |-> [e \in Elem(q) |-> FREE]]
  /\ overlap = FALSE

(* A task is inside a pool from its load of *desc->tab to its store.       *)
Inside(t) == pc[t] \in {"next", "pop", "link", "push"}
Overlaps == Inside("input") /\ Inside("tcpip") /\ pool["input"] = pool["tcpip"]
Watch == overlap' = (overlap \/ Overlaps')

Followed == AfterOverlap \/ ~overlap

At(t, place) == pc[t] = place /\ Followed
Goto(t, place) == pc' = [pc EXCEPT ![t] = place]
Owner(q, e, tag) == who' = [who EXCEPT ![q][e] = tag]
SetElem(t, e) == elem' = [elem EXCEPT ![t] = e]
SetPool(t, q) == pool' = [pool EXCEPT ![t] = q]

-----------------------------------------------------------------------------
(* do_memp_malloc_pool. Only the input task allocates from these pools.    *)

(* memp = *desc->tab, and the test of memp. *)
MallocRead ==
  /\ At("input", "read")
  /\ SetElem("input", tab[pool["input"]])
  /\ Goto("input", IF elem'["input"] = NULL THEN "empty" ELSE "next")
  /\ UNCHANGED <<listVars, payload, mbox, pool, reg, p, allocVars, msg, who>>
  /\ Watch

(* memp->next is loaded. After an overlap memp may be no element at all:   *)
(* what happens then is not followed.                                      *)
MallocNext ==
  /\ At("input", "next")
  /\ elem["input"] \in Elem(pool["input"])
  /\ reg' = [reg EXCEPT !["input"] = next[pool["input"]][elem["input"]]]
  /\ Goto("input", "pop")
  /\ UNCHANGED <<listVars, payload, mbox, pool, elem, p, allocVars, msg, who>>
  /\ Watch

(* *desc->tab = memp->next. *)
MallocPop ==
  /\ At("input", "pop")
  /\ tab' = [tab EXCEPT ![pool["input"]] = reg["input"]]
  /\ Owner(pool["input"], elem["input"], INPUT)
  /\ Goto("input", "got")
  /\ UNCHANGED <<next, payload, mbox, funcVars, p, allocVars, msg>>
  /\ Watch

(* do_memp_free_pool *)

(* *desc->tab is loaded. *)
FreeRead(t) ==
  /\ At(t, "free")
  /\ reg' = [reg EXCEPT ![t] = tab[pool[t]]]
  /\ Goto(t, "link")
  /\ UNCHANGED <<listVars, payload, mbox, pool, elem, p, allocVars, msg, who>>
  /\ Watch

FreeLink(t) ==
  /\ At(t, "link")
  /\ next' = [next EXCEPT ![pool[t]][elem[t]] = reg[t]]
  /\ Goto(t, "push")
  /\ UNCHANGED <<tab, payload, mbox, funcVars, p, allocVars, msg, who>>
  /\ Watch

(* *desc->tab = memp, and the return to the caller: pbuf_free goes on with *)
(* the rest of the chain; the tcpip thread frees the message after the     *)
(* chain, the input task frees the chain after a message not posted.       *)
FreePush(t) ==
  /\ At(t, "push")
  /\ tab' = [tab EXCEPT ![pool[t]] = elem[t]]
  /\ Owner(pool[t], elem[t], FREE)
  /\ \/ /\ p[t] # NULL
        /\ Goto(t, "unlink")
        /\ UNCHANGED <<pool, elem, msg>>
     \/ /\ p[t] = NULL /\ t = "tcpip" /\ pool[t] = "pbuf"
        /\ Goto(t, "free") /\ SetPool(t, "msg") /\ SetElem(t, msg)
        /\ UNCHANGED msg
     \/ /\ p[t] = NULL /\ ~(t = "tcpip" /\ pool[t] = "pbuf")
        /\ Goto(t, "idle")
        /\ msg' = IF t = "tcpip" THEN NULL ELSE msg
        /\ UNCHANGED <<pool, elem>>
  /\ UNCHANGED <<next, payload, mbox, reg, p, allocVars>>
  /\ Watch

UnlinkMutant(t) ==               \* mutant: only the first pbuf is freed
  /\ At(t, "unlink")
  /\ SetElem(t, p[t]) /\ SetPool(t, "pbuf")
  /\ p' = [p EXCEPT ![t] = NULL]
  /\ Goto(t, "free")
  /\ UNCHANGED <<listVars, payload, mbox, reg, allocVars, msg, who>>
  /\ Watch

(* pbuf_free, one turn of its loop: every pbuf here has the reference      *)
(* count 1, q = p->next, and memp_free(MEMP_PBUF_POOL, p).                 *)
Unlink(t) ==
  /\ At(t, "unlink")
  /\ SetElem(t, p[t]) /\ SetPool(t, "pbuf")
  /\ p' = [p EXCEPT ![t] = next["pbuf"][p[t]]]
  /\ Goto(t, "free")
  /\ UNCHANGED <<listVars, payload, mbox, reg, allocVars, msg, who>>
  /\ Watch

-----------------------------------------------------------------------------
(* The input task. *)

(* low_level_input has a frame that takes n pbufs: pbuf_alloc(PBUF_POOL).  *)
Receive ==
  /\ At("input", "idle")
  /\ \E n \in 1 .. MaxChain : rem' = n
  /\ last' = NULL /\ p' = [p EXCEPT !["input"] = NULL]
  /\ SetPool("input", "pbuf") /\ Goto("input", "read")
  /\ UNCHANGED <<listVars, payload, mbox, elem, reg, msg, who>>
  /\ Watch

ChainPbufMutant ==               \* mutant: one pbuf more than the frame takes
  LET q == elem["input"] IN
  /\ At("input", "got") /\ pool["input"] = "pbuf"
  /\ next' = [next EXCEPT !["pbuf"] =
       [e \in Elem("pbuf") |-> IF e = q THEN NULL
                               ELSE IF e = last THEN q ELSE @[e]]]
  /\ p' = [p EXCEPT !["input"] = IF @ = NULL THEN q ELSE @]
  /\ last' = q /\ rem' = rem - 1
  /\ SetPool("input", IF rem' >= 0 THEN "pbuf" ELSE "msg")
  /\ Goto("input", "read")
  /\ UNCHANGED <<tab, payload, mbox, elem, reg, msg, who>>
  /\ Watch

(* memp_malloc gave a pbuf: pbuf_init_alloced_pbuf clears its next, and it *)
(* becomes the head of the chain or is linked behind the last. The chain   *)
(* being whole, tcpip_inpkt asks for a message.                            *)
ChainPbuf ==
  LET q == elem["input"] IN
  /\ At("input", "got") /\ pool["input"] = "pbuf"
  /\ next' = [next EXCEPT !["pbuf"] =
       [e \in Elem("pbuf") |-> IF e = q THEN NULL
                               ELSE IF e = last THEN q ELSE @[e]]]
  /\ p' = [p EXCEPT !["input"] = IF @ = NULL THEN q ELSE @]
  /\ last' = q /\ rem' = rem - 1
  /\ SetPool("input", IF rem' > 0 THEN "pbuf" ELSE "msg")
  /\ Goto("input", "read")
  /\ UNCHANGED <<tab, payload, mbox, elem, reg, msg, who>>
  /\ Watch

AllocFailsMutant ==              \* mutant: the partial chain is not freed
  /\ At("input", "empty")
  /\ Goto("input", "idle")
  /\ UNCHANGED <<listVars, payload, mbox, funcVars, p, allocVars, msg, who>>
  /\ Watch

(* memp_malloc failed: pbuf_alloc frees the chain allocated so far, and    *)
(* after the failure of tcpip_inpkt ethernetif_input frees the frame.      *)
AllocFails ==
  /\ At("input", "empty")
  /\ Goto("input", IF p["input"] = NULL THEN "idle" ELSE "unlink")
  /\ UNCHANGED <<listVars, payload, mbox, funcVars, p, allocVars, msg, who>>
  /\ Watch

PostMsgMutant ==                 \* mutant: the sender keeps the chain too
  /\ At("input", "got") /\ pool["input"] = "msg"
  /\ next' = [next EXCEPT !["msg"][elem["input"]] = INPKT]
  /\ payload' = [payload EXCEPT ![elem["input"]] = p["input"]]
  /\ mbox' = IF Len(mbox) < QueueLength THEN Append(mbox, elem["input"]) ELSE mbox
  /\ Goto("input", IF Len(mbox) < QueueLength THEN "unlink" ELSE "free")
  /\ who' = who
  /\ UNCHANGED <<tab, funcVars, p, allocVars, msg>>
  /\ Watch

(* memp_malloc gave a message: tcpip_inpkt fills it and sys_mbox_trypost   *)
(* posts it, or the queue is full and it is freed, then the chain.         *)
PostMsg ==
  LET m == elem["input"] IN
  /\ At("input", "got") /\ pool["input"] = "msg"
  /\ next' = [next EXCEPT !["msg"][m] = INPKT]
  /\ payload' = [payload EXCEPT ![m] = p["input"]]
  /\ \/ /\ Len(mbox) < QueueLength
        /\ mbox' = Append(mbox, m)
        /\ who' = [who EXCEPT !["msg"][m] = m, !["pbuf"] =
             [e \in Elem("pbuf") |-> IF @[e] = INPUT THEN m ELSE @[e]]]
        /\ Goto("input", "idle")
     \/ /\ Len(mbox) >= QueueLength
        /\ Goto("input", "free")
        /\ UNCHANGED <<mbox, who>>
  /\ UNCHANGED <<tab, funcVars, p, allocVars, msg>>
  /\ Watch

-----------------------------------------------------------------------------
(* The tcpip thread. *)

FetchMutant ==                   \* mutant: the frame is not freed
  /\ At("tcpip", "idle") /\ mbox # <<>>
  /\ msg' = Head(mbox) /\ mbox' = Tail(mbox)
  /\ SetElem("tcpip", msg') /\ SetPool("tcpip", "msg")
  /\ Goto("tcpip", "free")
  /\ UNCHANGED <<listVars, payload, reg, p, allocVars, who>>
  /\ Watch

(* tcpip_timeouts_mbox_fetch gets a message, and tcpip_thread_handle_msg   *)
(* gives the chain to ethernet_input, which frees it.                      *)
Fetch ==
  /\ At("tcpip", "idle") /\ mbox # <<>>
  /\ msg' = Head(mbox) /\ mbox' = Tail(mbox)
  /\ p' = [p EXCEPT !["tcpip"] = payload[msg']]
  /\ Goto("tcpip", "unlink")
  /\ UNCHANGED <<listVars, payload, funcVars, allocVars, who>>
  /\ Watch

-----------------------------------------------------------------------------
Free(t) == FreeRead(t) \/ FreeLink(t) \/ FreePush(t) \/ Unlink(t)
InputStep ==
  \/ MallocRead \/ MallocNext \/ MallocPop \/ Free("input")
  \/ ChainPbuf \/ AllocFails \/ PostMsg
TcpipStep == Fetch \/ Free("tcpip")
Stopped == ~Followed /\ UNCHANGED vars

Next == Receive \/ InputStep \/ TcpipStep \/ Stopped

Spec == Init /\ [][Next]_vars

(* The scheduler slices time between ready tasks of one priority. *)
FairSpec == Spec /\ WF_vars(InputStep) /\ WF_vars(TcpipStep)

-----------------------------------------------------------------------------
TypeOK ==
  /\ tab \in [Pool -> Int] /\ DOMAIN next = Pool /\ DOMAIN who = Pool
  /\ \A q \in Pool : tab[q] \in Word(q) /\ next[q] \in [Elem(q) -> Word(q)]
                     /\ who[q] \in [Elem(q) -> 0 .. INPUT]
  /\ payload \in [Elem("msg") -> Word("pbuf")]
  /\ mbox \in Seq(Elem("msg"))
  /\ pc \in [Task -> {"idle", "read", "next", "pop", "got", "empty",
                      "unlink", "free", "link", "push"}]
  /\ pool \in [Task -> Pool]
  /\ elem \in [Task -> Int] /\ reg \in [Task -> Int]
  /\ p \in [Task -> Word("pbuf")]
  /\ last \in Word("pbuf") /\ rem \in 0 .. MaxChain /\ msg \in Elem("msg") \cup {NULL}
  /\ overlap \in BOOLEAN

(* An element memp_malloc takes from the list is in nobody's hands.        *)
NeverHandedOutTwice ==
  pc["input"] = "pop" => who[pool["input"]][elem["input"]] = FREE

(* ... as long as the two tasks were never inside one pool at once.        *)
HandedOutOnce == ~overlap => NeverHandedOutTwice

(* What memp_free puts back is in the hands of the task that frees it: the *)
(* input task only its own, the tcpip thread only the message it handles   *)
(* and the pbufs that came with it.                                        *)
Hand(t) == IF t = "input" THEN INPUT ELSE msg
FreedByOwner ==
  ~overlap => \A t \in Task :
    pc[t] \in {"free", "link", "push"} => who[pool[t]][elem[t]] = Hand(t)

(* The elements of pool q found from e by following the first words: the   *)
(* least set that holds e and what each of its elements links to.          *)
FollowsLinks(q, S) == \A e \in S : next[q][e] \in Elem(q) => next[q][e] \in S
Walk(q, e) ==
  {x \in Elem(q) : \A S \in SUBSET Elem(q) :
                     {e} \cap Elem(q) \subseteq S /\ FollowsLinks(q, S) => x \in S}
Tagged(q, tag) == {e \in Elem(q) : who[q][e] = tag}

(* Every frame waiting in tcpip_mbox has the whole chain allocated for it, *)
(* and nothing else: chains share no pbuf.                                 *)
FrameWhole ==
  ~overlap => \A i \in 1 .. Len(mbox) :
    LET m == mbox[i] IN payload[m] # NULL /\ Walk("pbuf", payload[m]) = Tagged("pbuf", m)

(* When both tasks wait and the mailbox is empty, everything is back in    *)
(* the lists: whatever failed on the way, nothing leaks.                   *)
NothingLost ==
  ~overlap /\ (\A t \in Task : pc[t] = "idle") /\ mbox = <<>> =>
    \A q \in Pool : Walk(q, tab[q]) = Elem(q)

(* An empty pool does not stay empty: the input task is never starved of   *)
(* pbufs or messages for good.                                             *)
PoolRecovers ==
  \A q \in Pool : tab[q] = NULL ~> (tab[q] # NULL \/ overlap)
=============================================================================
