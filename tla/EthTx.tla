-------------------------------- MODULE EthTx --------------------------------
(***************************************************************************)
(* The Ethernet transmit path: low_level_output, called by tasks of        *)
(* different priorities, the semaphore it creates on its first call, and   *)
(* the DMA that empties the ring of descriptors DMATxDscrTab.              *)
(*                                                                         *)
(* The tcpip thread (priority 4) and the link monitor (priority 2, through *)
(* netif_set_up and dhcp_start, without the core lock) both transmit.      *)
(* FreeRTOS runs the ready task of the highest priority, so a task can be  *)
(* interrupted anywhere, but only by one of higher priority.               *)
(*                                                                         *)
(* An Ethernet frame (mtu 1500) fits in one buffer (1524): the code for    *)
(* frames of several descriptors is never used by lwIP and left out.       *)
(***************************************************************************)
EXTENDS Integers, Sequences

CONSTANTS
  Sender,          \* tasks that transmit
  prio,            \* prio[t]: priority of task t
  NoSemaphore,     \* xTxSemaphore is NULL
  ETH_TXBUFNB,     \* descriptors in the ring
  MaxFrames        \* bound: calls of low_level_output

ASSUME EthTxConstants ==
  /\ prio \in [Sender -> Nat]
  /\ \A t, u \in Sender : prio[t] = prio[u] => t = u
  /\ NoSemaphore \notin Sender
  /\ ETH_TXBUFNB \in Nat /\ ETH_TXBUFNB > 0
  /\ MaxFrames \in Nat

VARIABLES
  xTxSemaphore,    \* the semaphore, named by the task that created it
  count,           \* count[s]: 0 or 1
  pc,              \* where each task is in low_level_output
  waits,           \* the semaphore a task has asked for
  frame,           \* the frame a task transmits
  calls,           \* number of the last call, bounded by MaxFrames
  own, buf,        \* OWN bit and content of each descriptor
  toSet,           \* DMATxDescToSet
  dmaNext,         \* the descriptor DMA looks at next
  tbus,            \* DMASR.TBUS: DMA is suspended
  queue            \* ghost: frames given to DMA and not sent yet

semVars == <<xTxSemaphore, count>>
taskVars == <<pc, waits, frame, calls>>
ringVars == <<own, buf, toSet, dmaNext, tbus, queue>>
vars == <<semVars, taskVars, ringVars>>

Desc == 0 .. ETH_TXBUFNB - 1

NextDescMutant(i) == i + 1       \* mutant: the chain is not closed

(* Buffer2NextDescAddr, set up by ETH_DMATxDescChainInit. *)
NextDesc(i) == IF i = ETH_TXBUFNB - 1 THEN 0 ELSE i + 1

Init ==
  /\ xTxSemaphore = NoSemaphore /\ count = [s \in Sender |-> 0]
  /\ pc = [t \in Sender |-> "idle"] /\ waits = [t \in Sender |-> NoSemaphore]
  /\ frame = [t \in Sender |-> 0] /\ calls = 0
  /\ own = [i \in Desc |-> "cpu"] /\ buf = [i \in Desc |-> 0]
  /\ toSet = 0 /\ dmaNext = 0 /\ tbus = FALSE /\ queue = <<>>

(* The scheduler (external): t runs when no task of higher priority can.   *)
Ready(t) == pc[t] # "idle" /\ (pc[t] = "take" => count[waits[t]] = 1)
Runs(t) == \A u \in Sender : prio[u] > prio[t] => ~Ready(u)

At(t, place) == pc[t] = place /\ Runs(t)
Goto(t, place) == pc' = [pc EXCEPT ![t] = place]

-----------------------------------------------------------------------------
Call(t) ==
  /\ At(t, "idle") /\ calls < MaxFrames
  /\ calls' = calls + 1 /\ frame' = [frame EXCEPT ![t] = calls']
  /\ Goto(t, IF xTxSemaphore = NoSemaphore THEN "create" ELSE "ask")
  /\ UNCHANGED <<semVars, waits, ringVars>>

(* vSemaphoreCreateBinary creates the semaphore empty, then gives it.  A   *)
(* semaphore that was there already is lost.                               *)
CreateSemaphore(t) ==
  /\ At(t, "create")
  /\ xTxSemaphore' = t /\ count' = [count EXCEPT ![t] = 0]
  /\ Goto(t, "created")
  /\ UNCHANGED <<waits, frame, calls, ringVars>>

GiveCreated(t) ==
  /\ At(t, "created")
  /\ count' = [count EXCEPT ![xTxSemaphore] = 1]
  /\ Goto(t, "ask")
  /\ UNCHANGED <<xTxSemaphore, waits, frame, calls, ringVars>>

(* xSemaphoreTake: it gets the semaphore, or returns after                 *)
(* netifGUARD_BLOCK_TIME.                                                  *)
AskSemaphore(t) ==
  /\ At(t, "ask")
  /\ waits' = [waits EXCEPT ![t] = xTxSemaphore]
  /\ Goto(t, "take")
  /\ UNCHANGED <<semVars, frame, calls, ringVars>>

TakeSemaphoreMutant(t) ==        \* mutant: xSemaphoreTake is not waited for
  /\ At(t, "take")
  /\ Goto(t, "copy")
  /\ UNCHANGED <<semVars, waits, frame, calls, ringVars>>

TakeSemaphore(t) ==
  /\ At(t, "take") /\ count[waits[t]] = 1
  /\ count' = [count EXCEPT ![waits[t]] = 0]
  /\ Goto(t, "copy")
  /\ UNCHANGED <<xTxSemaphore, waits, frame, calls, ringVars>>

TakeTimesOut(t) ==
  /\ pc[t] = "take" /\ count[waits[t]] = 0
  /\ Goto(t, "idle")
  /\ UNCHANGED <<semVars, waits, frame, calls, ringVars>>

CopyFrameMutant(t) ==            \* mutant: OWN is not looked at
  /\ At(t, "copy")
  /\ buf' = [buf EXCEPT ![toSet] = frame[t]] /\ Goto(t, "prepare")
  /\ UNCHANGED <<semVars, waits, frame, calls, own, toSet, dmaNext, tbus, queue>>

(* A descriptor is free, or the frame is dropped (goto error). *)
CopyFrame(t) ==
  /\ At(t, "copy")
  /\ IF own[toSet] = "dma"
     THEN Goto(t, "give") /\ UNCHANGED buf
     ELSE Goto(t, "prepare") /\ buf' = [buf EXCEPT ![toSet] = frame[t]]
  /\ UNCHANGED <<semVars, waits, frame, calls, own, toSet, dmaNext, tbus, queue>>

(* ETH_Prepare_Transmit_Descriptors up to the TBUS flag, and from there.   *)
PrepareDescriptor(t) ==
  /\ At(t, "prepare")
  /\ IF own[toSet] = "dma"
     THEN Goto(t, "give") /\ UNCHANGED <<own, toSet, queue>>
     ELSE /\ own' = [own EXCEPT ![toSet] = "dma"] /\ toSet' = NextDesc(toSet)
          /\ queue' = Append(queue, frame[t])
          /\ Goto(t, "resume")
  /\ UNCHANGED <<semVars, waits, frame, calls, buf, dmaNext, tbus>>

ResumeDmaMutant(t) ==            \* mutant: DMA is not told to resume
  /\ At(t, "resume")
  /\ Goto(t, "give")
  /\ UNCHANGED <<semVars, waits, frame, calls, ringVars>>

ResumeDma(t) ==
  /\ At(t, "resume")
  /\ tbus' = FALSE
  /\ Goto(t, "give")
  /\ UNCHANGED <<semVars, waits, frame, calls, own, buf, toSet, dmaNext, queue>>

GiveSemaphore(t) ==
  /\ At(t, "give")
  /\ count' = [count EXCEPT ![xTxSemaphore] = 1]
  /\ Goto(t, "idle")
  /\ UNCHANGED <<xTxSemaphore, waits, frame, calls, ringVars>>

LowLevelOutput(t) ==
  \/ CreateSemaphore(t) \/ GiveCreated(t) \/ AskSemaphore(t)
  \/ TakeSemaphore(t) \/ TakeTimesOut(t) \/ CopyFrame(t)
  \/ PrepareDescriptor(t) \/ ResumeDma(t) \/ GiveSemaphore(t)

(* The transmit DMA (external hardware). *)
DmaSends ==
  /\ ~tbus /\ own[dmaNext] = "dma"
  /\ own' = [own EXCEPT ![dmaNext] = "cpu"] /\ dmaNext' = NextDesc(dmaNext)
  /\ queue' = Tail(queue)
  /\ UNCHANGED <<semVars, taskVars, buf, toSet, tbus>>

DmaSuspends ==
  /\ ~tbus /\ own[dmaNext] = "cpu"
  /\ tbus' = TRUE
  /\ UNCHANGED <<semVars, taskVars, own, buf, toSet, dmaNext, queue>>

Dma == DmaSends \/ DmaSuspends

Next == Dma \/ \E t \in Sender : Call(t) \/ LowLevelOutput(t)

(* DMA moves on, and a task that may run does.  Calls need not be made.    *)
Spec == Init /\ [][Next]_vars
FairSpec ==
  Spec /\ WF_vars(Dma) /\ \A t \in Sender : WF_vars(LowLevelOutput(t))

-----------------------------------------------------------------------------
TypeOK ==
  /\ xTxSemaphore \in Sender \cup {NoSemaphore} /\ count \in [Sender -> {0, 1}]
  /\ pc \in [Sender -> {"idle", "create", "created", "ask", "take", "copy",
                        "prepare", "resume", "give"}]
  /\ waits \in [Sender -> Sender \cup {NoSemaphore}]
  /\ frame \in [Sender -> Nat] /\ calls \in Nat
  /\ own \in [Desc -> {"dma", "cpu"}] /\ buf \in [Desc -> Nat]
  /\ toSet \in Desc /\ dmaNext \in Desc
  /\ queue \in Seq(Nat)

Sends(t) == pc[t] \in {"copy", "prepare", "resume", "give"}

(* One task at a time works on the ring, although several may find that    *)
(* xTxSemaphore is NULL and each creates a semaphore of its own.  What     *)
(* saves the code is that their priorities differ.                         *)
OneSender == \A t, u \in Sender : Sends(t) /\ Sends(u) => t = u

Place(k) ==
  IF dmaNext + k >= ETH_TXBUFNB THEN dmaNext + k - ETH_TXBUFNB ELSE dmaNext + k

(* DMA sends the frames it was given, whole and in order: its descriptors  *)
(* hold them from the next one to send up to DMATxDescToSet, and no task   *)
(* writes to any of them.                                                  *)
QueueInRing ==
  /\ Len(queue) \in 0 .. ETH_TXBUFNB /\ toSet = Place(Len(queue))
  /\ \A k \in 0 .. ETH_TXBUFNB - 1 :
       /\ own[Place(k)] = "dma" <=> k < Len(queue)
       /\ k < Len(queue) => buf[Place(k)] = queue[k + 1]

(* A suspended DMA with frames to send is about to be resumed. *)
TransmissionGoesOn ==
  tbus /\ queue # <<>> => \E t \in Sender : pc[t] = "resume"

(* A frame given to DMA leaves. *)
FramesLeave ==
  \A n \in 1 .. MaxFrames :
    (\E k \in DOMAIN queue : queue[k] = n) ~> (\A k \in DOMAIN queue : queue[k] # n)
=============================================================================
