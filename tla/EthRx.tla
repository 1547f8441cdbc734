-------------------------------- MODULE EthRx --------------------------------
(***************************************************************************)
(* The Ethernet receive path: the DMA that fills the ring of descriptors   *)
(* DMARxDscrTab, ETH_IRQHandler that gives the binary semaphore, and the   *)
(* task ethernetif_input that empties the ring.  The three run             *)
(* concurrently; an action is what one of them does between two accesses   *)
(* to what they share (OWN bits, DMASR flags, the semaphore).              *)
(*                                                                         *)
(* Descriptors are numbered from 1 in the order in which DMA fills them;   *)
(* a frame has the number of its first one.  The watchdog of the MAC cuts  *)
(* frames at 2048 bytes, so that none has more than two descriptors.       *)
(***************************************************************************)
EXTENDS Integers

CONSTANTS
  ETH_RXBUFNB,     \* descriptors in the ring
  MaxFrames,       \* bound: frames that arrive
  LongFrames,      \* frames longer than ETH_RX_BUF_SIZE arrive too
  MayLackPbuf,     \* pbuf_alloc may fail
  MayRefuse        \* netif->input (tcpip_input) may return an error

ASSUME EthConstants ==
  /\ ETH_RXBUFNB \in Nat /\ ETH_RXBUFNB > 1
  /\ MaxFrames \in Nat
  /\ {LongFrames, MayLackPbuf, MayRefuse} \subseteq BOOLEAN

VARIABLES
  own,        \* own[i]: "dma" or "cpu", the OWN bit of descriptor i
  seg,        \* seg[i]: FS and LS bits: "first", "last" or "only" segment
  content,    \* content[i]: number of what is in the buffer of descriptor i
  dmaNext,    \* the descriptor DMA uses next
  suspended,  \* DMA found no descriptor: RBUS, waits for a demand to resume
  fifo,       \* "empty", "short" or "long": frame in the receive FIFO
  halfway,    \* DMA has stored the first segment of a long frame only
  stored,     \* ghost: descriptors DMA has filled
  arrived,    \* ghost: frames that arrived, bounded by MaxFrames
  failed,     \* ghost: a long frame came, or the task dropped a frame
  flagR,      \* DMASR.RS: receive interrupt pending
  isr,        \* "idle", or "clear" between giving and clearing the flag
  sem,        \* s_xSemaphore: 0 or 1
  pc,         \* where ethernetif_input is
  toGet,      \* DMARxDescToGet
  segCount,   \* DMA_RX_FRAME_infos->Seg_Count
  fsDesc,     \* DMA_RX_FRAME_infos->FS_Rx_Desc
  frame,      \* frame.descriptor of low_level_input, or NULL
  scanned,    \* descriptor_scan_counter
  p,          \* the frame copied to the pbuf, 0 for NULL
  released,   \* ghost: descriptors given back to DMA
  input,      \* ghost: last frame passed to the stack
  nullWrite   \* ghost: a descriptor at NULL was given back

hwVars == <<dmaNext, suspended, fifo, halfway, stored, arrived>>
dmaVars == <<hwVars, failed>>
ringVars == <<own, seg, content>>
isrVars == <<flagR, isr>>
taskVars == <<pc, toGet, segCount, fsDesc, frame, scanned, p, released, input,
              nullWrite>>
vars == <<ringVars, dmaVars, isrVars, sem, taskVars>>

Desc == 0 .. ETH_RXBUFNB - 1
NULL == ETH_RXBUFNB

NextDescMutant(i) == i + 1       \* mutant: the chain is not closed

(* Buffer2NextDescAddr, set up by ETH_DMARxDescChainInit. *)
NextDesc(i) == IF i = ETH_RXBUFNB - 1 THEN 0 ELSE i + 1

(* ETH_DMARxDescChainInit, low_level_init: the semaphore is created empty. *)
Init ==
  /\ own = [i \in Desc |-> "dma"]
  /\ seg = [i \in Desc |-> "only"] /\ content = [i \in Desc |-> 0]
  /\ dmaNext = 0 /\ suspended = FALSE /\ fifo = "empty" /\ halfway = FALSE
  /\ stored = 0 /\ arrived = 0 /\ failed = FALSE
  /\ flagR = FALSE /\ isr = "idle" /\ sem = 0
  /\ pc = "wait" /\ toGet = 0 /\ segCount = 0 /\ fsDesc = NULL
  /\ frame = NULL /\ scanned = 0 /\ p = 0 /\ released = 0 /\ input = 0
  /\ nullWrite = FALSE

-----------------------------------------------------------------------------
(* The MAC and its DMA (external hardware).                                *)

(* A frame reaches the FIFO.  It makes a suspended DMA look again.  A frame*)
(* that finds the FIFO occupied is lost.                                   *)
FrameArrives ==
  /\ arrived < MaxFrames /\ arrived' = arrived + 1
  /\ suspended' = FALSE
  /\ fifo' \in IF fifo # "empty" THEN {fifo}
               ELSE IF LongFrames THEN {"short", "long"} ELSE {"short"}
  /\ failed' = (failed \/ fifo' = "long")
  /\ UNCHANGED <<ringVars, dmaNext, halfway, stored, isrVars, sem, taskVars>>

(* Filling and closing descriptor dmaNext with these FS and LS bits. *)
Close(bits) ==
  /\ own' = [own EXCEPT ![dmaNext] = "cpu"]
  /\ seg' = [seg EXCEPT ![dmaNext] = bits]
  /\ content' = [content EXCEPT ![dmaNext] = stored + 1]
  /\ stored' = stored + 1
  /\ dmaNext' = NextDesc(dmaNext)

DmaSuspends ==
  /\ fifo # "empty" /\ ~suspended /\ ~halfway /\ own[dmaNext] = "cpu"
  /\ suspended' = TRUE
  /\ UNCHANGED <<ringVars, dmaNext, fifo, halfway, stored, arrived, failed,
                 isrVars, sem, taskVars>>

(* A frame that fits, or a long one cut short for want of a descriptor. *)
DmaStores ==
  /\ fifo # "empty" /\ ~suspended /\ ~halfway /\ own[dmaNext] = "dma"
  /\ fifo = "long" => own[NextDesc(dmaNext)] = "cpu"
  /\ Close("only")
  /\ fifo' = "empty" /\ flagR' = TRUE
  /\ UNCHANGED <<suspended, halfway, arrived, failed, isr, sem, taskVars>>

DmaStoresFirst ==
  /\ fifo = "long" /\ ~suspended /\ ~halfway
  /\ own[dmaNext] = "dma" /\ own[NextDesc(dmaNext)] = "dma"
  /\ Close("first")
  /\ halfway' = TRUE
  /\ UNCHANGED <<suspended, fifo, arrived, failed, isrVars, sem, taskVars>>

DmaStoresLast ==
  /\ halfway
  /\ Close("last")
  /\ halfway' = FALSE /\ fifo' = "empty" /\ flagR' = TRUE
  /\ UNCHANGED <<suspended, arrived, failed, isr, sem, taskVars>>

Dma ==
  FrameArrives \/ DmaSuspends \/ DmaStores \/ DmaStoresFirst \/ DmaStoresLast

-----------------------------------------------------------------------------
(* ETH_IRQHandler.  DMA goes on between the test of the flag and its       *)
(* clearing; the task does not, for the handler preempts it.               *)
IsrGives ==
  /\ isr = "idle" /\ flagR
  /\ sem' = 1 /\ isr' = "clear"
  /\ UNCHANGED <<ringVars, dmaVars, flagR, taskVars>>

IsrClears ==
  /\ isr = "clear"
  /\ flagR' = FALSE /\ isr' = "idle"
  /\ UNCHANGED <<ringVars, dmaVars, sem, taskVars>>

Isr == IsrGives \/ IsrClears

-----------------------------------------------------------------------------
(* ethernetif_input.  A timeout of xSemaphoreTake just waits again.        *)
TakeSemaphore ==
  /\ isr = "idle" /\ pc = "wait" /\ sem = 1
  /\ sem' = 0 /\ pc' = "scan" /\ scanned' = 0 /\ frame' = NULL /\ p' = 0
  /\ UNCHANGED <<ringVars, dmaVars, isrVars, toGet, segCount, fsDesc, released,
                 input, nullWrite>>

ScanSegmentMutant ==             \* mutant: OWN is not looked at
  /\ isr = "idle" /\ pc = "scan" /\ scanned < ETH_RXBUFNB
  /\ scanned' = scanned + 1 /\ toGet' = NextDesc(toGet)
  /\ segCount' = segCount + 1 /\ fsDesc' = toGet
  /\ frame' = fsDesc' /\ pc' = "copy"
  /\ UNCHANGED <<ringVars, dmaVars, isrVars, sem, p, released, input, nullWrite>>

(* ETH_Get_Received_Frame_interrupt looks at one descriptor after another. *)
ScanSegment ==
  /\ isr = "idle" /\ pc = "scan"
  /\ own[toGet] = "cpu" /\ scanned < ETH_RXBUFNB
  /\ scanned' = scanned + 1 /\ toGet' = NextDesc(toGet)
  /\ IF seg[toGet] = "first"
     THEN /\ fsDesc' = toGet /\ segCount' = 1
          /\ UNCHANGED <<pc, frame>>
     ELSE /\ segCount' = segCount + 1
          /\ fsDesc' = IF segCount = 0 THEN toGet ELSE fsDesc
          /\ frame' = fsDesc' /\ pc' = "copy"
  /\ UNCHANGED <<ringVars, dmaVars, isrVars, sem, p, released, input, nullWrite>>

ScanEnds ==
  /\ isr = "idle" /\ pc = "scan"
  /\ own[toGet] = "dma" \/ scanned = ETH_RXBUFNB
  /\ pc' = "release"
  /\ UNCHANGED <<ringVars, dmaVars, isrVars, sem, toGet, segCount, fsDesc,
                 frame, scanned, p, released, input, nullWrite>>

CopyFrame ==
  /\ isr = "idle" /\ pc = "copy"
  /\ \/ p' = content[frame] /\ UNCHANGED failed
     \/ MayLackPbuf /\ p' = 0 /\ failed' = TRUE
  /\ pc' = "release"
  /\ UNCHANGED <<ringVars, hwVars, isrVars, sem, toGet, segCount, fsDesc,
                 frame, scanned, released, input, nullWrite>>

(* One descriptor of the frame goes back to DMA; Buffer2NextDescAddr of a  *)
(* descriptor at NULL leads nowhere.                                       *)
ReleaseSegment ==
  /\ isr = "idle" /\ pc = "release" /\ segCount > 0
  /\ segCount' = segCount - 1
  /\ IF frame = NULL
     THEN nullWrite' = TRUE /\ UNCHANGED <<own, frame, released>>
     ELSE /\ own' = [own EXCEPT ![frame] = "dma"]
          /\ frame' = NextDesc(frame) /\ released' = released + 1
          /\ UNCHANGED nullWrite
  /\ UNCHANGED <<seg, content, dmaVars, isrVars, sem, pc, toGet, fsDesc,
                 scanned, p, input>>

ResumeDmaMutant ==               \* mutant: DMA is not told to resume
  /\ isr = "idle" /\ pc = "release" /\ segCount = 0
  /\ pc' = IF p = 0 THEN "wait" ELSE "input"
  /\ UNCHANGED <<ringVars, dmaVars, isrVars, sem, toGet, segCount, fsDesc,
                 frame, scanned, p, released, input, nullWrite>>

(* Seg_Count is 0; when RBUS is set DMA is told to resume. *)
ResumeDma ==
  /\ isr = "idle" /\ pc = "release" /\ segCount = 0
  /\ suspended' = FALSE
  /\ pc' = IF p = 0 THEN "wait" ELSE "input"
  /\ UNCHANGED <<ringVars, dmaNext, fifo, halfway, stored, arrived, failed,
                 isrVars, sem, toGet, segCount, fsDesc, frame, scanned, p, released,
                 input, nullWrite>>

InputAcceptsMutant ==            \* mutant: one frame per semaphore
  /\ isr = "idle" /\ pc = "input"
  /\ input' = p /\ pc' = "wait"
  /\ UNCHANGED <<ringVars, dmaVars, isrVars, sem, toGet, segCount, fsDesc,
                 frame, scanned, p, released, nullWrite>>

InputAccepts ==
  /\ isr = "idle" /\ pc = "input"
  /\ input' = p
  /\ pc' = "scan" /\ scanned' = 0 /\ frame' = NULL /\ p' = 0
  /\ UNCHANGED <<ringVars, dmaVars, isrVars, sem, toGet, segCount, fsDesc,
                 released, nullWrite>>

InputRefuses ==
  /\ MayRefuse /\ isr = "idle" /\ pc = "input"
  /\ pc' = "wait" /\ failed' = TRUE
  /\ UNCHANGED <<ringVars, hwVars, isrVars, sem, toGet, segCount, fsDesc,
                 frame, scanned, p, released, input, nullWrite>>

Task ==
  \/ TakeSemaphore \/ ScanSegment \/ ScanEnds \/ CopyFrame
  \/ ReleaseSegment \/ ResumeDma \/ InputAccepts \/ InputRefuses

Next == Dma \/ Isr \/ Task

(* Hardware moves on, the interrupt is taken, and the highest-priority     *)
(* task runs.  Frames need not arrive.                                     *)
Spec == Init /\ [][Next]_vars
FairSpec == Spec /\ WF_vars(Dma /\ ~FrameArrives) /\ WF_vars(Isr) /\ WF_vars(Task)

-----------------------------------------------------------------------------
TypeOK ==
  /\ own \in [Desc -> {"dma", "cpu"}]
  /\ seg \in [Desc -> {"only", "first", "last"}]
  /\ content \in [Desc -> Nat]
  /\ dmaNext \in Desc /\ toGet \in Desc
  /\ fsDesc \in Desc \cup {NULL} /\ frame \in Desc \cup {NULL}
  /\ segCount \in 0 .. 2 /\ scanned \in 0 .. ETH_RXBUFNB
  /\ sem \in {0, 1} /\ isr \in {"idle", "clear"}
  /\ pc \in {"wait", "scan", "copy", "release", "input"}
  /\ fifo \in {"empty", "short", "long"}
  /\ stored \in Nat /\ arrived \in Nat /\ p \in Nat /\ input \in Nat
  /\ released \in Nat

(* The descriptors filled and not yet given back: from the one the task is *)
(* working on, or will look at next, up to where DMA stores.               *)
Oldest ==
  IF segCount = 0 THEN toGet ELSE IF frame = NULL THEN fsDesc ELSE frame
Ahead(i, n) == IF i + n >= ETH_RXBUFNB THEN i + n - ETH_RXBUFNB ELSE i + n
Behind(i, j) == IF j >= i THEN j - i ELSE j - i + ETH_RXBUFNB
Held == stored - released

(* DMA and the task never work on the same descriptor: those owned by the  *)
(* CPU are the Held ones from Oldest on, they hold what came after the     *)
(* last one given back, in order, and DMA stores behind them.  In          *)
(* particular no buffer is overwritten between the scan that finds its     *)
(* frame and its release.  Like the next two properties this one ends when *)
(* the task gives back a descriptor at NULL, which the code does when it   *)
(* finds the first descriptor of a long frame before the second is stored. *)
RingWindow ==
  ~nullWrite =>
    /\ Held \in 0 .. ETH_RXBUFNB
    /\ dmaNext = Ahead(Oldest, Held)
    /\ \A i \in Desc : own[i] = "cpu" <=> Behind(Oldest, i) < Held
    /\ \A i \in Desc : Behind(Oldest, i) < Held =>
         content[i] = released + 1 + Behind(Oldest, i)

(* The stack gets frames in the order of their arrival, none twice. *)
InputInOrder == [][~nullWrite /\ input' # input => input' > input]_vars

(* When the task waits and nothing will wake it, DMA can store the next    *)
(* frame: reception never stops for good, whatever fails.                  *)
ReceptionGoesOn ==
  ~nullWrite /\ pc = "wait" /\ sem = 0 /\ ~flagR =>
    own[dmaNext] = "dma" /\ ~suspended

(* "This function is the ethernetif_input task, it is processed when a     *)
(* packet is ready to be read from the interface" (ethernetif.c:346): as   *)
(* long as every frame fits a buffer and none is dropped for want of       *)
(* memory or room, each one that DMA stores is passed to the stack.        *)
FramesReachStack ==
  \A n \in 1 .. MaxFrames : stored >= n ~> input >= n \/ failed

=============================================================================
