----------------------------- MODULE SdTransfer -----------------------------
(***************************************************************************)
(* Block transfers of the SD card driver bsp_sdio.c in DMA mode: a task    *)
(* starts an operation, waits for its end and polls the card, as the       *)
(* programming model in the driver's header says, while the SDIO           *)
(* peripheral, the DMA stream and the card go on by themselves and their   *)
(* two interrupts set the flags the task looks at.                         *)
(*                                                                         *)
(* An interrupt is taken as soon as its flag is up: both are above the     *)
(* task, which runs no critical section. The wait loops count from the     *)
(* same number as the data timer of SDIO, whose clock is faster than a     *)
(* turn of the loop is long: they run out only when SDIO is not at work.   *)
(***************************************************************************)
EXTENDS Naturals, Sequences

CONSTANTS
  MULTI,        \* bound: blocks of a multiple block operation
  Ops,          \* operations the task uses
  Kinds,        \* kinds of cards that are put in
  MayFail,      \* commands that may be lost, refused or badly answered
  MayUnderrun,  \* whether DMA may fail to feed a write
  Habits        \* what the task may do after a failed start: TRUE: wait

ASSUME SdConstants ==
  /\ MULTI \in Nat \ {0} /\ Ops \subseteq {"read1", "readN", "write1", "writeN"}
  /\ Kinds \subseteq {"V1", "V2", "HC"}
  /\ MayUnderrun \in BOOLEAN /\ Habits \subseteq BOOLEAN

VARIABLES
  DMAEndOfTransfer, TransferEnd, TransferError, StopCondition, CardType,
  mask, sta,            \* SDIO: interrupts enabled, status flags that are up
  dpsm, dcount, fifo,   \* SDIO: data path (RXACT, TXACT), blocks to go, FIFO
  dma, tcif,            \* stream: direction armed, transfer complete flag
  card, kind,           \* the card's state and kind
  pc, op, step,         \* the task: place, operation, step of its start
  waits,                \* the task waits after a failed start too
  errorstatus,          \* what the wait function has found so far
  begun,                \* ghost: the start returned SD_OK
  status,               \* ghost: what the wait function returned
  moved,                \* ghost: blocks of the operation that reached their goal
  answered              \* ghost: CMD8 was answered in the last SD_Init

flagVars == <<DMAEndOfTransfer, TransferEnd, TransferError, StopCondition>>
sdioVars == <<mask, sta>>
dataVars == <<dpsm, dcount, fifo, dma, tcif, moved>>
typeVars == <<CardType, answered>>
cardVars == <<card, kind, typeVars>>
ghostVars == <<begun, status>>
taskVars == <<waits, pc, op, step, errorstatus, ghostVars>>
vars == <<flagVars, sdioVars, dataVars, cardVars, taskVars>>

Multi(o) == o \in {"readN", "writeN"}
Blocks(o) == IF Multi(o) THEN MULTI ELSE 1
Dir(o) == IF o \in {"read1", "readN"} THEN "rx" ELSE "tx"
DataErrors == {"DCRCFAIL", "DTIMEOUT", "RXOVERR", "TXUNDERR", "STBITERR"}

(* The flags SDIO_STATIC_FLAGS (0x5FF) clears; STBITERR is not among them. *)
StaticFlags == (DataErrors \cup {"DATAEND"}) \ {"STBITERR"}

(* The interrupts an operation enables. *)
Interrupts(o) ==
  {"DATAEND", "DCRCFAIL", "DTIMEOUT", "STBITERR"}
    \cup (IF o = "writeN" THEN {"TXUNDERR"} ELSE {"RXOVERR"})

(* What an operation does after arming: its commands, by number, and where *)
(* it enables the data path.                                               *)
Program(o) ==
  CASE o = "read1"  -> <<"CMD16", "DATA", "CMD17">>
    [] o = "readN"  -> <<"CMD16", "DATA", "CMD18">>
    [] o = "write1" -> <<"CMD16", "CMD24", "DATA">>
    [] o = "writeN" -> <<"CMD16", "CMD55", "CMD23", "CMD25", "DATA">>

(* The card: the states in which it obeys a command, and the state after.  *)
Legal(c) ==
  CASE c = "CMD12" -> card \in {"dataN", "rcvN"}
    [] c = "CMD13" -> card # "off"
    [] OTHER -> card = "tran"
After(c) ==
  CASE c = "CMD17" -> "data1"
    [] c = "CMD18" -> "dataN"
    [] c = "CMD24" -> "rcv1"
    [] c = "CMD25" -> "rcvN"
    [] c = "CMD12" -> IF card = "rcvN" THEN "prg" ELSE "tran"
    [] OTHER -> card

(* SDIO_SendCommand and CmdResp1Error: ok says whether the response is     *)
(* good. A response of the right number clears the static flags.           *)
Command(c, ok) ==
  /\ \/ Legal(c) /\ (ok \/ c \in MayFail) /\ card' = After(c)
     \/ (~Legal(c) \/ c \in MayFail) /\ ~ok /\ card' = card
  /\ sta' \in {sta \ StaticFlags} \cup (IF ok THEN {} ELSE {sta})

(* No interrupt is due. *)
Quiet == sta \cap mask = {} /\ ~tcif
At(place) == pc = place /\ Quiet

Init ==
  /\ DMAEndOfTransfer = FALSE /\ TransferEnd = FALSE /\ TransferError = "none"
  /\ StopCondition = FALSE /\ CardType = "V1" /\ answered = FALSE
  /\ mask = {} /\ sta = {}
  /\ dpsm = "off" /\ dcount = 0 /\ fifo = 0 /\ dma = "off" /\ tcif = FALSE /\ moved = 0
  /\ card = "off" /\ kind \in Kinds
  /\ waits \in Habits /\ pc = "idle" /\ op \in Ops /\ step = 1
  /\ errorstatus = FALSE /\ begun = TRUE /\ status = "none"

-----------------------------------------------------------------------------
InitCardMutant ==                \* mutant: the answer to CMD8 is not used
  /\ At("idle") /\ card = "off"
  /\ \E cmd8, done \in BOOLEAN :
       /\ cmd8 => kind # "V1"
       /\ kind = "HC" /\ done => cmd8
       /\ CardType' = IF kind = "HC" /\ done THEN "HC" ELSE CardType
       /\ card' = IF done THEN "tran" ELSE "off"
       /\ answered' = cmd8
  /\ mask' = {} /\ sta' = {} /\ dpsm' = "off" /\ dcount' = 0 /\ fifo' = 0
  /\ UNCHANGED <<flagVars, dma, tcif, moved, kind, taskVars>>

(* SD_Init, which polls all along: SDIO is reset. Cards of version 2       *)
(* answer CMD8, unless it is lost, which SD_PowerON takes for version 1    *)
(* and leaves CardType as it was. A card of high capacity gets ready only  *)
(* for a host that has heard the answer; ACMD41 then corrects CardType.    *)
(* Any other command may fail too, and ends the initialisation.            *)
InitCard ==
  /\ At("idle") /\ card = "off"
  /\ \E cmd8, done \in BOOLEAN :
       /\ cmd8 => kind # "V1"
       /\ kind = "HC" /\ done => cmd8
       /\ CardType' \in IF ~cmd8 THEN {CardType} ELSE IF done THEN {kind} ELSE {"V2", kind}
       /\ card' = IF done THEN "tran" ELSE "off"
       /\ answered' = cmd8
  /\ mask' = {} /\ sta' = {} /\ dpsm' = "off" /\ dcount' = 0 /\ fifo' = 0
  /\ UNCHANGED <<flagVars, dma, tcif, moved, kind, taskVars>>

(* Another card is put in. *)
ChangeCard ==
  /\ pc = "idle" /\ card # "off"
  /\ card' = "off" /\ kind' \in Kinds
  /\ UNCHANGED <<flagVars, sdioVars, dataVars, typeVars, taskVars>>

(* SD_ReadBlock, SD_ReadMultiBlocks, SD_WriteBlock, SD_WriteMultiBlocks.   *)
(* The flags are reset, all but DMAEndOfTransfer. *)
Begin(o) ==
  /\ At("idle") /\ card # "off"
  /\ TransferError' = "none" /\ TransferEnd' = FALSE /\ StopCondition' = Multi(o)
  /\ op' = o /\ pc' = "disable"
  /\ UNCHANGED <<DMAEndOfTransfer, sdioVars, dataVars, cardVars, waits, step,
                 errorstatus, ghostVars>>

(* SDIO->DCTRL = 0 *)
Disable ==
  /\ At("disable")
  /\ dpsm' = "off" /\ dcount' = 0 /\ fifo' = 0 /\ pc' = "arm"
  /\ UNCHANGED <<flagVars, sdioVars, dma, tcif, moved, cardVars, waits, op,
                 step, errorstatus, ghostVars>>

(* SDIO_ITConfig, SD_LowLevel_DMA_RxConfig or TxConfig, SDIO_DMACmd. *)
Arm ==
  /\ At("arm")
  /\ mask' = mask \cup Interrupts(op)
  /\ dma' = Dir(op) /\ tcif' = FALSE /\ moved' = 0
  /\ pc' = "start" /\ step' = 1
  /\ UNCHANGED <<flagVars, sta, dpsm, dcount, fifo, cardVars, waits, op,
                 errorstatus, ghostVars>>

(* SDIO_DataConfig enables the data path. *)
DataConfig ==
  /\ dpsm' = Dir(op) /\ dcount' = Blocks(op) /\ fifo' = 0
  /\ UNCHANGED <<sta, card>>

StartStepMutant ==               \* mutant: one step too many
  /\ At("start")
  /\ \E ok \in BOOLEAN :
       /\ IF Program(op)[step] = "DATA" THEN ok /\ DataConfig
          ELSE Command(Program(op)[step], ok) /\ UNCHANGED <<dpsm, dcount, fifo>>
       /\ step' = IF ok /\ step <= Len(Program(op)) THEN step + 1 ELSE 1
       /\ begun' = ok
       /\ pc' = IF ok THEN IF step < Len(Program(op)) THEN "start" ELSE "wait"
                ELSE IF waits THEN "wait" ELSE "idle"
  /\ UNCHANGED <<flagVars, mask, dma, tcif, moved, kind, typeVars,
                 waits, op, errorstatus, status>>

(* The next step of the start. After the last, and in the programming      *)
(* model of the header also after a failure, the task goes on to wait.     *)
StartStep ==
  /\ At("start")
  /\ \E ok \in BOOLEAN :
       /\ IF Program(op)[step] = "DATA" THEN ok /\ DataConfig
          ELSE Command(Program(op)[step], ok) /\ UNCHANGED <<dpsm, dcount, fifo>>
       /\ step' = IF ok /\ step < Len(Program(op)) THEN step + 1 ELSE 1
       /\ begun' = ok
       /\ pc' = IF ok THEN IF step < Len(Program(op)) THEN "start" ELSE "wait"
                ELSE IF waits THEN "wait" ELSE "idle"
  /\ UNCHANGED <<flagVars, mask, dma, tcif, moved, kind, typeVars,
                 waits, op, errorstatus, status>>

-----------------------------------------------------------------------------
(* SD_WaitReadOperation, SD_WaitWriteOperation *)

(* The first loop ends, perhaps because timeout ran out. *)
LoopEnds ==
  /\ At("wait")
  /\ DMAEndOfTransfer \/ TransferEnd \/ TransferError # "none" \/ dpsm = "off"
  /\ pc' = "clear"
  /\ UNCHANGED <<flagVars, sdioVars, dataVars, cardVars, waits, op, step, errorstatus, ghostVars>>

ClearDmaEnd ==
  /\ At("clear")
  /\ DMAEndOfTransfer' = FALSE /\ pc' = "active"
  /\ UNCHANGED <<TransferEnd, TransferError, StopCondition, sdioVars, dataVars, cardVars,
                 waits, op, step, errorstatus, ghostVars>>

ActiveEndsMutant ==              \* mutant: RXACT and TXACT are not waited for
  /\ At("active")
  /\ errorstatus' = FALSE /\ pc' = IF StopCondition THEN "stop" ELSE "finish"
  /\ UNCHANGED <<flagVars, sdioVars, dataVars, cardVars, waits, op, step, begun, status>>

(* The second loop ends: RXACT, of a write TXACT, is down. *)
ActiveEnds ==
  /\ At("active") /\ dpsm # Dir(op)
  /\ errorstatus' = FALSE /\ pc' = IF StopCondition THEN "stop" ELSE "finish"
  /\ UNCHANGED <<flagVars, sdioVars, dataVars, cardVars, waits, op, step, begun, status>>

StopTransferMutant ==            \* mutant: CMD12 after an error only
  /\ At("stop")
  /\ IF TransferError # "none"
     THEN \E ok \in BOOLEAN : Command("CMD12", ok) /\ errorstatus' = ~ok
     ELSE UNCHANGED <<sta, card, errorstatus>>
  /\ StopCondition' = FALSE /\ pc' = "finish"
  /\ UNCHANGED <<DMAEndOfTransfer, TransferEnd, TransferError, mask, dataVars,
                 kind, typeVars, waits, op, step, begun, status>>

(* SD_StopTransfer *)
StopTransfer ==
  /\ At("stop")
  /\ \E ok \in BOOLEAN : Command("CMD12", ok) /\ errorstatus' = ~ok
  /\ StopCondition' = FALSE /\ pc' = "finish"
  /\ UNCHANGED <<DMAEndOfTransfer, TransferEnd, TransferError, mask, dataVars,
                 kind, typeVars, waits, op, step, begun, status>>

FinishMutant ==                  \* mutant: only the error of CMD12 is returned
  /\ At("finish")
  /\ sta' = sta \ StaticFlags
  /\ status' = IF errorstatus THEN "CMD12" ELSE "none"
  /\ pc' = "poll"
  /\ UNCHANGED <<flagVars, mask, dataVars, cardVars, waits, op, step, errorstatus, begun>>

(* The static flags are cleared and the result is returned. *)
Finish ==
  /\ At("finish")
  /\ sta' = sta \ StaticFlags
  /\ status' = IF TransferError # "none" THEN TransferError
               ELSE IF errorstatus THEN "CMD12" ELSE "none"
  /\ pc' = "poll"
  /\ UNCHANGED <<flagVars, mask, dataVars, cardVars, waits, op, step, errorstatus, begun>>

(* while (SD_GetStatus() != SD_TRANSFER_OK) *)
PollStatus ==
  /\ At("poll")
  /\ \E ok \in BOOLEAN :
       Command("CMD13", ok) /\ pc' = IF ok /\ card = "tran" THEN "idle" ELSE "poll"
  /\ UNCHANGED <<flagVars, mask, dataVars, kind, typeVars, waits, op, step,
                 errorstatus, ghostVars>>

-----------------------------------------------------------------------------
(* Interrupts *)

(* SD_ProcessIRQSrc looks at the flags, enabled or not, the end first, and *)
(* disables all interrupts.                                                *)
SdioIrq ==
  /\ sta \cap mask # {}
  /\ IF "DATAEND" \in sta
     THEN TransferError' = "none" /\ TransferEnd' = TRUE /\ sta' = sta \ {"DATAEND"}
     ELSE \E f \in sta \cap DataErrors : TransferError' = f /\ sta' = sta \ {f}
                                         /\ TransferEnd' = TransferEnd
  /\ mask' = {}
  /\ UNCHANGED <<DMAEndOfTransfer, StopCondition, dataVars, cardVars, taskVars>>

(* SD_ProcessDMAIRQ *)
DmaIrq ==
  /\ tcif
  /\ tcif' = FALSE /\ DMAEndOfTransfer' = TRUE
  /\ UNCHANGED <<TransferEnd, TransferError, StopCondition, sdioVars, dpsm, dcount, fifo,
                 dma, moved, cardVars, taskVars>>

-----------------------------------------------------------------------------
(* SDIO, the DMA stream and the card *)

Raise(f) == sta' = sta \cup {f}

(* A block comes from the card into the FIFO. *)
BlockReceived ==
  /\ dpsm = "rx" /\ card \in {"data1", "dataN"} /\ dcount > 0
  /\ dcount' = dcount - 1 /\ fifo' = fifo + 1
  /\ card' = IF card = "data1" THEN "tran" ELSE card
  /\ IF dcount = 1 THEN Raise("DATAEND") ELSE UNCHANGED sta
  /\ UNCHANGED <<flagVars, mask, dpsm, dma, tcif, moved, kind, typeVars, taskVars>>

(* Nothing listens to the block of the card. *)
BlockUnheard ==
  /\ card = "data1" /\ dpsm # "rx"
  /\ card' = "tran"
  /\ UNCHANGED <<flagVars, sdioVars, dataVars, kind, typeVars, taskVars>>

(* DMA takes a block from the FIFO to the memory. With the last one RXACT  *)
(* goes down and the stream is complete.                                   *)
DmaStores ==
  /\ dpsm = "rx" /\ dma = "rx" /\ fifo > 0
  /\ fifo' = fifo - 1 /\ moved' = moved + 1
  /\ IF dcount = 0 /\ fifo = 1
     THEN dpsm' = "off" /\ dma' = "off" /\ tcif' = TRUE
     ELSE UNCHANGED <<dpsm, dma, tcif>>
  /\ UNCHANGED <<flagVars, sdioVars, dcount, cardVars, taskVars>>

(* DMA takes a block from the memory to the FIFO, perhaps the last. *)
DmaFills ==
  /\ dpsm = "tx" /\ dma = "tx" /\ fifo < dcount
  /\ fifo' = fifo + 1
  /\ IF fifo' = dcount THEN dma' = "off" /\ tcif' = TRUE ELSE UNCHANGED <<dma, tcif>>
  /\ UNCHANGED <<flagVars, sdioVars, dpsm, dcount, moved, cardVars, taskVars>>

(* A block goes from the FIFO to the card. With the last one TXACT goes    *)
(* down.                                                                   *)
BlockSent ==
  /\ dpsm = "tx" /\ card \in {"rcv1", "rcvN"} /\ fifo > 0
  /\ fifo' = fifo - 1 /\ dcount' = dcount - 1 /\ moved' = moved + 1
  /\ card' = IF card = "rcv1" THEN "prg" ELSE card
  /\ IF dcount = 1 THEN Raise("DATAEND") /\ dpsm' = "off" ELSE UNCHANGED <<sta, dpsm>>
  /\ UNCHANGED <<flagVars, mask, dma, tcif, kind, typeVars, taskVars>>

(* The transfer of a block fails: the data path stops. *)
TransferFails ==
  /\ dpsm # "off" /\ dcount > 0 /\ card \in {"data1", "dataN", "rcv1", "rcvN"}
  /\ \E f \in {"DCRCFAIL", "DTIMEOUT", "STBITERR"} \cup
              (IF dpsm = "rx" THEN {"RXOVERR"} ELSE IF MayUnderrun THEN {"TXUNDERR"} ELSE {}) :
       Raise(f)
  /\ dpsm' = "off" /\ fifo' = 0
  /\ card' = IF card \in {"data1", "rcv1"} THEN "tran" ELSE card
  /\ UNCHANGED <<flagVars, mask, dcount, dma, tcif, moved, kind, typeVars, taskVars>>

(* The card sends nothing: the data timer runs out. *)
DataTimeout ==
  /\ dpsm = "rx" /\ dcount > 0 /\ card \notin {"data1", "dataN"}
  /\ Raise("DTIMEOUT") /\ dpsm' = "off" /\ fifo' = 0
  /\ UNCHANGED <<flagVars, mask, dcount, dma, tcif, moved, cardVars, taskVars>>

(* The card has programmed what it received. *)
Programmed ==
  /\ card = "prg" /\ card' = "tran"
  /\ UNCHANGED <<flagVars, sdioVars, dataVars, kind, typeVars, taskVars>>

-----------------------------------------------------------------------------
Wait == LoopEnds \/ ClearDmaEnd \/ ActiveEnds \/ StopTransfer \/ Finish \/ PollStatus
Start == Disable \/ Arm \/ StartStep
Hardware ==
  \/ BlockReceived \/ BlockUnheard \/ DmaStores \/ DmaFills \/ BlockSent
  \/ TransferFails \/ DataTimeout \/ Programmed

Next ==
  \/ InitCard \/ ChangeCard \/ (\E o \in Ops : Begin(o))
  \/ Start \/ Wait
  \/ SdioIrq \/ DmaIrq
  \/ Hardware

Spec == Init /\ [][Next]_vars

(* The task runs, interrupts are taken, card and DMA do their work. *)
FairSpec ==
  /\ Spec /\ WF_vars(Start) /\ WF_vars(Wait) /\ WF_vars(SdioIrq) /\ WF_vars(DmaIrq)
  /\ WF_vars(Hardware)

-----------------------------------------------------------------------------
TypeOK ==
  /\ DMAEndOfTransfer \in BOOLEAN /\ TransferEnd \in BOOLEAN /\ StopCondition \in BOOLEAN
  /\ TransferError \in DataErrors \cup {"none"}
  /\ CardType \in {"V1", "V2", "HC"} /\ answered \in BOOLEAN
  /\ mask \subseteq DataErrors \cup {"DATAEND"} /\ sta \subseteq DataErrors \cup {"DATAEND"}
  /\ dpsm \in {"off", "rx", "tx"} /\ dma \in {"off", "rx", "tx"} /\ tcif \in BOOLEAN
  /\ dcount \in Nat /\ fifo \in Nat /\ moved \in Nat
  /\ card \in {"off", "tran", "data1", "dataN", "rcv1", "rcvN", "prg"} /\ kind \in Kinds
  /\ pc \in {"idle", "disable", "arm", "start", "wait", "clear", "active", "stop",
             "finish", "poll"}
  /\ waits \in BOOLEAN /\ op \in Ops /\ step \in 1 .. Len(Program(op))
  /\ errorstatus \in BOOLEAN /\ begun \in BOOLEAN
  /\ status \in DataErrors \cup {"none", "CMD12"}

(* After SD_OK from the start and from the wait every block is where it    *)
(* belongs, although the wait may have been ended by a flag that an        *)
(* earlier operation left up, and an error may have come after the end.    *)
OkMeansMoved ==
  pc = "poll" /\ begun /\ status = "none" => moved = Blocks(op)

(* What the task polls for has happened in full, in the documented         *)
(* programming model, where only the result of the wait is looked at.      *)
StatusMeansMoved ==
  pc = "poll" /\ status = "none" => moved = Blocks(op)

(* When the wait has returned, nothing reads or writes the caller's buffer *)
(* any more, whether or not the operation succeeded.                       *)
BufferReleased ==
  pc \in {"poll", "idle"} /\ (begun \/ waits) => dpsm = "off"

(* The wait leaves no multiple block transfer open on the card.            *)
TransferClosed == pc = "poll" => card \notin {"dataN", "rcvN"}

(* A card in use is addressed in its own unit, blocks or bytes, whichever  *)
(* cards were in before it and whichever commands of SD_Init were lost. A  *)
(* card of high capacity always is. Any other may be taken for the card    *)
(* before it, but only when CMD8 had no answer, for nothing else resets    *)
(* CardType.                                                               *)
AddressUnit ==
  card # "off" =>
    /\ kind = "HC" => CardType = "HC"
    /\ CardType = "HC" /\ answered => kind = "HC"

(* Every operation ends, with the card ready for the next one.             *)
OperationsEnd == pc # "idle" ~> (pc = "idle" /\ (begun \/ waits => card \in {"tran", "off"}))
=============================================================================
