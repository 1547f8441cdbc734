-------------------------- MODULE SdTransfer_proofs --------------------------
(***************************************************************************)
(* Proofs about the block transfers of the SD card driver, for any number  *)
(* of blocks, any commands that may fail and any habit of the task.        *)
(***************************************************************************)
EXTENDS SdTransfer, TLAPS

Common == {"DATAEND", "DCRCFAIL", "DTIMEOUT", "STBITERR"}
Both == DataErrors \cup {"DATAEND"}

(* The types of the Boolean variables. *)
Switches ==
  /\ DMAEndOfTransfer \in BOOLEAN /\ TransferEnd \in BOOLEAN /\ StopCondition \in BOOLEAN
  /\ tcif \in BOOLEAN /\ errorstatus \in BOOLEAN /\ begun \in BOOLEAN
  /\ answered \in BOOLEAN

(* The step of a start that enables the data path. *)
DataStep(o) == IF o = "writeN" THEN 5 ELSE IF o = "write1" THEN 3 ELSE 2

(* Every status flag is enabled, up to its interrupt there is one only,    *)
(* and it is the last of its transfer.                                     *)
Flags ==
  /\ sta \subseteq mask
  /\ \A f, g \in sta : f = g
  /\ sta # {} => dpsm = "off" \/ dcount = 0

(* A transfer that goes on has its interrupts enabled. *)
Masked ==
  dpsm # "off" /\ dcount > 0 =>
    /\ Common \subseteq mask
    /\ dpsm = "rx" => "RXOVERR" \in mask
    /\ dpsm = "tx" /\ MayUnderrun /\ "write1" \notin Ops => "TXUNDERR" \in mask

(* Before its data path is enabled an operation has had no interrupt. *)
Armed ==
  /\ pc = "start" /\ step <= DataStep(op) =>
       Interrupts(op) \subseteq mask /\ sta = {} /\ dpsm = "off" /\ moved = 0
  /\ pc # "start" => step = 1

Direction ==
  /\ pc \notin {"idle", "disable"} => dpsm \in {"off", Dir(op)}
  /\ pc \in {"arm", "stop", "finish", "poll"} => dpsm = "off"
  /\ dpsm = "tx" => fifo <= dcount

Works == (pc = "start" /\ step > DataStep(op))
           \/ (begun /\ pc \in {"wait", "clear", "active", "stop", "finish"})

(* A transfer goes on, or is complete, or its error is known or about to   *)
(* be known, with no report of its end to hide it.                         *)
GoesOn == dpsm = Dir(op) /\ moved + dcount + (IF dpsm = "rx" THEN fifo ELSE 0) = Blocks(op)
Complete == dpsm = "off" /\ moved = Blocks(op)
Failed == dpsm = "off" /\ "DATAEND" \notin sta /\ (sta # {} \/ TransferError # "none")
Outcome == Works => GoesOn \/ Complete \/ Failed

(* The inductive invariant. *)
IInv ==
  TypeOK /\ Flags /\ Masked /\ Armed /\ Direction /\ Outcome /\ BufferReleased /\ OkMeansMoved
-----------------------------------------------------------------------------
(* The programs of the operations, and where each enables the data path.   *)
LEMMA Programs ==
  ASSUME NEW o \in Ops
  PROVE  /\ Len(Program(o)) \in Nat /\ DataStep(o) \in 1 .. Len(Program(o))
         /\ \A i \in 1 .. Len(Program(o)) :
              /\ Program(o)[i] = "DATA" <=> i = DataStep(o)
              /\ Program(o)[i] \notin {"CMD12", "CMD13"}
         /\ Dir(o) = "tx" => DataStep(o) = Len(Program(o))
         /\ Dir(o) \in {"rx", "tx"} /\ Blocks(o) \in Nat \ {0}
         /\ Interrupts(o) \subseteq Both /\ Common \subseteq Interrupts(o)
         /\ Dir(o) = "rx" => "RXOVERR" \in Interrupts(o)
         /\ Dir(o) = "tx" /\ o # "write1" => "TXUNDERR" \in Interrupts(o)
<1>1. o \in {"read1", "readN", "write1", "writeN"}
  BY SdConstants
<1>2. CASE o \in {"read1", "readN"}
  BY <1>2, SdConstants DEF Program, DataStep, Dir, Blocks, Multi, Interrupts, Common,
       Both, DataErrors
<1>3. CASE o = "write1"
  BY <1>3, SdConstants DEF Program, DataStep, Dir, Blocks, Multi, Interrupts, Common,
       Both, DataErrors
<1>4. CASE o = "writeN"
  BY <1>4, SdConstants DEF Program, DataStep, Dir, Blocks, Multi, Interrupts, Common,
       Both, DataErrors
<1> QED
  BY <1>1, <1>2, <1>3, <1>4

(* A command leaves no flag up that it found down. *)
LEMMA CommandKeeps ==
  ASSUME NEW c, NEW ok \in BOOLEAN, Command(c, ok), TypeOK
  PROVE  /\ sta' \subseteq sta
         /\ card' \in {"off", "tran", "data1", "dataN", "rcv1", "rcvN", "prg"}
  BY DEF Command, After, StaticFlags, TypeOK

-----------------------------------------------------------------------------
(* Every step keeps the inductive invariant. *)
LEMMA InitCardKeeps == ASSUME IInv, InitCard PROVE IInv'
  BY Programs, SdConstants DEF IInv, TypeOK, Flags, Masked, Armed, Direction, Outcome,
     Works, GoesOn, Complete, Failed, BufferReleased, OkMeansMoved, Common, DataErrors,
          Both, flagVars, sdioVars, dataVars, cardVars, typeVars, ghostVars, taskVars,
     InitCard,
          At, Quiet

LEMMA ChangeCardKeeps == ASSUME IInv, ChangeCard PROVE IInv'
  BY Programs, SdConstants DEF IInv, TypeOK, Flags, Masked, Armed, Direction, Outcome,
     Works, GoesOn, Complete, Failed, BufferReleased, OkMeansMoved, Common, DataErrors,
          Both, flagVars, sdioVars, dataVars, cardVars, typeVars, ghostVars, taskVars,
     ChangeCard

LEMMA BeginKeeps == ASSUME IInv, NEW o \in Ops, Begin(o) PROVE IInv'
<1> USE DEF IInv
<1> op \in Ops
  BY DEF TypeOK
<1>a. StopCondition' \in BOOLEAN
  <2>1. Multi(o) \in BOOLEAN
    BY DEF Multi
  <2> QED
    BY <2>1 DEF Begin
<1>b. op' = o /\ step' = step /\ step = 1 /\ step \in 1 .. Len(Program(o))
  BY Programs DEF Begin, At, Armed
<1>0. Switches'
  BY <1>a DEF Switches, TypeOK, Begin, flagVars, sdioVars, dataVars, cardVars,
     typeVars, ghostVars, taskVars
<1> USE DEF TypeOK, Begin, At, Quiet, flagVars, sdioVars, dataVars, cardVars,
     typeVars, ghostVars, taskVars
<1>1. TypeOK'
  BY <1>a, <1>b, <1>0, Programs DEF Switches, DataErrors
<1>2. Flags'
  BY <1>a, <1>b, Programs DEF Flags, DataErrors, Direction, Armed, Masked, Both, Common
<1>3. Masked'
  BY <1>a, <1>b, Programs DEF Flags, Masked, Armed, Common, DataErrors, Direction
<1>4. Armed'
  BY <1>a, <1>b, Programs DEF Flags, Armed, Both, Direction
<1>5. Direction'
  BY <1>a, <1>b, Programs DEF Direction, Armed, BufferReleased
<1>6. Outcome'
  BY <1>a, <1>b, Programs DEF Flags, Armed, Direction, Outcome, Works, GoesOn,
       Complete, Failed, Masked, Common, DataErrors, Both
<1>7. BufferReleased'
  BY <1>a, <1>b DEF BufferReleased, Direction, Armed
<1>8. OkMeansMoved'
  BY <1>a, <1>b DEF OkMeansMoved, Outcome, Works, GoesOn, Complete, Failed, Direction,
       Flags
<1> QED
  BY <1>1, <1>2, <1>3, <1>4, <1>5, <1>6, <1>7, <1>8

LEMMA DisableKeeps == ASSUME IInv, Disable PROVE IInv'
  BY Programs, SdConstants DEF IInv, TypeOK, Flags, Masked, Armed, Direction, Outcome,
     Works, GoesOn, Complete, Failed, BufferReleased, OkMeansMoved, Common, DataErrors,
          Both, flagVars, sdioVars, dataVars, cardVars, typeVars, ghostVars, taskVars,
     Disable,
          At, Quiet

LEMMA ArmKeeps == ASSUME IInv, Arm PROVE IInv'
<1> USE DEF IInv
<1> op \in Ops
  BY DEF TypeOK
<1>a. step' \in 1 .. Len(Program(op)) /\ op' = op
  BY Programs DEF Arm
<1>b. mask' \subseteq DataErrors \cup {"DATAEND"}
  BY Programs DEF Arm, TypeOK, Both
<1>c. dma' \in {"off", "rx", "tx"}
  BY Programs DEF Arm
<1>0. Switches'
  BY DEF Switches, TypeOK, Arm, flagVars, sdioVars, dataVars, cardVars, typeVars,
     ghostVars, taskVars
<1> USE DEF TypeOK, Arm, At, Quiet, flagVars, sdioVars, dataVars, cardVars, typeVars,
     ghostVars,
     taskVars
<1>1. TypeOK'
  BY <1>a, <1>b, <1>c, <1>0, Programs DEF Switches, DataErrors
<1>2. Flags'
  BY <1>a, <1>b, <1>c, Programs DEF Flags, DataErrors, Direction, Armed, Masked, Both,
       Common
<1>3. Masked'
  BY <1>a, <1>b, <1>c, Programs DEF Flags, Masked, Armed, Common, DataErrors, Direction
<1>4. Armed'
  BY <1>a, <1>b, <1>c, Programs DEF Flags, Armed, Both, Direction
<1>5. Direction'
  BY <1>a, <1>b, <1>c, Programs DEF Direction, Armed, BufferReleased
<1>6. Outcome'
  BY <1>a, <1>b, <1>c, Programs DEF Flags, Armed, Direction, Outcome, Works, GoesOn,
       Complete, Failed, Masked, Common, DataErrors, Both
<1>7. BufferReleased'
  BY <1>a, <1>b, <1>c DEF BufferReleased, Direction, Armed
<1>8. OkMeansMoved'
  BY <1>a, <1>b, <1>c DEF OkMeansMoved, Outcome, Works, GoesOn, Complete, Failed,
       Direction, Flags
<1> QED
  BY <1>1, <1>2, <1>3, <1>4, <1>5, <1>6, <1>7, <1>8

LEMMA StartStepKeeps == ASSUME IInv, StartStep PROVE IInv'
<1> USE DEF IInv
<1> op \in Ops
  BY DEF TypeOK
<1>a. PICK ok \in BOOLEAN :
        /\ IF Program(op)[step] = "DATA" THEN ok /\ DataConfig
           ELSE Command(Program(op)[step], ok) /\ UNCHANGED <<dpsm, dcount, fifo>>
        /\ step' = IF ok /\ step < Len(Program(op)) THEN step + 1 ELSE 1
        /\ begun' = ok
        /\ pc' = IF ok THEN IF step < Len(Program(op)) THEN "start" ELSE "wait"
                 ELSE IF waits THEN "wait" ELSE "idle"
  BY DEF StartStep
<1>b. /\ Len(Program(op)) \in Nat /\ DataStep(op) \in 1 .. Len(Program(op))
      /\ step \in 1 .. Len(Program(op)) /\ sta \cap mask = {} /\ op' = op
      /\ Program(op)[step] = "DATA" <=> step = DataStep(op)
      /\ Dir(op) = "tx" => DataStep(op) = Len(Program(op))
  BY Programs DEF StartStep, At, Quiet, TypeOK
<1>c. sta' \subseteq sta /\ card' \in {"off", "tran", "data1", "dataN", "rcv1", "rcvN",
     "prg"}
  BY <1>a, CommandKeeps DEF DataConfig, TypeOK
<1>d. IF step = DataStep(op) THEN ok /\ dpsm' = Dir(op) /\ dcount' = Blocks(op) /\ fifo' = 0
      ELSE UNCHANGED <<dpsm, dcount, fifo>>
  BY <1>a, <1>b DEF DataConfig
<1>e. step' \in 1 .. Len(Program(op)) /\ pc' \in {"start", "wait", "idle"}
  BY <1>a, <1>b
<1>f. dpsm' \in {"off", "rx", "tx"} /\ dcount' \in Nat /\ fifo' \in Nat
  BY <1>d, Programs DEF TypeOK
<1>0. Switches'
  BY DEF Switches, TypeOK, StartStep, flagVars, sdioVars, dataVars, cardVars, typeVars,
     ghostVars, taskVars
<1> USE DEF TypeOK, StartStep, At, Quiet, flagVars, sdioVars, dataVars, cardVars,
     typeVars, ghostVars, taskVars
<1>1. TypeOK'
  BY <1>b, <1>c, <1>e, <1>f, <1>0 DEF Switches, DataErrors
<1>2. Flags'
  BY <1>a, <1>b, <1>c, <1>d, <1>e, Programs DEF Flags, DataErrors, Direction, Armed,
       Masked, Both, Common
<1>3. Masked'
  BY <1>a, <1>b, <1>c, <1>d, <1>e, Programs DEF Flags, Masked, Armed, Common,
       DataErrors, Direction
<1>4. Armed'
  BY <1>a, <1>b, <1>c, <1>d, <1>e, Programs DEF Flags, Armed, Both, Direction
<1>5. Direction'
  BY <1>a, <1>b, <1>c, <1>d, <1>e, Programs DEF Direction, Armed, BufferReleased
<1>6. Outcome'
  <2>1. ASSUME Works'
        PROVE  ok /\ step >= DataStep(op)
    BY <2>1, <1>a, <1>b, <1>e DEF Works
  <2>2. ASSUME ok, step = DataStep(op)
        PROVE  GoesOn'
    BY <2>2, <1>a, <1>b, <1>d, Programs DEF GoesOn, Armed
  <2>3. ASSUME ok, step > DataStep(op)
        PROVE  (GoesOn \/ Complete \/ Failed)'
    <3>1. UNCHANGED <<dpsm, dcount, fifo>> /\ sta = {}
      BY <2>3, <1>b, <1>d DEF Flags
    <3>2. GoesOn \/ Complete \/ Failed
      BY <2>3, <1>b DEF Outcome, Works
    <3> QED
      BY <3>1, <3>2, <1>b, <1>c DEF GoesOn, Complete, Failed
  <2> QED
    BY <2>1, <2>2, <2>3, <1>b DEF Outcome
<1>7. BufferReleased'
  BY <1>a, <1>b, <1>c, <1>d, <1>e DEF BufferReleased, Direction, Armed
<1>8. OkMeansMoved'
  BY <1>a, <1>b, <1>c, <1>d, <1>e DEF OkMeansMoved, Outcome, Works, GoesOn, Complete,
       Failed, Direction, Flags
<1> QED
  BY <1>1, <1>2, <1>3, <1>4, <1>5, <1>6, <1>7, <1>8

LEMMA LoopEndsKeeps == ASSUME IInv, LoopEnds PROVE IInv'
  BY Programs, SdConstants DEF IInv, TypeOK, Flags, Masked, Armed, Direction, Outcome,
     Works, GoesOn, Complete, Failed, BufferReleased, OkMeansMoved, Common, DataErrors,
          Both, flagVars, sdioVars, dataVars, cardVars, typeVars, ghostVars, taskVars,
     LoopEnds,
          At, Quiet

LEMMA ClearDmaEndKeeps == ASSUME IInv, ClearDmaEnd PROVE IInv'
<1> USE DEF IInv
<1> op \in Ops
  BY DEF TypeOK
<1>0. Switches'
  BY DEF Switches, TypeOK, ClearDmaEnd, flagVars, sdioVars, dataVars, cardVars,
     typeVars, ghostVars, taskVars
<1> USE DEF TypeOK, ClearDmaEnd, At, Quiet, flagVars, sdioVars, dataVars, cardVars,
     typeVars, ghostVars, taskVars
<1>1. TypeOK'
  BY <1>0, Programs DEF Switches, DataErrors
<1>2. Flags'
  BY Programs DEF Flags, DataErrors, Direction, Armed, Masked, Both, Common
<1>3. Masked'
  BY Programs DEF Flags, Masked, Armed, Common, DataErrors, Direction
<1>4. Armed'
  BY Programs DEF Flags, Armed, Both, Direction
<1>5. Direction'
  BY Programs DEF Direction, Armed, BufferReleased
<1>6. Outcome'
  BY Programs DEF Flags, Armed, Direction, Outcome, Works, GoesOn, Complete, Failed,
       Masked, Common, DataErrors, Both
<1>7. BufferReleased'
  BY DEF BufferReleased, Direction, Armed
<1>8. OkMeansMoved'
  BY DEF OkMeansMoved, Outcome, Works, GoesOn, Complete, Failed, Direction, Flags
<1> QED
  BY <1>1, <1>2, <1>3, <1>4, <1>5, <1>6, <1>7, <1>8

LEMMA ActiveEndsKeeps == ASSUME IInv, ActiveEnds PROVE IInv'
<1> USE DEF IInv
<1> op \in Ops
  BY DEF TypeOK
<1>0. Switches'
  BY DEF Switches, TypeOK, ActiveEnds, flagVars, sdioVars, dataVars, cardVars,
     typeVars, ghostVars, taskVars
<1> USE DEF TypeOK, ActiveEnds, At, Quiet, flagVars, sdioVars, dataVars, cardVars,
     typeVars, ghostVars, taskVars
<1>1. TypeOK'
  BY <1>0, Programs DEF Switches, DataErrors
<1>2. Flags'
  BY Programs DEF Flags, DataErrors, Direction, Armed, Masked, Both, Common
<1>3. Masked'
  BY Programs DEF Flags, Masked, Armed, Common, DataErrors, Direction
<1>4. Armed'
  BY Programs DEF Flags, Armed, Both, Direction
<1>5. Direction'
  BY Programs DEF Direction, Armed, BufferReleased
<1>6. Outcome'
  BY Programs DEF Flags, Armed, Direction, Outcome, Works, GoesOn, Complete, Failed,
       Masked, Common, DataErrors, Both
<1>7. BufferReleased'
  BY DEF BufferReleased, Direction, Armed
<1>8. OkMeansMoved'
  BY DEF OkMeansMoved, Outcome, Works, GoesOn, Complete, Failed, Direction, Flags
<1> QED
  BY <1>1, <1>2, <1>3, <1>4, <1>5, <1>6, <1>7, <1>8

LEMMA StopTransferKeeps == ASSUME IInv, StopTransfer PROVE IInv'
<1> USE DEF IInv
<1> op \in Ops
  BY DEF TypeOK
<1>a. sta' \subseteq sta /\ card' \in {"off", "tran", "data1", "dataN", "rcv1", "rcvN",
     "prg"}
  BY CommandKeeps DEF StopTransfer
<1>0. Switches'
  BY DEF Switches, TypeOK, StopTransfer, flagVars, sdioVars, dataVars, cardVars,
     typeVars, ghostVars, taskVars
<1> USE DEF TypeOK, StopTransfer, At, Quiet, flagVars, sdioVars, dataVars, cardVars,
     typeVars, ghostVars, taskVars
<1>1. TypeOK'
  BY <1>a, <1>0, Programs DEF Switches, DataErrors
<1>2. Flags'
  BY <1>a, Programs DEF Flags, DataErrors, Direction, Armed, Masked, Both, Common
<1>3. Masked'
  BY <1>a, Programs DEF Flags, Masked, Armed, Common, DataErrors, Direction
<1>4. Armed'
  BY <1>a, Programs DEF Flags, Armed, Both, Direction
<1>5. Direction'
  BY <1>a, Programs DEF Direction, Armed, BufferReleased
<1>6. Outcome'
  BY <1>a, Programs DEF Flags, Armed, Direction, Outcome, Works, GoesOn, Complete,
       Failed, Masked, Common, DataErrors, Both
<1>7. BufferReleased'
  BY <1>a DEF BufferReleased, Direction, Armed
<1>8. OkMeansMoved'
  BY <1>a DEF OkMeansMoved, Outcome, Works, GoesOn, Complete, Failed, Direction, Flags
<1> QED
  BY <1>1, <1>2, <1>3, <1>4, <1>5, <1>6, <1>7, <1>8

LEMMA FinishKeeps == ASSUME IInv, Finish PROVE IInv'
<1> USE DEF IInv
<1> op \in Ops
  BY DEF TypeOK
<1>0. Switches'
  BY DEF Switches, TypeOK, Finish, flagVars, sdioVars, dataVars, cardVars, typeVars,
     ghostVars, taskVars
<1>a. sta' \subseteq sta
  BY DEF Finish
<1> USE DEF TypeOK, Finish, At, Quiet, flagVars, sdioVars, dataVars, cardVars,
     typeVars, ghostVars, taskVars
<1>1. TypeOK'
  <2>1. sta' \subseteq DataErrors \cup {"DATAEND"}
    BY <1>a
  <2>2. status' \in DataErrors \cup {"none", "CMD12"}
    BY DEF DataErrors
  <2>3. step' \in 1 .. Len(Program(op'))
    OBVIOUS
  <2> QED
    BY <1>0, <2>1, <2>2, <2>3 DEF Switches
<1>2. Flags'
  BY Programs DEF Flags, DataErrors, Direction, Armed, Masked, Both, Common
<1>3. Masked'
  BY Programs DEF Flags, Masked, Armed, Common, DataErrors, Direction
<1>4. Armed'
  BY Programs DEF Flags, Armed, Both, Direction
<1>5. Direction'
  BY Programs DEF Direction, Armed, BufferReleased
<1>6. Outcome'
  BY Programs DEF Flags, Armed, Direction, Outcome, Works, GoesOn, Complete, Failed,
       Masked, Common, DataErrors, Both
<1>7. BufferReleased'
  BY DEF BufferReleased, Direction, Armed
<1>8. OkMeansMoved'
  <2>1. ASSUME begun, TransferError = "none"
        PROVE  moved = Blocks(op)
    <3>1. Works /\ dpsm = "off" /\ sta = {}
      BY <2>1 DEF Works, Direction, Flags
    <3> QED
      BY <3>1, <2>1, Programs DEF Outcome, GoesOn, Complete, Failed
  <2> QED
    BY <2>1, <1>1 DEF OkMeansMoved, DataErrors
<1> QED
  BY <1>1, <1>2, <1>3, <1>4, <1>5, <1>6, <1>7, <1>8

LEMMA PollStatusKeeps == ASSUME IInv, PollStatus PROVE IInv'
<1> USE DEF IInv
<1> op \in Ops
  BY DEF TypeOK
<1>a. sta' \subseteq sta /\ card' \in {"off", "tran", "data1", "dataN", "rcv1", "rcvN",
     "prg"}
  BY CommandKeeps DEF PollStatus
<1>0. Switches'
  BY DEF Switches, TypeOK, PollStatus, flagVars, sdioVars, dataVars, cardVars,
     typeVars, ghostVars, taskVars
<1> USE DEF TypeOK, PollStatus, At, Quiet, flagVars, sdioVars, dataVars, cardVars,
     typeVars, ghostVars, taskVars
<1>1. TypeOK'
  BY <1>a, <1>0, Programs DEF Switches, DataErrors
<1>2. Flags'
  BY <1>a, Programs DEF Flags, DataErrors, Direction, Armed, Masked, Both, Common
<1>3. Masked'
  BY <1>a, Programs DEF Flags, Masked, Armed, Common, DataErrors, Direction
<1>4. Armed'
  BY <1>a, Programs DEF Flags, Armed, Both, Direction
<1>5. Direction'
  BY <1>a, Programs DEF Direction, Armed, BufferReleased
<1>6. Outcome'
  BY <1>a, Programs DEF Flags, Armed, Direction, Outcome, Works, GoesOn, Complete,
       Failed, Masked, Common, DataErrors, Both
<1>7. BufferReleased'
  BY <1>a DEF BufferReleased, Direction, Armed
<1>8. OkMeansMoved'
  BY <1>a DEF OkMeansMoved, Outcome, Works, GoesOn, Complete, Failed, Direction, Flags
<1> QED
  BY <1>1, <1>2, <1>3, <1>4, <1>5, <1>6, <1>7, <1>8

LEMMA SdioIrqKeeps == ASSUME IInv, SdioIrq PROVE IInv'
<1> USE DEF IInv
<1> op \in Ops
  BY DEF TypeOK
<1>a. sta' = {} /\ TransferError' \in DataErrors \cup {"none"}
  BY DEF SdioIrq, Flags, TypeOK
<1>0. Switches'
  BY DEF Switches, TypeOK, SdioIrq, flagVars, sdioVars, dataVars, cardVars, typeVars,
     ghostVars, taskVars
<1> USE DEF TypeOK, SdioIrq, flagVars, sdioVars, dataVars, cardVars, typeVars,
     ghostVars, taskVars
<1>1. TypeOK'
  BY <1>a, <1>0, Programs DEF Switches, DataErrors
<1>2. Flags'
  BY <1>a, Programs DEF Flags, DataErrors, Direction, Armed, Masked, Both, Common
<1>3. Masked'
  BY <1>a, Programs DEF Flags, Masked, Armed, Common, DataErrors, Direction
<1>4. Armed'
  BY <1>a, Programs DEF Flags, Armed, Both, Direction
<1>5. Direction'
  BY <1>a, Programs DEF Direction, Armed, BufferReleased
<1>6. Outcome'
  BY <1>a, Programs DEF Flags, Armed, Direction, Outcome, Works, GoesOn, Complete,
       Failed, Masked, Common, DataErrors, Both
<1>7. BufferReleased'
  BY <1>a DEF BufferReleased, Direction, Armed
<1>8. OkMeansMoved'
  BY <1>a DEF OkMeansMoved, Outcome, Works, GoesOn, Complete, Failed, Direction, Flags
<1> QED
  BY <1>1, <1>2, <1>3, <1>4, <1>5, <1>6, <1>7, <1>8

LEMMA DmaIrqKeeps == ASSUME IInv, DmaIrq PROVE IInv'
<1> USE DEF IInv
<1> op \in Ops
  BY DEF TypeOK
<1>0. Switches'
  BY DEF Switches, TypeOK, DmaIrq, flagVars, sdioVars, dataVars, cardVars, typeVars,
     ghostVars, taskVars
<1> USE DEF TypeOK, DmaIrq, flagVars, sdioVars, dataVars, cardVars, typeVars,
     ghostVars, taskVars
<1>1. TypeOK'
  BY <1>0, Programs DEF Switches, DataErrors
<1>2. Flags'
  BY Programs DEF Flags, DataErrors, Direction, Armed, Masked, Both, Common
<1>3. Masked'
  BY Programs DEF Flags, Masked, Armed, Common, DataErrors, Direction
<1>4. Armed'
  BY Programs DEF Flags, Armed, Both, Direction
<1>5. Direction'
  BY Programs DEF Direction, Armed, BufferReleased
<1>6. Outcome'
  BY Programs DEF Flags, Armed, Direction, Outcome, Works, GoesOn, Complete, Failed,
       Masked, Common, DataErrors, Both
<1>7. BufferReleased'
  BY DEF BufferReleased, Direction, Armed
<1>8. OkMeansMoved'
  BY DEF OkMeansMoved, Outcome, Works, GoesOn, Complete, Failed, Direction, Flags
<1> QED
  BY <1>1, <1>2, <1>3, <1>4, <1>5, <1>6, <1>7, <1>8

LEMMA BlockReceivedKeeps == ASSUME IInv, BlockReceived PROVE IInv'
  BY Programs, SdConstants DEF IInv, TypeOK, Flags, Masked, Armed, Direction, Outcome,
     Works, GoesOn, Complete, Failed, BufferReleased, OkMeansMoved, Common, DataErrors,
          Both, flagVars, sdioVars, dataVars, cardVars, typeVars, ghostVars, taskVars,
          BlockReceived, Raise

LEMMA BlockUnheardKeeps == ASSUME IInv, BlockUnheard PROVE IInv'
  BY Programs, SdConstants DEF IInv, TypeOK, Flags, Masked, Armed, Direction, Outcome,
     Works, GoesOn, Complete, Failed, BufferReleased, OkMeansMoved, Common, DataErrors,
          Both, flagVars, sdioVars, dataVars, cardVars, typeVars, ghostVars, taskVars,
     BlockUnheard

LEMMA DmaStoresKeeps == ASSUME IInv, DmaStores PROVE IInv'
<1> USE DEF IInv
<1> op \in Ops
  BY DEF TypeOK
<1>a. op' = op /\ Works' = Works
  BY DEF DmaStores, Works, taskVars, ghostVars, cardVars
<1>b. dpsm = "rx" /\ dcount \in Nat /\ fifo \in Nat /\ moved \in Nat /\ dcount' = dcount
      /\ fifo' = fifo - 1 /\ moved' = moved + 1
      /\ dpsm' = IF dcount = 0 /\ fifo = 1 THEN "off" ELSE dpsm
  BY DEF DmaStores, TypeOK
<1>c. Works => dpsm = Dir(op) /\ moved + dcount + fifo = Blocks(op)
  BY <1>b DEF Outcome, GoesOn, Complete, Failed
<1>d. Works => GoesOn' \/ Complete'
  BY <1>a, <1>b, <1>c DEF GoesOn, Complete
<1>0. Switches'
  BY DEF Switches, TypeOK, DmaStores, flagVars, sdioVars, dataVars, cardVars, typeVars,
     ghostVars, taskVars
<1> USE DEF TypeOK, DmaStores, flagVars, sdioVars, dataVars, cardVars, typeVars,
     ghostVars, taskVars
<1>1. TypeOK'
  BY <1>0, Programs DEF Switches, DataErrors
<1>2. Flags'
  BY Programs DEF Flags, DataErrors, Direction, Armed, Masked, Both, Common
<1>3. Masked'
  BY Programs DEF Flags, Masked, Armed, Common, DataErrors, Direction
<1>4. Armed'
  BY Programs DEF Flags, Armed, Both, Direction
<1>5. Direction'
  BY Programs DEF Direction, Armed, BufferReleased
<1>6. Outcome'
  BY <1>a, <1>d DEF Outcome
<1>7. BufferReleased'
  BY DEF BufferReleased, Direction, Armed
<1>8. OkMeansMoved'
  BY DEF OkMeansMoved, Outcome, Works, GoesOn, Complete, Failed, Direction, Flags
<1> QED
  BY <1>1, <1>2, <1>3, <1>4, <1>5, <1>6, <1>7, <1>8

LEMMA DmaFillsKeeps == ASSUME IInv, DmaFills PROVE IInv'
<1> USE DEF IInv
<1> op \in Ops
  BY DEF TypeOK
<1>0. Switches'
  BY DEF Switches, TypeOK, DmaFills, flagVars, sdioVars, dataVars, cardVars, typeVars,
     ghostVars, taskVars
<1> USE DEF TypeOK, DmaFills, flagVars, sdioVars, dataVars, cardVars, typeVars,
     ghostVars, taskVars
<1>1. TypeOK'
  BY <1>0, Programs DEF Switches, DataErrors
<1>2. Flags'
  BY Programs DEF Flags, DataErrors, Direction, Armed, Masked, Both, Common
<1>3. Masked'
  BY Programs DEF Flags, Masked, Armed, Common, DataErrors, Direction
<1>4. Armed'
  BY Programs DEF Flags, Armed, Both, Direction
<1>5. Direction'
  BY Programs DEF Direction, Armed, BufferReleased
<1>6. Outcome'
  BY Programs DEF Flags, Armed, Direction, Outcome, Works, GoesOn, Complete, Failed,
       Masked, Common, DataErrors, Both
<1>7. BufferReleased'
  BY DEF BufferReleased, Direction, Armed
<1>8. OkMeansMoved'
  BY DEF OkMeansMoved, Outcome, Works, GoesOn, Complete, Failed, Direction, Flags
<1> QED
  BY <1>1, <1>2, <1>3, <1>4, <1>5, <1>6, <1>7, <1>8

LEMMA BlockSentKeeps == ASSUME IInv, BlockSent PROVE IInv'
  BY Programs, SdConstants DEF IInv, TypeOK, Flags, Masked, Armed, Direction, Outcome,
     Works, GoesOn, Complete, Failed, BufferReleased, OkMeansMoved, Common, DataErrors,
          Both, flagVars, sdioVars, dataVars, cardVars, typeVars, ghostVars, taskVars,
     BlockSent,
          Raise

LEMMA TransferFailsKeeps == ASSUME IInv, TransferFails,
     ~MayUnderrun \/ "write1" \notin Ops PROVE IInv'
<1> USE DEF IInv
<1> op \in Ops
  BY DEF TypeOK
<1>0. Switches'
  BY DEF Switches, TypeOK, TransferFails, flagVars, sdioVars, dataVars, cardVars,
     typeVars, ghostVars,
       taskVars
<1> USE DEF TypeOK, TransferFails, flagVars, sdioVars, dataVars, cardVars, typeVars,
     ghostVars,
     taskVars
<1>1. TypeOK'
  BY <1>0, Programs DEF Switches, DataErrors, Raise
<1>2. Flags'
  BY Programs DEF Flags, DataErrors, Direction, Armed, Masked, Both, Common, Raise
<1>3. Masked'
  BY Programs DEF Flags, Masked, Armed, Common, DataErrors, Direction, Raise
<1>4. Armed'
  BY Programs DEF Flags, Armed, Both, Direction, Raise
<1>5. Direction'
  BY Programs DEF Direction, Armed, BufferReleased, Raise
<1>6. Outcome'
  BY Programs DEF Flags, Armed, Direction, Outcome, Works, GoesOn, Complete, Failed,
       Masked, Common, DataErrors, Both, Raise
<1>7. BufferReleased'
  BY DEF BufferReleased, Direction, Armed, Raise
<1>8. OkMeansMoved'
  BY DEF OkMeansMoved, Outcome, Works, GoesOn, Complete, Failed, Direction, Flags, Raise
<1> QED
  BY <1>1, <1>2, <1>3, <1>4, <1>5, <1>6, <1>7, <1>8

LEMMA DataTimeoutKeeps == ASSUME IInv, DataTimeout PROVE IInv'
  BY Programs, SdConstants DEF IInv, TypeOK, Flags, Masked, Armed, Direction, Outcome,
     Works, GoesOn, Complete, Failed, BufferReleased, OkMeansMoved, Common, DataErrors,
          Both, flagVars, sdioVars, dataVars, cardVars, typeVars, ghostVars, taskVars,
          DataTimeout, Raise

LEMMA ProgrammedKeeps == ASSUME IInv, Programmed PROVE IInv'
  BY Programs, SdConstants DEF IInv, TypeOK, Flags, Masked, Armed, Direction, Outcome,
     Works, GoesOn, Complete, Failed, BufferReleased, OkMeansMoved, Common, DataErrors,
          Both, flagVars, sdioVars, dataVars, cardVars, typeVars, ghostVars, taskVars,
     Programmed

-----------------------------------------------------------------------------
LEMMA InitEstablishes == ASSUME Init PROVE IInv
<1>1. step \in 1 .. Len(Program(op)) /\ op \in Ops
  BY Programs DEF Init
<1>2. Switches
  BY DEF Switches, Init
<1>3. TypeOK
  BY <1>1, <1>2, SdConstants DEF Switches, TypeOK, Init
<1>4. Flags /\ Masked /\ Armed /\ Direction /\ BufferReleased /\ OkMeansMoved
  BY DEF Init, Flags, Masked, Armed, Direction, BufferReleased, OkMeansMoved
<1>5. Outcome
  BY DEF Init, Outcome, Works
<1> QED
  BY <1>3, <1>4, <1>5 DEF IInv

LEMMA NextKeeps ==
  ASSUME IInv, [Next]_vars, ~MayUnderrun \/ "write1" \notin Ops
  PROVE  IInv'
<1>1. CASE UNCHANGED vars
  <2>1. UNCHANGED <<DMAEndOfTransfer, TransferEnd, TransferError, StopCondition,
       CardType, answered, mask, sta, dpsm, dcount, fifo, dma, tcif, card, kind, pc, op,
       step, waits, errorstatus, begun, status, moved>>
    BY <1>1 DEF vars, flagVars, sdioVars, dataVars, cardVars, typeVars, taskVars, ghostVars
  <2> QED
    BY <2>1 DEF IInv, TypeOK, Flags, Masked, Armed, Direction, Outcome, Works, GoesOn,
         Complete,
       Failed, BufferReleased, OkMeansMoved
<1>2. CASE Next
  BY <1>2, InitCardKeeps, ChangeCardKeeps, BeginKeeps, DisableKeeps, ArmKeeps,
       StartStepKeeps, 
     LoopEndsKeeps, ClearDmaEndKeeps, ActiveEndsKeeps, StopTransferKeeps, FinishKeeps, 
     PollStatusKeeps, SdioIrqKeeps, DmaIrqKeeps, BlockReceivedKeeps, BlockUnheardKeeps, 
     DmaStoresKeeps, DmaFillsKeeps, BlockSentKeeps, TransferFailsKeeps, DataTimeoutKeeps, 
     ProgrammedKeeps
     DEF Next, Start, Wait, Hardware
<1> QED
  BY <1>1, <1>2

(* Every variable of the driver, the peripheral and the card keeps its type. *)
THEOREM TypeOKHolds ==
  ASSUME ~MayUnderrun \/ "write1" \notin Ops
  PROVE  Spec => []TypeOK
<1>1. Init => IInv
  BY InitEstablishes
<1>2. IInv /\ [Next]_vars => IInv'
  BY NextKeeps
<1>3. IInv => TypeOK
  BY DEF IInv
<1> QED
  BY <1>1, <1>2, <1>3, PTL DEF Spec

(* Whatever flags and interrupts an earlier operation left behind, and
   however many blocks an operation has: SD_OK from its start and from its
   wait means that every block is where it belongs, unless DMA can fall
   behind in SD_WriteBlock, which does not enable the interrupt for it. *)
THEOREM OkMeansMovedHolds ==
  ASSUME ~MayUnderrun \/ "write1" \notin Ops
  PROVE  Spec => []OkMeansMoved
<1>1. Init => IInv
  BY InitEstablishes
<1>2. IInv /\ [Next]_vars => IInv'
  BY NextKeeps
<1>3. IInv => OkMeansMoved
  BY DEF IInv
<1> QED
  BY <1>1, <1>2, <1>3, PTL DEF Spec

(* When the wait has returned, in success or failure, SDIO and DMA are
   through with the caller's buffer. *)
THEOREM BufferReleasedHolds ==
  ASSUME ~MayUnderrun \/ "write1" \notin Ops
  PROVE  Spec => []BufferReleased
<1>1. Init => IInv
  BY InitEstablishes
<1>2. IInv /\ [Next]_vars => IInv'
  BY NextKeeps
<1>3. IInv => BufferReleased
  BY DEF IInv
<1> QED
  BY <1>1, <1>2, <1>3, PTL DEF Spec

-----------------------------------------------------------------------------
(* A card that is not in use gets into use by SD_Init only. *)
LEMMA CommandKeepsUse ==
  ASSUME NEW c, NEW ok \in BOOLEAN, Command(c, ok)
  PROVE  card' # "off" => card # "off"
  BY DEF Command, Legal

(* Whichever cards come after one another and whichever commands of SD_Init *)
(* are lost, a card of high capacity in use is addressed in blocks, and      *)
(* another only if it did not answer CMD8, which alone resets CardType.      *)
THEOREM AddressUnitHolds == Spec => []AddressUnit
<1>1. Init => AddressUnit
  BY DEF Init, AddressUnit
<1>2. ASSUME AddressUnit, [Next]_vars
      PROVE  AddressUnit'
  <2>1. CASE InitCard
    BY <2>1 DEF InitCard, AddressUnit
  <2>2. CASE ChangeCard
    BY <2>2 DEF ChangeCard, AddressUnit
  <2>3. CASE StartStep
    BY <2>3, <1>2, CommandKeepsUse DEF StartStep, DataConfig, AddressUnit, typeVars
  <2>4. CASE StopTransfer \/ PollStatus
    BY <2>4, <1>2, CommandKeepsUse DEF StopTransfer, PollStatus, AddressUnit, typeVars
  <2>5. ASSUME UNCHANGED cardVars \/ (UNCHANGED <<kind, typeVars>> /\ card # "off")
        PROVE  AddressUnit'
    BY <2>5, <1>2 DEF AddressUnit, cardVars, typeVars
  <2>6. CASE (\E o \in Ops : Begin(o)) \/ Disable \/ Arm \/ LoopEnds \/ ClearDmaEnd \/ ActiveEnds
             \/ Finish \/ SdioIrq \/ DmaIrq
    BY <2>5, <2>6 DEF Begin, Disable, Arm, LoopEnds, ClearDmaEnd, ActiveEnds, Finish,
         SdioIrq, DmaIrq
  <2>7. CASE Hardware
    BY <2>5, <2>7 DEF Hardware, BlockReceived, BlockUnheard, DmaStores, DmaFills,
         BlockSent, TransferFails, DataTimeout, Programmed
  <2>8. CASE UNCHANGED vars
    BY <2>5, <2>8 DEF vars
  <2> QED
    BY <1>2, <2>1, <2>2, <2>3, <2>4, <2>6, <2>7, <2>8 DEF Next, Start, Wait
<1> QED
  BY <1>1, <1>2, PTL DEF Spec

-----------------------------------------------------------------------------
(* The card is in a multiple block transfer only while the task that       *)
(* opened it is on its way to SD_StopTransfer, or after a start that       *)
(* failed, when the task does not wait; the next start fails then.         *)
Open == {"dataN", "rcvN"}
OpenInv ==
  /\ op \in Ops /\ step \in 1 .. Len(Program(op)) /\ (pc # "start" => step = 1)
  /\ pc \in {"disable", "arm", "start", "wait", "clear", "active", "stop"} =>
       (StopCondition <=> Multi(op))
  /\ pc = "stop" => StopCondition
  /\ card \in Open =>
       /\ pc \notin {"finish", "poll"}
       /\ pc \in {"wait", "clear", "active", "stop"} \/ step # 1 => Multi(op)
       /\ pc \in {"idle", "disable", "arm", "start"} /\ step = 1 => ~waits

(* Every operation begins with CMD16, and only one of several blocks opens *)
(* a multiple block transfer.                                              *)
LEMMA Openers ==
  ASSUME NEW o \in Ops
  PROVE  /\ Len(Program(o)) \in Nat /\ 1 \in 1 .. Len(Program(o))
         /\ Program(o)[1] = "CMD16"
         /\ \A i \in 1 .. Len(Program(o)) :
              /\ Program(o)[i] \in {"CMD18", "CMD25"} => Multi(o)
              /\ Program(o)[i] \notin {"CMD12", "CMD13"}
<1>1. o \in {"read1", "readN", "write1", "writeN"}
  BY SdConstants
<1>2. CASE o \in {"read1", "readN"}
  BY <1>2 DEF Program, Multi
<1>3. CASE o \in {"write1", "writeN"}
  BY <1>3 DEF Program, Multi
<1> QED
  BY <1>1, <1>2, <1>3

LEMMA CommandOpens ==
  ASSUME NEW c, NEW ok \in BOOLEAN, Command(c, ok)
  PROVE  /\ card' \in Open => card \in Open \/ c \in {"CMD18", "CMD25"}
         /\ card \in Open /\ c \notin {"CMD12", "CMD13"} => ~ok
         /\ card \in Open /\ c = "CMD12" /\ "CMD12" \notin MayFail => card' \notin Open
  BY DEF Command, Legal, After, Open

LEMMA StartStepOpen == ASSUME OpenInv, StartStep PROVE OpenInv'
<1> USE DEF StartStep, At
<1>1. PICK ok \in BOOLEAN :
        /\ IF Program(op)[step] = "DATA" THEN ok /\ DataConfig
           ELSE Command(Program(op)[step], ok) /\ UNCHANGED <<dpsm, dcount, fifo>>
        /\ step' = IF ok /\ step < Len(Program(op)) THEN step + 1 ELSE 1
        /\ pc' = IF ok THEN IF step < Len(Program(op)) THEN "start" ELSE "wait"
                 ELSE IF waits THEN "wait" ELSE "idle"
  OBVIOUS
<1>2. /\ op' = op /\ waits' = waits /\ StopCondition' = StopCondition /\ pc = "start"
      /\ op \in Ops /\ step \in 1 .. Len(Program(op)) /\ Len(Program(op)) \in Nat
  BY Openers DEF OpenInv, flagVars
<1>3. /\ step' \in 1 .. Len(Program(op)) /\ (pc' # "start" => step' = 1)
      /\ (pc' = "start" => ok /\ step' # 1)
  BY <1>1, <1>2
<1>4. card' \in Open => card \in Open \/ Multi(op)
  BY <1>1, <1>2, CommandOpens, Openers DEF DataConfig
<1>5. card' \in Open /\ card \in Open /\ step = 1 => ~ok /\ ~waits
  BY <1>1, <1>2, CommandOpens, Openers DEF OpenInv
<1>6. pc' = "idle" => ~waits
  BY <1>1
<1>7. card' \in Open /\ pc' # "idle" => Multi(op)
  BY <1>1, <1>2, <1>4, <1>5 DEF OpenInv
<1> QED
  BY <1>1, <1>2, <1>3, <1>6, <1>7 DEF OpenInv

LEMMA StopTransferOpen ==
  ASSUME OpenInv, StopTransfer, "CMD12" \notin MayFail PROVE OpenInv'
<1>1. card' \notin Open
  BY CommandOpens DEF StopTransfer
<1> QED
  BY <1>1 DEF OpenInv, StopTransfer, At

LEMMA PollStatusOpen == ASSUME OpenInv, PollStatus PROVE OpenInv'
<1>1. card' \notin Open
  BY CommandOpens DEF OpenInv, PollStatus, At
<1> QED
  BY <1>1 DEF OpenInv, PollStatus, At, flagVars

(* The wait leaves no multiple block transfer open on the card, whichever  *)
(* starts failed and whatever flags ended its loops, if the card obeys     *)
(* CMD12: SD_StopTransfer sends it once, and nothing sends it again.       *)
THEOREM TransferClosedHolds ==
  ASSUME "CMD12" \notin MayFail
  PROVE  Spec => []TransferClosed
<1>1. Init => OpenInv
  BY Openers DEF Init, OpenInv, Open
<1>2. ASSUME OpenInv, [Next]_vars
      PROVE  OpenInv'
  <2>1. CASE InitCard
    BY <2>1, <1>2 DEF InitCard, At, OpenInv, Open, flagVars, taskVars
  <2>2. CASE ChangeCard
    BY <2>2, <1>2 DEF ChangeCard, OpenInv, Open, flagVars, taskVars
  <2>3. CASE \E o \in Ops : Begin(o)
    BY <2>3, <1>2, Openers DEF Begin, At, OpenInv, Open, cardVars
  <2>4. CASE Disable \/ Arm
    BY <2>4, <1>2, Openers DEF Disable, Arm, At, OpenInv, Open, flagVars, cardVars
  <2>5. CASE LoopEnds \/ ClearDmaEnd \/ ActiveEnds
    BY <2>5, <1>2 DEF LoopEnds, ClearDmaEnd, ActiveEnds, At, OpenInv, Open, flagVars,
         cardVars
  <2>6. CASE Finish
    BY <2>6, <1>2 DEF Finish, At, OpenInv, Open, flagVars, cardVars
  <2>7. CASE SdioIrq \/ DmaIrq
    BY <2>7, <1>2 DEF SdioIrq, DmaIrq, OpenInv, cardVars, taskVars
  <2>8. CASE Hardware
    BY <2>8, <1>2 DEF Hardware, BlockReceived, BlockUnheard, DmaStores, DmaFills,
         BlockSent, TransferFails, DataTimeout, Programmed, OpenInv, Open, flagVars,
         cardVars, taskVars
  <2>9. CASE UNCHANGED vars
    BY <2>9, <1>2 DEF vars, flagVars, cardVars, typeVars, taskVars, OpenInv
  <2> QED
    BY <1>2, <2>1, <2>2, <2>3, <2>4, <2>5, <2>6, <2>7, <2>8, <2>9, StartStepOpen,
       StopTransferOpen, PollStatusOpen DEF Next, Start, Wait
<1>3. OpenInv => TransferClosed
  BY DEF OpenInv, TransferClosed, Open
<1> QED
  BY <1>1, <1>2, <1>3, PTL DEF Spec
=============================================================================
