--------------------------- MODULE DhcpLink_proofs ---------------------------
(***************************************************************************)
(* On a cable with one mode the client is off whenever the link comes up,  *)
(* its PCB is counted right, and an address is never kept after its lease  *)
(* unless it was bound while the client was being switched off: for every  *)
(* lease time and number of retries, and whenever the tcpip thread runs.   *)
(***************************************************************************)
EXTENDS DhcpLink, TLAPS

(* One mode of the cable. *)
OneMode == \A p, q \in Phys \ {"none"} : p = q

(* The inductive invariant: where the link task is tells whether the       *)
(* client runs, ...                                                        *)
Steps ==
  /\ pc \in {"release", "unaddress"} => Running
  /\ pc \in {"linkup", "start", "clear", "pcb", "select", "unpcb", "down"} => ~Running
  /\ pc = "idle" /\ old_i \notin Phys \ {"none"} => ~Running
  /\ pc = "off" /\ addr # ANY => late
  /\ pc \in {"linkup", "start", "clear", "pcb", "select", "send", "arm"} =>
       old_i \in Phys \ {"none"}

(* ... who has the PCB, ... *)
Pcbs ==
  /\ refs = IF pcbAllocated /\ pc # "clear" THEN 1 ELSE 0
  /\ state = "NULL" => ~pcbAllocated
  /\ Running => pcbAllocated
  /\ pc = "pcb" => ~pcbAllocated /\ state = "OFF"
  /\ pc = "select" => pcbAllocated

(* ... and the minutes used of a lease are fewer than it has. *)
Minutes == t0 = 0 \/ used < t0

IInv == TypeOK /\ Steps /\ Pcbs /\ Minutes /\ AddressTimed

LEMMA TicksType == ASSUME NEW secs \in Nat
  PROVE Ticks(secs) \in U16 \ {0} /\ Ticks(secs) \in Int
<1>1. (secs + 30) \div 60 \in Nat
  OBVIOUS
<1> DEFINE n == Min2((secs + 30) \div 60, 65535)
<1>2. n \in Nat /\ n < 65536
  BY <1>1 DEF Min2
<1> HIDE DEF n
<1>3. Ticks(secs) = IF n = 0 THEN 1 ELSE n
  BY DEF Ticks, n
<1> QED
  BY <1>2, <1>3 DEF U16

(* The timers dhcp_bind sets. *)
LEMMA BindTicks == ASSUME NEW secs \in Leases \cup {0}
  PROVE /\ Ticks(secs) \in U16 \ {0} /\ Ticks(secs \div 2) \in U16
        /\ Ticks((secs * 7) \div 8) \in U16
<1>1. secs \in Nat /\ secs \div 2 \in Nat /\ (secs * 7) \div 8 \in Nat
  BY DhcpConstants
<1> QED
  BY <1>1, TicksType

LEMMA TryType == ASSUME TypeOK, NEW s PROVE Try(s) \in 1 .. RequestTries + 1
  BY DhcpConstants DEF Try, Min2, TypeOK, ClientType

LEMMA Ranges ==
  /\ 0 \in 0 .. RequestTries + 1 /\ 1 \in 0 .. RequestTries + 1
  /\ 1 .. RequestTries + 1 \subseteq 0 .. RequestTries + 1
  /\ 0 \in U8 /\ 1 \in U8 /\ 0 \in U16 /\ U16 \subseteq Int
  /\ \A t \in U16 : Less(t) \in U16
  /\ \A t \in U16, u \in U16 : Half(t - u) \in U16
<1>1. \A t \in U16, u \in U16 : Half(t - u) \in U16
  BY DEF Half, U16
<1> QED
  BY <1>1, DhcpConstants DEF U8, U16, Less

LEMMA Counts == (0 + 1) % 256 = 1 /\ (1 - 1) % 256 = 0
  OBVIOUS

LEMMA InitHolds == Init => IInv
<1> SUFFICES ASSUME Init PROVE IInv
  OBVIOUS
<1>0. 0 \in 0 .. MaxRefusals
  BY DhcpConstants
<1>1. CableType /\ ClientType
  BY <1>0, Ranges DEF Init, CableType, ClientType
<1>2. LeaseType /\ MessageType
  BY Ranges DEF Init, LeaseType, MessageType
<1>3. Steps /\ Pcbs /\ Minutes /\ AddressTimed
  BY DEF Init, Steps, Pcbs, Minutes, AddressTimed, Running
<1> QED
  BY <1>1, <1>2, <1>3 DEF IInv, TypeOK

LEMMA PhyChangesKeeps == ASSUME OneMode, IInv, PhyChanges PROVE IInv'
<1> USE DEF IInv, PhyChanges, linkVars, addrVars, leaseVars, sessionVars, xidVars, pcbVars
<1>0. \A s : Try(s) \in 1 .. RequestTries + 1
  BY TryType
<1>1. Steps'
  BY DEF Steps, Running, TypeOK, CableType, ClientType, OneMode, AddressTimed
<1>2. Pcbs'
  BY Counts DEF Pcbs, Steps, Running, TypeOK, ClientType, MessageType
<1>3. TypeOK'
  <2>1. CableType'
    BY DEF TypeOK, CableType
  <2>2. ClientType'
    BY <1>0, Ranges DEF TypeOK, ClientType
  <2>3. LeaseType'
    BY Ranges DEF TypeOK, LeaseType
  <2>4. MessageType'
    BY <1>2, Ranges DEF TypeOK, MessageType, Pcbs
  <2> QED
    BY <2>1, <2>2, <2>3, <2>4 DEF TypeOK
<1>4. Minutes'
  BY Ranges DEF Minutes, TypeOK, LeaseType, U16
<1>5. AddressTimed'
  BY Ranges DEF AddressTimed, Steps, Running, TypeOK, CableType, ClientType,
     LeaseType, U16, Minutes, OneMode, ANY
<1> QED
  BY <1>1, <1>2, <1>3, <1>4, <1>5

LEMMA PollKeeps == ASSUME OneMode, IInv, Poll PROVE IInv'
<1> USE DEF IInv, Poll, linkVars, addrVars, leaseVars, sessionVars, xidVars, pcbVars
<1>0. \A s : Try(s) \in 1 .. RequestTries + 1
  BY TryType
<1>1. Steps'
  BY DEF Steps, Running, TypeOK, CableType, ClientType, OneMode, AddressTimed
<1>2. Pcbs'
  BY Counts DEF Pcbs, Steps, Running, TypeOK, ClientType, MessageType
<1>3. TypeOK'
  <2>1. CableType'
    BY DEF TypeOK, CableType
  <2>2. ClientType'
    BY <1>0, Ranges DEF TypeOK, ClientType
  <2>3. LeaseType'
    BY Ranges DEF TypeOK, LeaseType
  <2>4. MessageType'
    BY <1>2, Ranges DEF TypeOK, MessageType, Pcbs
  <2> QED
    BY <2>1, <2>2, <2>3, <2>4 DEF TypeOK
<1>4. Minutes'
  BY Ranges DEF Minutes, TypeOK, LeaseType, U16
<1>5. AddressTimed'
  BY Ranges DEF AddressTimed, Steps, Running, TypeOK, CableType, ClientType,
     LeaseType, U16, Minutes, OneMode, ANY
<1> QED
  BY <1>1, <1>2, <1>3, <1>4, <1>5

LEMMA LinkUpKeeps == ASSUME OneMode, IInv, LinkUp PROVE IInv'
<1> USE DEF IInv, LinkUp, linkVars, addrVars, leaseVars, sessionVars, xidVars, pcbVars
<1>0. \A s : Try(s) \in 1 .. RequestTries + 1
  BY TryType
<1>1. Steps'
  BY DEF Steps, Running, TypeOK, CableType, ClientType, OneMode, AddressTimed
<1>2. Pcbs'
  BY Counts DEF Pcbs, Steps, Running, TypeOK, ClientType, MessageType
<1>3. TypeOK'
  <2>1. CableType'
    BY DEF TypeOK, CableType
  <2>2. ClientType'
    BY <1>0, Ranges DEF TypeOK, ClientType
  <2>3. LeaseType'
    BY Ranges DEF TypeOK, LeaseType
  <2>4. MessageType'
    BY <1>2, Ranges DEF TypeOK, MessageType, Pcbs
  <2> QED
    BY <2>1, <2>2, <2>3, <2>4 DEF TypeOK
<1>4. Minutes'
  BY Ranges DEF Minutes, TypeOK, LeaseType, U16
<1>5. AddressTimed'
  BY Ranges DEF AddressTimed, Steps, Running, TypeOK, CableType, ClientType,
     LeaseType, U16, Minutes, OneMode, ANY
<1> QED
  BY <1>1, <1>2, <1>3, <1>4, <1>5

LEMMA StartKeeps == ASSUME OneMode, IInv, Start PROVE IInv'
<1> USE DEF IInv, Start, linkVars, addrVars, leaseVars, sessionVars, xidVars, pcbVars
<1>0. \A s : Try(s) \in 1 .. RequestTries + 1
  BY TryType
<1>1. Steps'
  BY DEF Steps, Running, TypeOK, CableType, ClientType, OneMode, AddressTimed
<1>2. Pcbs'
  BY Counts DEF Pcbs, Steps, Running, TypeOK, ClientType, MessageType
<1>3. TypeOK'
  <2>1. CableType'
    BY DEF TypeOK, CableType
  <2>2. ClientType'
    BY <1>0, Ranges DEF TypeOK, ClientType
  <2>3. LeaseType'
    BY Ranges DEF TypeOK, LeaseType
  <2>4. MessageType'
    BY <1>2, Ranges DEF TypeOK, MessageType, Pcbs
  <2> QED
    BY <2>1, <2>2, <2>3, <2>4 DEF TypeOK
<1>4. Minutes'
  BY Ranges DEF Minutes, TypeOK, LeaseType, U16
<1>5. AddressTimed'
  BY Ranges DEF AddressTimed, Steps, Running, TypeOK, CableType, ClientType,
     LeaseType, U16, Minutes, OneMode, ANY
<1> QED
  BY <1>1, <1>2, <1>3, <1>4, <1>5

LEMMA ClearKeeps == ASSUME OneMode, IInv, Clear PROVE IInv'
<1> USE DEF IInv, Clear, linkVars, addrVars, leaseVars, sessionVars, xidVars, pcbVars
<1>0. \A s : Try(s) \in 1 .. RequestTries + 1
  BY TryType
<1>1. Steps'
  BY DEF Steps, Running, TypeOK, CableType, ClientType, OneMode, AddressTimed
<1>2. Pcbs'
  BY Counts DEF Pcbs, Steps, Running, TypeOK, ClientType, MessageType
<1>3. TypeOK'
  <2>1. CableType'
    BY DEF TypeOK, CableType
  <2>2. ClientType'
    BY <1>0, Ranges DEF TypeOK, ClientType
  <2>3. LeaseType'
    BY Ranges DEF TypeOK, LeaseType
  <2>4. MessageType'
    BY <1>2, Ranges DEF TypeOK, MessageType, Pcbs
  <2> QED
    BY <2>1, <2>2, <2>3, <2>4 DEF TypeOK
<1>4. Minutes'
  BY Ranges DEF Minutes, TypeOK, LeaseType, U16
<1>5. AddressTimed'
  BY Ranges DEF AddressTimed, Steps, Running, TypeOK, CableType, ClientType,
     LeaseType, U16, Minutes, OneMode, ANY
<1> QED
  BY <1>1, <1>2, <1>3, <1>4, <1>5

LEMMA PcbKeeps == ASSUME OneMode, IInv, Pcb PROVE IInv'
<1> USE DEF IInv, Pcb, linkVars, addrVars, leaseVars, sessionVars, xidVars, pcbVars
<1>0. \A s : Try(s) \in 1 .. RequestTries + 1
  BY TryType
<1>1. Steps'
  BY DEF Steps, Running, TypeOK, CableType, ClientType, OneMode, AddressTimed
<1>2. Pcbs'
  BY Counts DEF Pcbs, Steps, Running, TypeOK, ClientType, MessageType
<1>3. TypeOK'
  <2>1. CableType'
    BY DEF TypeOK, CableType
  <2>2. ClientType'
    BY <1>0, Ranges DEF TypeOK, ClientType
  <2>3. LeaseType'
    BY Ranges DEF TypeOK, LeaseType
  <2>4. MessageType'
    BY <1>2, Ranges DEF TypeOK, MessageType, Pcbs
  <2> QED
    BY <2>1, <2>2, <2>3, <2>4 DEF TypeOK
<1>4. Minutes'
  BY Ranges DEF Minutes, TypeOK, LeaseType, U16
<1>5. AddressTimed'
  BY Ranges DEF AddressTimed, Steps, Running, TypeOK, CableType, ClientType,
     LeaseType, U16, Minutes, OneMode, ANY
<1> QED
  BY <1>1, <1>2, <1>3, <1>4, <1>5

LEMMA SelectKeeps == ASSUME OneMode, IInv, Select PROVE IInv'
<1> USE DEF IInv, Select, linkVars, addrVars, leaseVars, sessionVars, xidVars, pcbVars
<1>0. \A s : Try(s) \in 1 .. RequestTries + 1
  BY TryType
<1>1. Steps'
  BY DEF Steps, Running, TypeOK, CableType, ClientType, OneMode, AddressTimed
<1>2. Pcbs'
  BY Counts DEF Pcbs, Steps, Running, TypeOK, ClientType, MessageType
<1>3. TypeOK'
  <2>1. CableType'
    BY DEF TypeOK, CableType
  <2>2. ClientType'
    BY <1>0, Ranges DEF TypeOK, ClientType
  <2>3. LeaseType'
    BY Ranges DEF TypeOK, LeaseType
  <2>4. MessageType'
    BY <1>2, Ranges DEF TypeOK, MessageType, Pcbs
  <2> QED
    BY <2>1, <2>2, <2>3, <2>4 DEF TypeOK
<1>4. Minutes'
  BY Ranges DEF Minutes, TypeOK, LeaseType, U16
<1>5. AddressTimed'
  BY Ranges DEF AddressTimed, Steps, Running, TypeOK, CableType, ClientType,
     LeaseType, U16, Minutes, OneMode, ANY
<1> QED
  BY <1>1, <1>2, <1>3, <1>4, <1>5

LEMMA SendKeeps == ASSUME OneMode, IInv, Send PROVE IInv'
<1> USE DEF IInv, Send, Sends, linkVars, addrVars, leaseVars, sessionVars, xidVars, pcbVars
<1>0. \A s : Try(s) \in 1 .. RequestTries + 1
  BY TryType
<1>1. Steps'
  BY DEF Steps, Running, TypeOK, CableType, ClientType, OneMode, AddressTimed
<1>2. Pcbs'
  BY Counts DEF Pcbs, Steps, Running, TypeOK, ClientType, MessageType
<1>3. TypeOK'
  <2>1. CableType'
    BY DEF TypeOK, CableType
  <2>2. ClientType'
    BY <1>0, Ranges DEF TypeOK, ClientType
  <2>3. LeaseType'
    BY Ranges DEF TypeOK, LeaseType
  <2>4. MessageType'
    BY <1>2, Ranges DEF TypeOK, MessageType, Pcbs
  <2> QED
    BY <2>1, <2>2, <2>3, <2>4 DEF TypeOK
<1>4. Minutes'
  BY Ranges DEF Minutes, TypeOK, LeaseType, U16
<1>5. AddressTimed'
  BY Ranges DEF AddressTimed, Steps, Running, TypeOK, CableType, ClientType,
     LeaseType, U16, Minutes, OneMode, ANY
<1> QED
  BY <1>1, <1>2, <1>3, <1>4, <1>5

LEMMA ArmKeeps == ASSUME OneMode, IInv, Arm PROVE IInv'
<1> USE DEF IInv, Arm, linkVars, addrVars, leaseVars, sessionVars, xidVars, pcbVars
<1>0. \A s : Try(s) \in 1 .. RequestTries + 1
  BY TryType
<1>1. Steps'
  BY DEF Steps, Running, TypeOK, CableType, ClientType, OneMode, AddressTimed
<1>2. Pcbs'
  BY Counts DEF Pcbs, Steps, Running, TypeOK, ClientType, MessageType
<1>3. TypeOK'
  <2>1. CableType'
    BY DEF TypeOK, CableType
  <2>2. ClientType'
    BY <1>0, Ranges DEF TypeOK, ClientType
  <2>3. LeaseType'
    BY Ranges DEF TypeOK, LeaseType
  <2>4. MessageType'
    BY <1>2, Ranges DEF TypeOK, MessageType, Pcbs
  <2> QED
    BY <2>1, <2>2, <2>3, <2>4 DEF TypeOK
<1>4. Minutes'
  BY Ranges DEF Minutes, TypeOK, LeaseType, U16
<1>5. AddressTimed'
  BY Ranges DEF AddressTimed, Steps, Running, TypeOK, CableType, ClientType,
     LeaseType, U16, Minutes, OneMode, ANY
<1> QED
  BY <1>1, <1>2, <1>3, <1>4, <1>5

LEMMA StopKeeps == ASSUME OneMode, IInv, Stop PROVE IInv'
<1> USE DEF IInv, Stop, linkVars, addrVars, leaseVars, sessionVars, xidVars, pcbVars
<1>0. \A s : Try(s) \in 1 .. RequestTries + 1
  BY TryType
<1>1. Steps'
  BY DEF Steps, Running, TypeOK, CableType, ClientType, OneMode, AddressTimed
<1>2. Pcbs'
  BY Counts DEF Pcbs, Steps, Running, TypeOK, ClientType, MessageType
<1>3. TypeOK'
  <2>1. CableType'
    BY DEF TypeOK, CableType
  <2>2. ClientType'
    BY <1>0, Ranges DEF TypeOK, ClientType
  <2>3. LeaseType'
    BY Ranges DEF TypeOK, LeaseType
  <2>4. MessageType'
    BY <1>2, Ranges DEF TypeOK, MessageType, Pcbs
  <2> QED
    BY <2>1, <2>2, <2>3, <2>4 DEF TypeOK
<1>4. Minutes'
  BY Ranges DEF Minutes, TypeOK, LeaseType, U16
<1>5. AddressTimed'
  BY Ranges DEF AddressTimed, Steps, Running, TypeOK, CableType, ClientType,
     LeaseType, U16, Minutes, OneMode, ANY
<1> QED
  BY <1>1, <1>2, <1>3, <1>4, <1>5

LEMMA ReleaseKeeps == ASSUME OneMode, IInv, Release PROVE IInv'
<1> USE DEF IInv, Release, Sends, linkVars, addrVars, leaseVars, sessionVars,
     xidVars, pcbVars
<1>0. \A s : Try(s) \in 1 .. RequestTries + 1
  BY TryType
<1>1. Steps'
  BY DEF Steps, Running, TypeOK, CableType, ClientType, OneMode, AddressTimed
<1>2. Pcbs'
  BY Counts DEF Pcbs, Steps, Running, TypeOK, ClientType, MessageType
<1>3. TypeOK'
  <2>1. CableType'
    BY DEF TypeOK, CableType
  <2>2. ClientType'
    BY <1>0, Ranges DEF TypeOK, ClientType
  <2>3. LeaseType'
    BY Ranges DEF TypeOK, LeaseType
  <2>4. MessageType'
    BY <1>2, Ranges DEF TypeOK, MessageType, Pcbs
  <2> QED
    BY <2>1, <2>2, <2>3, <2>4 DEF TypeOK
<1>4. Minutes'
  BY Ranges DEF Minutes, TypeOK, LeaseType, U16
<1>5. AddressTimed'
  BY Ranges DEF AddressTimed, Steps, Running, TypeOK, CableType, ClientType,
     LeaseType, U16, Minutes, OneMode, ANY
<1> QED
  BY <1>1, <1>2, <1>3, <1>4, <1>5

LEMMA UnaddressKeeps == ASSUME OneMode, IInv, Unaddress PROVE IInv'
<1> USE DEF IInv, Unaddress, NoAddress, linkVars, addrVars, leaseVars, sessionVars,
     xidVars, pcbVars
<1>0. \A s : Try(s) \in 1 .. RequestTries + 1
  BY TryType
<1>1. Steps'
  BY DEF Steps, Running, TypeOK, CableType, ClientType, OneMode, AddressTimed
<1>2. Pcbs'
  BY Counts DEF Pcbs, Steps, Running, TypeOK, ClientType, MessageType
<1>3. TypeOK'
  <2>1. CableType'
    BY DEF TypeOK, CableType
  <2>2. ClientType'
    BY <1>0, Ranges DEF TypeOK, ClientType
  <2>3. LeaseType'
    BY Ranges DEF TypeOK, LeaseType
  <2>4. MessageType'
    BY <1>2, Ranges DEF TypeOK, MessageType, Pcbs
  <2> QED
    BY <2>1, <2>2, <2>3, <2>4 DEF TypeOK
<1>4. Minutes'
  BY Ranges DEF Minutes, TypeOK, LeaseType, U16
<1>5. AddressTimed'
  BY Ranges DEF AddressTimed, Steps, Running, TypeOK, CableType, ClientType,
     LeaseType, U16, Minutes, OneMode, ANY
<1> QED
  BY <1>1, <1>2, <1>3, <1>4, <1>5

LEMMA OffKeeps == ASSUME OneMode, IInv, Off PROVE IInv'
<1> USE DEF IInv, Off, linkVars, addrVars, leaseVars, sessionVars, xidVars, pcbVars
<1>0. \A s : Try(s) \in 1 .. RequestTries + 1
  BY TryType
<1>1. Steps'
  BY DEF Steps, Running, TypeOK, CableType, ClientType, OneMode, AddressTimed
<1>2. Pcbs'
  BY Counts DEF Pcbs, Steps, Running, TypeOK, ClientType, MessageType
<1>3. TypeOK'
  <2>1. CableType'
    BY DEF TypeOK, CableType
  <2>2. ClientType'
    BY <1>0, Ranges DEF TypeOK, ClientType
  <2>3. LeaseType'
    BY Ranges DEF TypeOK, LeaseType
  <2>4. MessageType'
    BY <1>2, Ranges DEF TypeOK, MessageType, Pcbs
  <2> QED
    BY <2>1, <2>2, <2>3, <2>4 DEF TypeOK
<1>4. Minutes'
  BY Ranges DEF Minutes, TypeOK, LeaseType, U16
<1>5. AddressTimed'
  BY Ranges DEF AddressTimed, Steps, Running, TypeOK, CableType, ClientType,
     LeaseType, U16, Minutes, OneMode, ANY
<1> QED
  BY <1>1, <1>2, <1>3, <1>4, <1>5

LEMMA UnpcbKeeps == ASSUME OneMode, IInv, Unpcb PROVE IInv'
<1> USE DEF IInv, Unpcb, linkVars, addrVars, leaseVars, sessionVars, xidVars, pcbVars
<1>0. \A s : Try(s) \in 1 .. RequestTries + 1
  BY TryType
<1>1. Steps'
  BY DEF Steps, Running, TypeOK, CableType, ClientType, OneMode, AddressTimed
<1>2. Pcbs'
  BY Counts DEF Pcbs, Steps, Running, TypeOK, ClientType, MessageType
<1>3. TypeOK'
  <2>1. CableType'
    BY DEF TypeOK, CableType
  <2>2. ClientType'
    BY <1>0, Ranges DEF TypeOK, ClientType
  <2>3. LeaseType'
    BY Ranges DEF TypeOK, LeaseType
  <2>4. MessageType'
    BY <1>2, Ranges DEF TypeOK, MessageType, Pcbs
  <2> QED
    BY <2>1, <2>2, <2>3, <2>4 DEF TypeOK
<1>4. Minutes'
  BY Ranges DEF Minutes, TypeOK, LeaseType, U16
<1>5. AddressTimed'
  BY Ranges DEF AddressTimed, Steps, Running, TypeOK, CableType, ClientType,
     LeaseType, U16, Minutes, OneMode, ANY
<1> QED
  BY <1>1, <1>2, <1>3, <1>4, <1>5

LEMMA DownKeeps == ASSUME OneMode, IInv, Down PROVE IInv'
<1> USE DEF IInv, Down, linkVars, addrVars, leaseVars, sessionVars, xidVars, pcbVars
<1>0. \A s : Try(s) \in 1 .. RequestTries + 1
  BY TryType
<1>1. Steps'
  BY DEF Steps, Running, TypeOK, CableType, ClientType, OneMode, AddressTimed
<1>2. Pcbs'
  BY Counts DEF Pcbs, Steps, Running, TypeOK, ClientType, MessageType
<1>3. TypeOK'
  <2>1. CableType'
    BY DEF TypeOK, CableType
  <2>2. ClientType'
    BY <1>0, Ranges DEF TypeOK, ClientType
  <2>3. LeaseType'
    BY Ranges DEF TypeOK, LeaseType
  <2>4. MessageType'
    BY <1>2, Ranges DEF TypeOK, MessageType, Pcbs
  <2> QED
    BY <2>1, <2>2, <2>3, <2>4 DEF TypeOK
<1>4. Minutes'
  BY Ranges DEF Minutes, TypeOK, LeaseType, U16
<1>5. AddressTimed'
  BY Ranges DEF AddressTimed, Steps, Running, TypeOK, CableType, ClientType,
     LeaseType, U16, Minutes, OneMode, ANY
<1> QED
  BY <1>1, <1>2, <1>3, <1>4, <1>5

LEMMA RecvOfferKeeps == ASSUME OneMode, IInv, RecvOffer PROVE IInv'
<1> USE DEF IInv, RecvOffer, Answers, Discover, DoSelect, Enter, Sends, SendsRequest,
     tcpipFrame, linkVars, addrVars, leaseVars, sessionVars, xidVars, pcbVars
<1>0. \A s : Try(s) \in 1 .. RequestTries + 1
  BY TryType
<1>1. Steps'
  BY DEF Steps, Running, TypeOK, CableType, ClientType, OneMode, AddressTimed
<1>2. Pcbs'
  BY Counts DEF Pcbs, Steps, Running, TypeOK, ClientType, MessageType
<1>3. TypeOK'
  <2>1. CableType'
    BY DEF TypeOK, CableType
  <2>2. ClientType'
    BY <1>0, Ranges DEF TypeOK, ClientType
  <2>3. LeaseType'
    BY Ranges DEF TypeOK, LeaseType
  <2>4. MessageType'
    BY <1>2, Ranges DEF TypeOK, MessageType, Pcbs
  <2> QED
    BY <2>1, <2>2, <2>3, <2>4 DEF TypeOK
<1>4. Minutes'
  BY Ranges DEF Minutes, TypeOK, LeaseType, U16
<1>5. AddressTimed'
  BY Ranges DEF AddressTimed, Steps, Running, TypeOK, CableType, ClientType,
     LeaseType, U16, Minutes, OneMode, ANY
<1> QED
  BY <1>1, <1>2, <1>3, <1>4, <1>5

LEMMA RecvAckKeeps == ASSUME OneMode, IInv, RecvAck PROVE IInv'
<1> USE DEF IInv, RecvAck, Answers, Discover, DoSelect, Enter, Sends, SendsRequest,
     tcpipFrame, Bind, linkVars, addrVars, leaseVars, sessionVars, xidVars, pcbVars
<1>0. \A s : Try(s) \in 1 .. RequestTries + 1
  BY TryType
<1>1. Steps'
  <2>1. state \in {"REQUESTING", "RENEWING", "REBINDING"}
    OBVIOUS
  <2>2. pc' = pc /\ old_i' = old_i /\ state' \in {"CHECKING", "BOUND"}
    OBVIOUS
  <2>3. pc = "off" /\ addr' # ANY => late'
    <3>1. CASE UNCHANGED addrVars
      BY <3>1 DEF Steps
    <3>2. CASE Bind("a", lease')
      BY <3>2
    <3> QED
      BY <3>1, <3>2
  <2> HIDE DEF RecvAck
  <2> QED
    BY <2>1, <2>2, <2>3 DEF Steps, Running
<1>2. Pcbs'
  BY Counts DEF Pcbs, Steps, Running, TypeOK, ClientType, MessageType
<1>3. TypeOK'
  <2>1. CableType'
    BY DEF TypeOK, CableType
  <2>2. ClientType'
    BY <1>0, Ranges DEF TypeOK, ClientType
  <2>3. LeaseType'
    BY Ranges, BindTicks DEF TypeOK, LeaseType
  <2>4. MessageType'
    BY <1>2, Ranges DEF TypeOK, MessageType, Pcbs
  <2> QED
    BY <2>1, <2>2, <2>3, <2>4 DEF TypeOK
<1>4. Minutes'
  BY BindTicks, Ranges DEF Minutes, TypeOK, LeaseType, U16
<1>5. AddressTimed'
  BY BindTicks, Ranges DEF AddressTimed, Steps, Running, TypeOK, CableType, ClientType,
     LeaseType, U16, Minutes, OneMode, ANY
<1> QED
  BY <1>1, <1>2, <1>3, <1>4, <1>5

LEMMA RecvNakKeeps == ASSUME OneMode, IInv, RecvNak PROVE IInv'
<1> USE DEF IInv, RecvNak, NoAddress, Answers, Discover, DoSelect, Enter, Sends,
     SendsRequest, tcpipFrame, linkVars, addrVars, leaseVars, sessionVars, xidVars, pcbVars
<1>0. \A s : Try(s) \in 1 .. RequestTries + 1
  BY TryType
<1>1. Steps'
  BY DEF Steps, Running, TypeOK, CableType, ClientType, OneMode, AddressTimed
<1>2. Pcbs'
  BY Counts DEF Pcbs, Steps, Running, TypeOK, ClientType, MessageType
<1>3. TypeOK'
  <2>1. CableType'
    BY DEF TypeOK, CableType
  <2>2. ClientType'
    <3>1. refusals + 1 \in 0 .. MaxRefusals
      BY DhcpConstants DEF TypeOK, ClientType
    <3> QED
      BY <3>1, <1>0, Ranges DEF TypeOK, ClientType, ANY
  <2>3. LeaseType'
    BY Ranges DEF TypeOK, LeaseType
  <2>4. MessageType'
    BY <1>2, Ranges DEF TypeOK, MessageType, Pcbs
  <2> QED
    BY <2>1, <2>2, <2>3, <2>4 DEF TypeOK
<1>4. Minutes'
  BY Ranges DEF Minutes, TypeOK, LeaseType, U16
<1>5. AddressTimed'
  BY Ranges DEF AddressTimed, Steps, Running, TypeOK, CableType, ClientType,
     LeaseType, U16, Minutes, OneMode, ANY
<1> QED
  BY <1>1, <1>2, <1>3, <1>4, <1>5

LEMMA ArpReplyKeeps == ASSUME OneMode, IInv, ArpReply PROVE IInv'
<1> USE DEF IInv, ArpReply, Answers, Discover, DoSelect, Enter, Sends, SendsRequest,
     tcpipFrame, linkVars, addrVars, leaseVars, sessionVars, xidVars, pcbVars
<1>0. \A s : Try(s) \in 1 .. RequestTries + 1
  BY TryType
<1>1. Steps'
  BY DEF Steps, Running, TypeOK, CableType, ClientType, OneMode, AddressTimed
<1>2. Pcbs'
  BY Counts DEF Pcbs, Steps, Running, TypeOK, ClientType, MessageType
<1>3. TypeOK'
  <2>1. CableType'
    BY DEF TypeOK, CableType
  <2>2. ClientType'
    <3>1. refusals + 1 \in 0 .. MaxRefusals
      BY DhcpConstants DEF TypeOK, ClientType
    <3> QED
      BY <3>1, <1>0, Ranges DEF TypeOK, ClientType, ANY
  <2>3. LeaseType'
    BY Ranges DEF TypeOK, LeaseType
  <2>4. MessageType'
    BY <1>2, Ranges DEF TypeOK, MessageType, Pcbs
  <2> QED
    BY <2>1, <2>2, <2>3, <2>4 DEF TypeOK
<1>4. Minutes'
  BY Ranges DEF Minutes, TypeOK, LeaseType, U16
<1>5. AddressTimed'
  BY Ranges DEF AddressTimed, Steps, Running, TypeOK, CableType, ClientType,
     LeaseType, U16, Minutes, OneMode, ANY
<1> QED
  BY <1>1, <1>2, <1>3, <1>4, <1>5

LEMMA FineTimerKeeps == ASSUME OneMode, IInv, FineTimer PROVE IInv'
<1> USE DEF IInv, NoAddress, linkVars, addrVars, leaseVars, sessionVars, xidVars,
     pcbVars, tcpipFrame
<1> UNCHANGED tcpipFrame
  BY DEF FineTimer
<1>0. \A s : Try(s) \in 1 .. RequestTries + 1
  BY TryType
<1>1. CASE Discover /\ UNCHANGED <<addrVars, leaseVars, pcbVars>>
        /\ state \in {"SELECTING", "BACKING_OFF"}
  <2>1. Steps'
    BY <1>1 DEF Steps, Running, TypeOK, CableType, ClientType, OneMode, Discover, Enter,
       Sends
  <2>2. Pcbs'
    BY <1>1, Counts DEF Pcbs, Steps, Running, TypeOK, ClientType, MessageType, Discover,
       Enter, Sends
  <2>3. CableType'
    BY <1>1 DEF TypeOK, CableType, Discover, Enter, Sends
  <2>4. ClientType'
    BY <1>1, <1>0, Ranges DEF TypeOK, ClientType, ANY, Discover, Enter, Sends
  <2>5. LeaseType'
    BY <1>1, Ranges DEF TypeOK, LeaseType, Discover, Enter, Sends
  <2>6. MessageType'
    BY <1>1, <2>2, Ranges DEF TypeOK, MessageType, Pcbs, Discover, Enter, Sends
  <2>7. (Minutes /\ AddressTimed)'
    BY <1>1, Ranges DEF Minutes, AddressTimed, Steps, Running, TypeOK, LeaseType,
       ClientType, U16, OneMode, ANY, Discover, Enter, Sends
  <2> QED
    BY <2>1, <2>2, <2>3, <2>4, <2>5, <2>6, <2>7 DEF TypeOK
<1>2. CASE DoSelect /\ UNCHANGED <<addrVars, offered, leaseVars, pcbVars>>
        /\ state = "REQUESTING"
  <2>1. Steps'
    BY <1>2 DEF Steps, Running, TypeOK, CableType, ClientType, OneMode, DoSelect, Enter,
       SendsRequest
  <2>2. Pcbs'
    BY <1>2, Counts DEF Pcbs, Steps, Running, TypeOK, ClientType, MessageType, DoSelect,
       Enter, SendsRequest
  <2>3. CableType'
    BY <1>2 DEF TypeOK, CableType, DoSelect, Enter, SendsRequest
  <2>4. ClientType'
    BY <1>2, <1>0, Ranges DEF TypeOK, ClientType, ANY, DoSelect, Enter, SendsRequest
  <2>5. LeaseType'
    BY <1>2, Ranges DEF TypeOK, LeaseType, DoSelect, Enter, SendsRequest
  <2>6. MessageType'
    BY <1>2, <2>2, Ranges DEF TypeOK, MessageType, Pcbs, DoSelect, Enter, SendsRequest
  <2>7. (Minutes /\ AddressTimed)'
    BY <1>2, Ranges DEF Minutes, AddressTimed, Steps, Running, TypeOK, LeaseType,
       ClientType, U16, OneMode, ANY, DoSelect, Enter, SendsRequest
  <2> QED
    BY <2>1, <2>2, <2>3, <2>4, <2>5, <2>6, <2>7 DEF TypeOK
<1>3. CASE Restart /\ state = "REQUESTING"
  <2>1. Steps'
    BY <1>3 DEF Steps, Running, TypeOK, CableType, ClientType, OneMode, Restart
  <2>2. Pcbs'
    BY <1>3, Counts DEF Pcbs, Steps, Running, TypeOK, ClientType, MessageType, Restart
  <2>3. CableType'
    BY <1>3 DEF TypeOK, CableType, Restart
  <2>4. ClientType'
    BY <1>3, <1>0, Ranges DEF TypeOK, ClientType, ANY, Restart
  <2>5. LeaseType'
    BY <1>3, Ranges DEF TypeOK, LeaseType, Restart
  <2>6. MessageType'
    BY <1>3, <2>2, Ranges DEF TypeOK, MessageType, Pcbs, Restart
  <2>7. (Minutes /\ AddressTimed)'
    BY <1>3, Ranges DEF Minutes, AddressTimed, Steps, Running, TypeOK, LeaseType,
       ClientType, U16, OneMode, ANY, Restart
  <2> QED
    BY <2>1, <2>2, <2>3, <2>4, <2>5, <2>6, <2>7 DEF TypeOK
<1>4. CASE Enter("CHECKING") /\ UNCHANGED <<addrVars, offered, leaseVars, pcbVars, xidVars>>
        /\ state = "CHECKING"
  <2>1. Steps'
    BY <1>4 DEF Steps, Running, TypeOK, CableType, ClientType, OneMode, Enter
  <2>2. Pcbs'
    BY <1>4, Counts DEF Pcbs, Steps, Running, TypeOK, ClientType, MessageType, Enter
  <2>3. CableType'
    BY <1>4 DEF TypeOK, CableType, Enter
  <2>4. ClientType'
    BY <1>4, <1>0, Ranges DEF TypeOK, ClientType, ANY, Enter
  <2>5. LeaseType'
    BY <1>4, Ranges DEF TypeOK, LeaseType, Enter
  <2>6. MessageType'
    BY <1>4, <2>2, Ranges DEF TypeOK, MessageType, Pcbs, Enter
  <2>7. (Minutes /\ AddressTimed)'
    BY <1>4, Ranges DEF Minutes, AddressTimed, Steps, Running, TypeOK, LeaseType,
       ClientType, U16, OneMode, ANY, Enter
  <2> QED
    BY <2>1, <2>2, <2>3, <2>4, <2>5, <2>6, <2>7 DEF TypeOK
<1>5. CASE Bind(offered, lease) /\ UNCHANGED <<offered, lease, pcbVars, xidVars>>
        /\ state = "CHECKING"
  <2>1. Steps'
    BY <1>5 DEF Steps, Running, TypeOK, CableType, ClientType, OneMode, Bind
  <2>2. Pcbs'
    BY <1>5, Counts DEF Pcbs, Steps, Running, TypeOK, ClientType, MessageType, Bind
  <2>3. CableType'
    BY <1>5 DEF TypeOK, CableType, Bind
  <2>4. ClientType'
    BY <1>5, <1>0, Ranges DEF TypeOK, ClientType, ANY, Bind
  <2>5. LeaseType'
    BY <1>5, Ranges, BindTicks DEF TypeOK, LeaseType, Bind
  <2>6. MessageType'
    BY <1>5, <2>2, Ranges DEF TypeOK, MessageType, Pcbs, Bind
  <2>7. (Minutes /\ AddressTimed)'
    BY <1>5, Ranges, BindTicks DEF Minutes, AddressTimed, Steps, Running, TypeOK,
       LeaseType, ClientType, U16, OneMode, ANY, Bind
  <2> QED
    BY <2>1, <2>2, <2>3, <2>4, <2>5, <2>6, <2>7 DEF TypeOK
<1>6. CASE timer' = FALSE /\ Supplied(state)
        /\ UNCHANGED <<addrVars, state, tries, offered, leaseVars, pcbVars, xidVars>>
  <2>1. Steps'
    BY <1>6 DEF Steps, Running, TypeOK, CableType, ClientType, OneMode, Supplied
  <2>2. Pcbs'
    BY <1>6, Counts DEF Pcbs, Steps, Running, TypeOK, ClientType, MessageType, Supplied
  <2>3. CableType'
    BY <1>6 DEF TypeOK, CableType, Supplied
  <2>4. ClientType'
    BY <1>6, <1>0, Ranges DEF TypeOK, ClientType, ANY, Supplied
  <2>5. LeaseType'
    BY <1>6, Ranges DEF TypeOK, LeaseType, Supplied
  <2>6. MessageType'
    BY <1>6, <2>2, Ranges DEF TypeOK, MessageType, Pcbs, Supplied
  <2>7. (Minutes /\ AddressTimed)'
    BY <1>6, Ranges DEF Minutes, AddressTimed, Steps, Running, TypeOK, LeaseType,
       ClientType, U16, OneMode, ANY, Supplied
  <2> QED
    BY <2>1, <2>2, <2>3, <2>4, <2>5, <2>6, <2>7 DEF TypeOK
<1> QED
  BY <1>1, <1>2, <1>3, <1>4, <1>5, <1>6 DEF FineTimer, NoRequest, Supplied

LEMMA CoarseTickKeeps == ASSUME OneMode, IInv, CoarseTick PROVE IInv'
<1> USE DEF IInv, NoAddress, linkVars, addrVars, leaseVars, sessionVars, xidVars,
     pcbVars, tcpipFrame
<1> UNCHANGED tcpipFrame
  BY DEF CoarseTick
<1>0. \A s : Try(s) \in 1 .. RequestTries + 1
  BY TryType
<1>1. CASE Running /\ t0 # 0 /\ used + 1 = t0 /\ Restart
  <2>1. Steps'
    BY <1>1 DEF Steps, Running, TypeOK, CableType, ClientType, OneMode, Restart
  <2>2. Pcbs'
    BY <1>1, Counts DEF Pcbs, Steps, Running, TypeOK, ClientType, MessageType, Restart
  <2>3. CableType'
    BY <1>1 DEF TypeOK, CableType, Restart
  <2>4. ClientType'
    BY <1>1, <1>0, Ranges DEF TypeOK, ClientType, ANY, Restart
  <2>5. LeaseType'
    BY <1>1, Ranges DEF TypeOK, LeaseType, Restart
  <2>6. MessageType'
    BY <1>1, <2>2, Ranges DEF TypeOK, MessageType, Pcbs, Restart
  <2>7. (Minutes /\ AddressTimed)'
    BY <1>1, Ranges DEF Minutes, AddressTimed, Steps, Running, TypeOK, LeaseType,
       ClientType, U16, OneMode, ANY, Restart
  <2> QED
    BY <2>1, <2>2, <2>3, <2>4, <2>5, <2>6, <2>7 DEF TypeOK
<1>2. CASE Running /\ UNCHANGED <<addrVars, offered, lease, t0, t2Timeout, pcbVars>>
        /\ (t0 = 0 \/ used + 1 # t0) /\ used' = (IF t0 = 0 THEN used ELSE used + 1)
        /\ UNCHANGED t1 /\ Rebind
  <2>1. Steps'
    BY <1>2 DEF Steps, Running, TypeOK, CableType, ClientType, OneMode, Rebind, Enter,
       SendsRequest
  <2>2. Pcbs'
    BY <1>2, Counts DEF Pcbs, Steps, Running, TypeOK, ClientType, MessageType, Rebind,
       Enter, SendsRequest
  <2>3. CableType'
    BY <1>2 DEF TypeOK, CableType, Rebind, Enter, SendsRequest
  <2>4. ClientType'
    BY <1>2, <1>0, Ranges DEF TypeOK, ClientType, ANY, Rebind, Enter, SendsRequest
  <2>a. used' \in U16
    BY <1>2 DEF TypeOK, LeaseType, Minutes, U16
  <2>5. LeaseType'
    BY <2>a, <1>2, Ranges DEF TypeOK, LeaseType, Rebind, Enter, SendsRequest
  <2>6. MessageType'
    BY <1>2, <2>2, Ranges DEF TypeOK, MessageType, Pcbs, Rebind, Enter, SendsRequest
  <2>7. (Minutes /\ AddressTimed)'
    BY <1>2, Ranges DEF Minutes, AddressTimed, Steps, Running, TypeOK, LeaseType,
       ClientType, U16, OneMode, ANY, Rebind, Enter, SendsRequest
  <2> QED
    BY <2>1, <2>2, <2>3, <2>4, <2>5, <2>6, <2>7 DEF TypeOK
<1>3. CASE Running /\ UNCHANGED <<addrVars, offered, lease, t0, t2Timeout, pcbVars>>
        /\ (t0 = 0 \/ used + 1 # t0) /\ used' = (IF t0 = 0 THEN used ELSE used + 1)
        /\ UNCHANGED <<t1, sessionVars, xidVars>> /\ t2' = 0
  <2>1. Steps'
    BY <1>3 DEF Steps, Running, TypeOK, CableType, ClientType, OneMode, ANY
  <2>2. Pcbs'
    BY <1>3, Counts DEF Pcbs, Steps, Running, TypeOK, ClientType, MessageType, ANY
  <2>3. CableType'
    BY <1>3 DEF TypeOK, CableType, ANY
  <2>4. ClientType'
    BY <1>3, <1>0, Ranges DEF TypeOK, ClientType, ANY, NoRequest
  <2>a. used' \in U16
    BY <1>3 DEF TypeOK, LeaseType, Minutes, U16
  <2>5. LeaseType'
    BY <2>a, <1>3, Ranges DEF TypeOK, LeaseType, ANY
  <2>6. MessageType'
    BY <1>3, <2>2, Ranges DEF TypeOK, MessageType, Pcbs, ANY
  <2>7. (Minutes /\ AddressTimed)'
    BY <1>3, Ranges DEF Minutes, AddressTimed, Steps, Running, TypeOK, LeaseType,
       ClientType, U16, OneMode, ANY, NoRequest
  <2> QED
    BY <2>1, <2>2, <2>3, <2>4, <2>5, <2>6, <2>7 DEF TypeOK
<1>4. CASE Running /\ UNCHANGED <<addrVars, offered, lease, t0, t2Timeout, pcbVars>>
        /\ (t0 = 0 \/ used + 1 # t0) /\ used' = (IF t0 = 0 THEN used ELSE used + 1)
        /\ t2' = Less(t2) /\ Renew
  <2>1. Steps'
    BY <1>4 DEF Steps, Running, TypeOK, CableType, ClientType, OneMode, Renew, Enter,
       SendsRequest
  <2>2. Pcbs'
    BY <1>4, Counts DEF Pcbs, Steps, Running, TypeOK, ClientType, MessageType, Renew,
       Enter, SendsRequest
  <2>3. CableType'
    BY <1>4 DEF TypeOK, CableType, Renew, Enter, SendsRequest
  <2>4. ClientType'
    BY <1>4, <1>0, Ranges DEF TypeOK, ClientType, ANY, Renew, Enter, SendsRequest
  <2>a. used' \in U16
    BY <1>4 DEF TypeOK, LeaseType, Minutes, U16
  <2>5. LeaseType'
    BY <2>a, <1>4, Ranges DEF TypeOK, LeaseType, Renew, Enter, SendsRequest
  <2>6. MessageType'
    BY <1>4, <2>2, Ranges DEF TypeOK, MessageType, Pcbs, Renew, Enter, SendsRequest
  <2>7. (Minutes /\ AddressTimed)'
    BY <1>4, Ranges DEF Minutes, AddressTimed, Steps, Running, TypeOK, LeaseType,
       ClientType, U16, OneMode, ANY, Renew, Enter, SendsRequest
  <2> QED
    BY <2>1, <2>2, <2>3, <2>4, <2>5, <2>6, <2>7 DEF TypeOK
<1>5. CASE Running /\ UNCHANGED <<addrVars, offered, lease, t0, t2Timeout, pcbVars>>
        /\ (t0 = 0 \/ used + 1 # t0) /\ used' = (IF t0 = 0 THEN used ELSE used + 1)
        /\ t2' = Less(t2) /\ t1' = 0 /\ UNCHANGED <<sessionVars, xidVars>>
  <2>1. Steps'
    BY <1>5 DEF Steps, Running, TypeOK, CableType, ClientType, OneMode, ANY
  <2>2. Pcbs'
    BY <1>5, Counts DEF Pcbs, Steps, Running, TypeOK, ClientType, MessageType, ANY
  <2>3. CableType'
    BY <1>5 DEF TypeOK, CableType, ANY
  <2>4. ClientType'
    BY <1>5, <1>0, Ranges DEF TypeOK, ClientType, ANY, NoRequest
  <2>a. used' \in U16
    BY <1>5 DEF TypeOK, LeaseType, Minutes, U16
  <2>5. LeaseType'
    BY <2>a, <1>5, Ranges DEF TypeOK, LeaseType, ANY
  <2>6. MessageType'
    BY <1>5, <2>2, Ranges DEF TypeOK, MessageType, Pcbs, ANY
  <2>7. (Minutes /\ AddressTimed)'
    BY <1>5, Ranges DEF Minutes, AddressTimed, Steps, Running, TypeOK, LeaseType,
       ClientType, U16, OneMode, ANY, NoRequest
  <2> QED
    BY <2>1, <2>2, <2>3, <2>4, <2>5, <2>6, <2>7 DEF TypeOK
<1>6. CASE Running /\ UNCHANGED <<addrVars, offered, lease, t0, t2Timeout, pcbVars>>
        /\ (t0 = 0 \/ used + 1 # t0) /\ used' = (IF t0 = 0 THEN used ELSE used + 1)
        /\ t2' = Less(t2) /\ t1' = Less(t1) /\ UNCHANGED <<sessionVars, xidVars>>
  <2>1. Steps'
    BY <1>6 DEF Steps, Running, TypeOK, CableType, ClientType, OneMode, ANY
  <2>2. Pcbs'
    BY <1>6, Counts DEF Pcbs, Steps, Running, TypeOK, ClientType, MessageType, ANY
  <2>3. CableType'
    BY <1>6 DEF TypeOK, CableType, ANY
  <2>4. ClientType'
    BY <1>6, <1>0, Ranges DEF TypeOK, ClientType, ANY, NoRequest
  <2>a. used' \in U16
    BY <1>6 DEF TypeOK, LeaseType, Minutes, U16
  <2>5. LeaseType'
    BY <2>a, <1>6, Ranges DEF TypeOK, LeaseType, ANY
  <2>6. MessageType'
    BY <1>6, <2>2, Ranges DEF TypeOK, MessageType, Pcbs, ANY
  <2>7. (Minutes /\ AddressTimed)'
    BY <1>6, Ranges DEF Minutes, AddressTimed, Steps, Running, TypeOK, LeaseType,
       ClientType, U16, OneMode, ANY, NoRequest
  <2> QED
    BY <2>1, <2>2, <2>3, <2>4, <2>5, <2>6, <2>7 DEF TypeOK
<1> QED
  BY <1>1, <1>2, <1>3, <1>4, <1>5, <1>6 DEF CoarseTick, NoRequest, Supplied

LEMMA StepKeeps == ASSUME OneMode, IInv, [Next]_vars PROVE IInv'
<1>1. CASE PhyChanges
  BY <1>1, PhyChangesKeeps
<1>2. CASE Poll
  BY <1>2, PollKeeps
<1>3. CASE LinkUp
  BY <1>3, LinkUpKeeps
<1>4. CASE Start
  BY <1>4, StartKeeps
<1>5. CASE Clear
  BY <1>5, ClearKeeps
<1>6. CASE Pcb
  BY <1>6, PcbKeeps
<1>7. CASE Select
  BY <1>7, SelectKeeps
<1>8. CASE Send
  BY <1>8, SendKeeps
<1>9. CASE Arm
  BY <1>9, ArmKeeps
<1>10. CASE Stop
  BY <1>10, StopKeeps
<1>11. CASE Release
  BY <1>11, ReleaseKeeps
<1>12. CASE Unaddress
  BY <1>12, UnaddressKeeps
<1>13. CASE Off
  BY <1>13, OffKeeps
<1>14. CASE Unpcb
  BY <1>14, UnpcbKeeps
<1>15. CASE Down
  BY <1>15, DownKeeps
<1>16. CASE FineTimer
  BY <1>16, FineTimerKeeps
<1>17. CASE CoarseTick
  BY <1>17, CoarseTickKeeps
<1>18. CASE RecvOffer
  BY <1>18, RecvOfferKeeps
<1>19. CASE RecvAck
  BY <1>19, RecvAckKeeps
<1>20. CASE RecvNak
  BY <1>20, RecvNakKeeps
<1>21. CASE ArpReply
  BY <1>21, ArpReplyKeeps
<1>22. CASE UNCHANGED vars
  BY <1>22 DEF vars, linkVars, addrVars, leaseVars, sessionVars, xidVars, pcbVars, IInv,
     TypeOK, CableType, ClientType, LeaseType, MessageType,
     Steps, Pcbs, Minutes, AddressTimed, Running
<1> QED
  BY <1>1, <1>2, <1>3, <1>4, <1>5, <1>6, <1>7, <1>8, <1>9, <1>10, <1>11, <1>12, <1>13,
     <1>14, <1>15, <1>16, <1>17, <1>18, <1>19, <1>20, <1>21, <1>22 DEF Next, LinkTask

LEMMA Inductive == ASSUME OneMode PROVE Spec => []IInv
  BY InitHolds, StepKeeps, PTL DEF Spec

(* Every field of struct dhcp keeps its range: no tick count wraps. *)
THEOREM TypeOKHolds == ASSUME OneMode PROVE Spec => []TypeOK
<1>1. IInv => TypeOK
  BY DEF IInv
<1> QED
  BY <1>1, Inductive, PTL

(* netif_set_link_up finds a client that is off. *)
THEOREM OffAtLinkUpHolds == ASSUME OneMode PROVE Spec => []OffAtLinkUp
<1>1. IInv => OffAtLinkUp
  BY DEF IInv, Steps, OffAtLinkUp, Running
<1> QED
  BY <1>1, Inductive, PTL

(* The PCB is counted by its client, and a running client has it. *)
THEOREM PcbCountedHolds == ASSUME OneMode PROVE Spec => []PcbCounted
<1>1. IInv => PcbCounted
  BY DEF IInv, Pcbs, Steps, PcbCounted, Running
<1> QED
  BY <1>1, Inductive, PTL

(* An address is not kept after its lease, unless it was bound after it    *)
(* had been taken away and before the client was off.                      *)
THEOREM AddressTimedHolds == ASSUME OneMode PROVE Spec => []AddressTimed
<1>1. IInv => AddressTimed
  BY DEF IInv
<1> QED
  BY <1>1, Inductive, PTL
=============================================================================
