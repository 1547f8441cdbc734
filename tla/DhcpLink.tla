------------------------------ MODULE DhcpLink ------------------------------
(***************************************************************************)
(* The link monitor Eth_Link_IT_task of bsp_lan8720.c, the functions of    *)
(* netconf.c it calls, and the DHCP client they start and stop.  The task  *)
(* has a lower priority than the tcpip thread and takes no lock, so that   *)
(* timers and answers of the server are handled between any two of its     *)
(* steps; what the tcpip thread does for one of them is one action.        *)
(*                                                                         *)
(* A transaction id is random and compared for equality only: an answer to *)
(* a message with another id than the last one drawn is ignored, so that   *)
(* the messages with the last one are all that is kept.                    *)
(***************************************************************************)
EXTENDS Integers

CONSTANTS
  Phys,          \* what PHY_SR may read: "none", or a mode with ETH_LINK_FLAG
  Garbage,       \* what old_i may hold when the task starts
  Leases,        \* lease times the server grants, in seconds
  RequestTries,  \* "tries <= 5" of dhcp_timeout
  MayLack,       \* memory that may be short: "heap", "pcb", "pbuf"
  MaxRefusals    \* bound: answers NAK and address conflicts

ASSUME DhcpConstants ==
  /\ Leases \subseteq Nat /\ RequestTries \in Nat \ {0} /\ MaxRefusals \in Nat

VARIABLES
  phy,           \* the state of the cable
  pc, old_i,     \* the link task
  up,            \* netif: link and interface are up
  addr,          \* netif: the address, or ANY
  state, tries,  \* struct dhcp
  timer,         \* request_timeout runs
  offered,       \* offered_ip_addr
  lease,         \* offered_t0_lease
  t0, used,      \* t0_timeout, lease_used
  t1, t2,        \* t1_renew_time, t2_rebind_time
  t2Timeout,     \* t2_timeout
  pcbAllocated,
  mine,          \* dhcp->xid is the last id drawn
  asked,         \* messages with the last id drawn
  refs,          \* dhcp_pcb_refcount
  late,          \* ghost: addr was bound between netif_set_addr and Off
  refusals

linkVars == <<phy, pc, old_i, up>>
addrVars == <<addr, late>>
leaseVars == <<lease, t0, used, t1, t2, t2Timeout>>
sessionVars == <<state, tries, timer>>
xidVars == <<mine, asked>>
pcbVars == <<pcbAllocated, refs>>
vars == <<linkVars, addrVars, sessionVars, offered, leaseVars, pcbVars, xidVars, refusals>>

ANY == "any"
Supplied(s) == s \in {"BOUND", "RENEWING", "REBINDING"}
Running == state \notin {"NULL", "OFF"}
Min2(a, b) == IF a < b THEN a ELSE b

(* Coarse ticks of a time in seconds, as in dhcp_bind. *)
Ticks(secs) ==
  LET n == Min2((secs + 30) \div 60, 65535) IN IF n = 0 THEN 1 ELSE n

(* dhcp_set_state and tries++: the tries of state s after one more. *)
Try(s) == IF s # state THEN 1 ELSE Min2(tries + 1, RequestTries + 1)
Enter(s) == state' = s /\ tries' = Try(s) /\ timer' = TRUE

(* dhcp_create_msg of a message that is no REQUEST draws a new id at the   *)
(* first try and sends with the last one drawn.                            *)
Sends(type, first) ==
  \/ /\ mine' = TRUE
     /\ asked' = (IF first THEN {} ELSE asked) \cup type
  \/ "pbuf" \in MayLack /\ UNCHANGED xidVars
SendsRequest ==
  /\ UNCHANGED mine
  /\ asked' \in {asked \cup {"REQUEST"}} \cup (IF "pbuf" \in MayLack THEN {asked} ELSE {})

(* netif_set_addr with no address *)
NoAddress == addr' = ANY /\ late' = FALSE

Init ==
  /\ phy \in Phys /\ pc = "idle" /\ old_i \in Garbage /\ up = FALSE
  /\ addr = ANY /\ state = "NULL" /\ tries = 0 /\ timer = FALSE
  /\ offered = ANY /\ lease = 0 /\ t0 = 0 /\ used = 0 /\ t1 = 0 /\ t2 = 0 /\ t2Timeout = 0
  /\ pcbAllocated = FALSE /\ refs = 0
  /\ mine = FALSE /\ asked = {} /\ late = FALSE /\ refusals = 0

-----------------------------------------------------------------------------
(* The link task *)

PhyChanges ==
  /\ phy' \in Phys \ {phy}
  /\ UNCHANGED <<pc, old_i, up, addrVars, sessionVars, offered, leaseVars, pcbVars, xidVars,
                 refusals>>

Poll ==
  /\ pc = "idle" /\ phy # old_i
  /\ old_i' = phy /\ pc' = IF phy = "none" THEN "stop" ELSE "linkup"
  /\ UNCHANGED <<phy, up, addrVars, sessionVars, offered, leaseVars, pcbVars, xidVars,
                 refusals>>

(* LwIP_ETH_Connect: netif_set_link_up, whose dhcp_network_changed does    *)
(* nothing for a client that is off (see OffAtLinkUp), netif_set_up.       *)
LinkUp ==
  /\ pc = "linkup"
  /\ up' = TRUE /\ pc' = "start"
  /\ UNCHANGED <<phy, old_i, addrVars, sessionVars, offered, leaseVars, pcbVars, xidVars,
                 refusals>>

(* dhcp_start: struct dhcp is allocated, or its PCB is given up. *)
Start ==
  /\ pc = "start"
  /\ \/ /\ state = "NULL" /\ pc' = "clear" /\ UNCHANGED refs
     \/ /\ state = "NULL" /\ "heap" \in MayLack /\ pc' = "idle" /\ UNCHANGED refs
     \/ /\ state # "NULL" /\ pc' = "clear"
        /\ refs' = IF pcbAllocated THEN (refs - 1) % 256 ELSE refs
  /\ UNCHANGED <<phy, old_i, up, addrVars, sessionVars, offered, leaseVars, pcbAllocated,
                 xidVars, refusals>>

(* memset *)
Clear ==
  /\ pc = "clear" /\ pc' = "pcb"
  /\ state' = "OFF" /\ tries' = 0 /\ timer' = FALSE /\ offered' = ANY
  /\ lease' = 0 /\ t0' = 0 /\ used' = 0 /\ t1' = 0 /\ t2' = 0 /\ t2Timeout' = 0
  /\ pcbAllocated' = FALSE /\ mine' = FALSE
  /\ UNCHANGED <<phy, old_i, up, addrVars, refs, asked, refusals>>

(* dhcp_inc_pcb_refcount; the tcpip thread does nothing for a client that  *)
(* is off.                                                                 *)
Pcb ==
  /\ pc = "pcb"
  /\ \/ pc' = "select" /\ refs' = (refs + 1) % 256 /\ pcbAllocated' = TRUE
     \/ refs = 0 /\ "pcb" \in MayLack /\ pc' = "idle" /\ UNCHANGED pcbVars
  /\ UNCHANGED <<phy, old_i, up, addrVars, sessionVars, offered, leaseVars, xidVars, refusals>>

(* dhcp_discover: the state, the message, the timer. *)
Select ==
  /\ pc = "select" /\ pc' = "send"
  /\ state' = "SELECTING" /\ tries' = 0 /\ timer' = FALSE /\ offered' = ANY
  /\ UNCHANGED <<phy, old_i, up, addrVars, leaseVars, pcbVars, xidVars, refusals>>

Send ==
  /\ pc = "send" /\ pc' = "arm"
  /\ Sends({"DISCOVER"}, tries = 0)
  /\ UNCHANGED <<phy, old_i, up, addrVars, sessionVars, offered, leaseVars, pcbVars, refusals>>

ArmMutant ==                     \* mutant: request_timeout is not set
  /\ pc = "arm" /\ pc' = "idle"
  /\ tries' = Try(state)
  /\ UNCHANGED <<phy, old_i, up, addrVars, state, timer, offered, leaseVars, pcbVars, xidVars,
                 refusals>>

Arm ==
  /\ pc = "arm" /\ pc' = "idle"
  /\ tries' = Try(state) /\ timer' = TRUE
  /\ UNCHANGED <<phy, old_i, up, addrVars, state, offered, leaseVars, pcbVars, xidVars,
                 refusals>>

(* LwIP_ETH_DisConnect: dhcp_release_and_stop *)
Stop ==
  /\ pc = "stop"
  /\ IF Running
     THEN /\ pc' = "release" /\ offered' = ANY /\ lease' = 0
          /\ t0' = 0 /\ used' = 0 /\ t1' = 0 /\ t2' = 0
     ELSE pc' = "down" /\ UNCHANGED <<offered, lease, t0, used, t1, t2>>
  /\ UNCHANGED <<phy, old_i, up, addrVars, sessionVars, t2Timeout, pcbVars, xidVars, refusals>>

Release ==
  /\ pc = "release" /\ pc' = "unaddress"
  /\ IF Supplied(state) THEN Sends({}, tries = 0) ELSE UNCHANGED xidVars
  /\ UNCHANGED <<phy, old_i, up, addrVars, sessionVars, offered, leaseVars, pcbVars, refusals>>

Unaddress ==
  /\ pc = "unaddress" /\ pc' = "off"
  /\ NoAddress
  /\ UNCHANGED <<phy, old_i, up, sessionVars, offered, leaseVars, pcbVars, xidVars,
                 refusals>>

Off ==
  /\ pc = "off" /\ pc' = "unpcb"
  /\ state' = "OFF" /\ tries' = 0 /\ timer' = FALSE
  /\ UNCHANGED <<phy, old_i, up, addrVars, offered, leaseVars, pcbVars, xidVars, refusals>>

UnpcbMutant ==                   \* mutant: pcb_allocated is not reset
  /\ pc = "unpcb" /\ pc' = "down"
  /\ refs' = IF pcbAllocated THEN (refs - 1) % 256 ELSE refs
  /\ UNCHANGED <<phy, old_i, up, addrVars, sessionVars, offered, leaseVars, pcbAllocated,
                 xidVars, refusals>>

Unpcb ==
  /\ pc = "unpcb" /\ pc' = "down"
  /\ refs' = IF pcbAllocated THEN (refs - 1) % 256 ELSE refs
  /\ pcbAllocated' = FALSE
  /\ UNCHANGED <<phy, old_i, up, addrVars, sessionVars, offered, leaseVars, xidVars, refusals>>

(* netif_set_link_down, netif_set_down *)
Down ==
  /\ pc = "down" /\ pc' = "idle"
  /\ up' = FALSE
  /\ UNCHANGED <<phy, old_i, addrVars, sessionVars, offered, leaseVars, pcbVars, xidVars,
                 refusals>>

-----------------------------------------------------------------------------
(* The tcpip thread: parts of its handlers *)

tcpipFrame == <<linkVars, refusals>>

Discover ==
  /\ offered' = ANY /\ Enter("SELECTING")
  /\ Sends({"DISCOVER"}, Try("SELECTING") = 1)
DoSelect == Enter("REQUESTING") /\ SendsRequest

(* dhcp_bind: the address addr0 for secs seconds. *)
BindMutant(a, secs) ==           \* mutant: lease_used is not reset
  /\ UNCHANGED used
  /\ t0' = Ticks(secs) /\ t1' = Ticks(secs \div 2)
  /\ t2' = Ticks((secs * 7) \div 8) /\ t2Timeout' = t2'
  /\ state' = "BOUND" /\ tries' = 0 /\ timer' = FALSE
  /\ addr' = a /\ late' = (pc = "off")
Bind(a, secs) ==
  /\ used' = 0
  /\ t0' = Ticks(secs) /\ t1' = Ticks(secs \div 2)
  /\ t2' = Ticks((secs * 7) \div 8) /\ t2Timeout' = t2'
  /\ state' = "BOUND" /\ tries' = 0 /\ timer' = FALSE
  /\ addr' = a /\ late' = (pc = "off")

(* dhcp_release_and_stop, then dhcp_start: the message RELEASE draws an id *)
(* at the first try, DISCOVER always does.  The PCB given up is free to be *)
(* taken again, so that udp_new does not fail.                             *)
Restart ==
  /\ NoAddress /\ offered' = ANY /\ state' = "SELECTING" /\ tries' = 1 /\ timer' = TRUE
  /\ lease' = 0 /\ t0' = 0 /\ used' = 0 /\ t1' = 0 /\ t2' = 0 /\ t2Timeout' = 0
  /\ UNCHANGED pcbVars
  /\ \/ mine' = TRUE /\ asked' = {"DISCOVER"}
     \/ /\ "pbuf" \in MayLack /\ mine' = FALSE
        /\ asked' \in {asked} \cup (IF Supplied(state) /\ tries = 0 THEN {{}} ELSE {})

(* dhcp_timeout, called by dhcp_fine_tmr when request_timeout reaches 0 *)
FineTimer ==
  /\ timer
  /\ \/ /\ state \in {"SELECTING", "BACKING_OFF"}
        /\ Discover /\ UNCHANGED <<addrVars, leaseVars, pcbVars>>
     \/ /\ state = "REQUESTING" /\ tries <= RequestTries
        /\ DoSelect /\ UNCHANGED <<addrVars, offered, leaseVars, pcbVars>>
     \/ /\ state = "REQUESTING" /\ tries > RequestTries
        /\ Restart
     \/ /\ state = "CHECKING" /\ tries <= 1
        /\ Enter("CHECKING") /\ UNCHANGED <<addrVars, offered, leaseVars, pcbVars, xidVars>>
     \/ /\ state = "CHECKING" /\ tries > 1
        /\ Bind(offered, lease) /\ UNCHANGED <<offered, lease, pcbVars, xidVars>>
     \/ /\ state \in {"RENEWING", "REBINDING"} /\ timer' = FALSE
        /\ UNCHANGED <<addrVars, state, tries, offered, leaseVars, pcbVars, xidVars>>
  /\ UNCHANGED tcpipFrame

Less(t) == IF t = 0 THEN 0 ELSE t - 1

(* The next rebind or renewal: half the time that is left, if that is at   *)
(* least a minute.                                                         *)
Half(left) == IF left >= 2 THEN left \div 2 ELSE 0

Rebind ==
  /\ state \in {"REQUESTING", "BOUND", "RENEWING", "REBINDING"}
  /\ Enter("REBINDING") /\ SendsRequest
  /\ t2' = Half(t0 - used')
Renew ==
  /\ state \in {"REQUESTING", "BOUND", "RENEWING"}
  /\ Enter("RENEWING") /\ SendsRequest
  /\ t1' = Half(t2Timeout - used')
NoRequest(states) == state \notin states /\ UNCHANGED <<sessionVars, xidVars>>

(* dhcp_coarse_tmr, once a minute *)
CoarseTick ==
  /\ Running
  /\ \/ t0 # 0 /\ used + 1 = t0 /\ Restart
     \/ /\ t0 = 0 \/ used + 1 # t0
        /\ used' = IF t0 = 0 THEN used ELSE used + 1
        /\ \/ /\ t2 = 1
              /\ \/ Rebind
                 \/ NoRequest({"REQUESTING", "BOUND", "RENEWING", "REBINDING"}) /\ t2' = 0
              /\ UNCHANGED t1
           \/ /\ t2 # 1 /\ t1 = 1
              /\ t2' = Less(t2)
              /\ \/ Renew
                 \/ NoRequest({"REQUESTING", "BOUND", "RENEWING"}) /\ t1' = 0
           \/ /\ t2 # 1 /\ t1 # 1
              /\ t2' = Less(t2) /\ t1' = Less(t1)
              /\ t0 # 0 \/ t1 # 0 \/ t2 # 0
              /\ UNCHANGED <<sessionVars, xidVars>>
        /\ UNCHANGED <<addrVars, offered, lease, t0, t2Timeout, pcbVars>>
  /\ UNCHANGED tcpipFrame

(* dhcp_recv: an answer to the last message, from the server *)
Answers(type) == pcbAllocated /\ mine /\ type \in asked

RecvOffer ==
  /\ Answers("DISCOVER") /\ state = "SELECTING"
  /\ offered' = "a"
  /\ DoSelect
  /\ UNCHANGED <<addrVars, leaseVars, pcbVars, tcpipFrame>>

(* dhcp_handle_ack: without the option of the lease time the last stays. *)
RecvAck ==
  /\ Answers("REQUEST")
  /\ offered' = "a" /\ lease' \in Leases \cup {lease}
  /\ \/ /\ state = "REQUESTING"
        /\ Enter("CHECKING") /\ UNCHANGED <<addrVars, t0, used, t1, t2, t2Timeout>>
     \/ /\ state \in {"RENEWING", "REBINDING"}
        /\ Bind("a", lease')
  /\ UNCHANGED <<pcbVars, xidVars, tcpipFrame>>

(* dhcp_handle_nak: the state BACKING_OFF makes DISCOVER the first try. *)
RecvNak ==
  /\ Answers("REQUEST") /\ refusals < MaxRefusals
  /\ state \in {"REQUESTING", "RENEWING", "REBINDING"}
  /\ refusals' = refusals + 1
  /\ NoAddress
  /\ Discover
  /\ UNCHANGED <<linkVars, leaseVars, pcbVars>>

(* dhcp_arp_reply of the host that has the offered address: dhcp_decline *)
ArpReply ==
  /\ state = "CHECKING" /\ offered # ANY /\ refusals < MaxRefusals
  /\ refusals' = refusals + 1
  /\ Enter("BACKING_OFF") /\ Sends({}, TRUE)
  /\ UNCHANGED <<linkVars, addrVars, offered, leaseVars, pcbVars>>

-----------------------------------------------------------------------------
LinkTask == \/ Poll \/ LinkUp \/ Start \/ Clear \/ Pcb \/ Select \/ Send \/ Arm
            \/ Stop \/ Release \/ Unaddress \/ Off \/ Unpcb \/ Down
Next ==
  \/ PhyChanges \/ LinkTask
  \/ FineTimer \/ CoarseTick
  \/ RecvOffer \/ RecvAck \/ RecvNak \/ ArpReply

Spec == Init /\ [][Next]_vars

(* The link task is not starved, the timers go on, memory is not short for *)
(* ever, and a server that is asked again and again answers.               *)
FairSpec ==
  /\ Spec
  /\ WF_vars(LinkTask) /\ WF_vars(FineTimer) /\ WF_vars(CoarseTick)
  /\ SF_vars(FineTimer /\ "DISCOVER" \in asked')
  /\ SF_vars(FineTimer /\ "REQUEST" \in asked')
  /\ SF_vars(RecvOffer) /\ SF_vars(RecvAck)

-----------------------------------------------------------------------------
(* Type correctness: what struct dhcp, the netif and the link task hold; a *)
(* tick count fits its 16 bits.                                            *)
U8 == {n \in Nat : n < 256}
U16 == {n \in Nat : n < 65536}
CableType ==
  /\ phy \in Phys /\ old_i \in Phys \cup Garbage /\ up \in BOOLEAN
  /\ pc \in {"idle", "linkup", "start", "clear", "pcb", "select", "send", "arm",
             "stop", "release", "unaddress", "off", "unpcb", "down"}
ClientType ==
  /\ addr \in {ANY, "a"} /\ late \in BOOLEAN /\ offered \in {ANY, "a"}
  /\ state \in {"NULL", "OFF", "SELECTING", "REQUESTING", "CHECKING", "BACKING_OFF",
                "BOUND", "RENEWING", "REBINDING"}
  /\ tries \in 0 .. RequestTries + 1 /\ timer \in BOOLEAN
  /\ refusals \in 0 .. MaxRefusals
LeaseType ==
  /\ lease \in Leases \cup {0}
  /\ t0 \in U16 /\ used \in U16 /\ t1 \in U16 /\ t2 \in U16 /\ t2Timeout \in U16
MessageType ==
  /\ pcbAllocated \in BOOLEAN /\ refs \in U8
  /\ mine \in BOOLEAN /\ asked \subseteq {"DISCOVER", "REQUEST"}
TypeOK == CableType /\ ClientType /\ LeaseType /\ MessageType

(* When netif_set_link_up of a cable that was unplugged is called, the     *)
(* client is off, whatever the timers and answers did while the task was   *)
(* stopping it: dhcp_network_changed has nothing to reboot.                *)
OffAtLinkUp == pc = "linkup" /\ ~up => state \in {"NULL", "OFF"}

(* The PCB is shared by count: it is held exactly while a client has it    *)
(* allocated, and a client that is running holds it, so that no message is *)
(* sent with a PCB that is removed.                                        *)
PcbCounted ==
  /\ pc # "clear" => refs = IF pcbAllocated THEN 1 ELSE 0
  /\ Running => refs > 0

(* An address the interface has is leased to it: outside the steps that    *)
(* take it away, the client runs and the lease has not been used up. The   *)
(* exception is an address that the tcpip thread binds after netif_set_addr *)
(* has taken it away and before dhcp_release_and_stop sets the client off. *)
AddressTimed ==
  addr # ANY /\ ~late /\ pc \notin {"release", "unaddress"} => Running /\ used < t0

(* What dhcp.c says of the exception: a client that has been stopped has   *)
(* left no address behind from which routing could select the interface.   *)
(* The code does not keep to it, no run checks it (see README).            *)
StoppedUnaddressed == pc \in {"unpcb", "down"} => addr = ANY

(* A client that was started on a cable that stays plugged gets an address *)
(* of its own, also if an old one was left behind.                         *)
LinkGetsAddress == pc = "select" ~> (addr # ANY /\ ~late) \/ phy # old_i
=============================================================================
