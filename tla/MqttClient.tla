------------------------------ MODULE MqttClient ------------------------------
(***************************************************************************)
(* The lwIP MQTT client (Libraries/LwIP/src/apps/mqtt/mqtt.c) driven by    *)
(* the Ali IoT application callbacks (BSP/src/Ali_iot.c), over a TCP       *)
(* connection to a broker.                                                 *)
(*                                                                         *)
(* All client code runs to completion in the tcpip thread, so a handler is *)
(* one action.  A handler calls other functions of the client, which call  *)
(* back into the application, which calls into the client again: every     *)
(* function is therefore an operator from state record to state record,    *)
(* and an action applies the handler's operator to the variable m.         *)
(* Messages are values of unit size; the byte-level ring is MqttRingBuf.   *)
(***************************************************************************)
EXTENDS Integers, Sequences, SequencesExt

CONSTANTS
  MQTT_REQ_MAX_IN_FLIGHT,      \* mqtt_opts.h, entries of req_list
  MQTT_CYCLIC_TIMER_INTERVAL,  \* mqtt_opts.h, seconds
  MQTT_REQ_TIMEOUT,            \* mqtt_opts.h, seconds
  MQTT_CONNECT_TIMOUT,         \* mqtt_opts.h (sic), seconds
  KeepAlive,                   \* client_info.keep_alive, seconds
  RingCap,                     \* messages the output ring holds
  SndBuf,                      \* messages TCP holds until acknowledged
  IdMod,                       \* packet identifiers are counted modulo IdMod
  MaxReqs,                     \* bound: requests tried per connection
  MaxPub,                      \* bound: publishes of the server per connection
  Window,                      \* messages a receiver's TCP buffers unread
  Kinds,                       \* publishes in use: PUBLISH0, 1 and 2, by QoS
  OnDown,                      \* connect_cb when the connection is lost
  OnRequestFail,               \* request callback when the request failed
  MayLackMemory,               \* TCP may refuse a write or a new pcb
  MayHangUp,                   \* the server may close, reset or refuse
  MayBeCut                     \* the cable may be cut

ASSUME ClientConstants ==
  /\ {MQTT_REQ_MAX_IN_FLIGHT, MQTT_CYCLIC_TIMER_INTERVAL, MQTT_REQ_TIMEOUT,
      MQTT_CONNECT_TIMOUT, RingCap, SndBuf, Window} \subseteq Nat \ {0}
  /\ {KeepAlive, MaxPub} \subseteq Nat
  /\ MaxReqs \in Nat /\ MaxReqs >= 2      \* the two requests of Accepted
  /\ IdMod \in Nat /\ IdMod > 1
  /\ MaxPub <= IdMod                     \* the server's identifiers, not reused
  /\ Kinds \subseteq {"PUBLISH0", "PUBLISH1", "PUBLISH2"}
  /\ OnDown \in {"ignore", "reconnect"}
  /\ OnRequestFail \in {"ignore", "disconnect"}
  /\ {MayLackMemory, MayHangUp, MayBeCut} \subseteq BOOLEAN

VARIABLES
  m,      \* the client, its timers, its TCP connection and the broker
  cut     \* the cable is cut: nothing reaches the client any more
vars == <<m, cut>>

Requests == 1 .. MaxReqs

(***************************************************************************)
(* The state record.  Ghost fields record what happened and guard nothing. *)
(* A mqtt_client_connect does not wipe the first four: the timer list      *)
(* belongs to lwIP, and the two ghosts record a broken call.               *)
(***************************************************************************)
Wiped(timers, mem, nullSend, nullCall) == [
  timers     |-> timers,             \* pending mqtt_cyclic_timer timeouts
  mem        |-> mem,                \* TCP has memory during this handler
  nullSend   |-> nullSend,           \* ghost: mqtt_output_send without a pcb
  nullCall   |-> nullCall,           \* ghost: data_cb called while NULL
  conn       |-> FALSE,              \* client->conn != NULL
  conn_state |-> "TCP_DISCONNECTED",
  cyclic_tick |-> 0,
  server_watchdog |-> 0,
  pkt_id_seq |-> 0,
  pend       |-> <<>>,               \* pend_req_queue, in order
  ring       |-> <<>>,               \* output, in order
  data_cb    |-> FALSE,              \* data_cb != NULL
  unacked    |-> 0,                  \* written to TCP, not acknowledged
  tx         |-> <<>>,               \* written to TCP, not read by the server
  rx         |-> <<>>,               \* sent by the server, not received
  granted    |-> FALSE,              \* server: a subscription is granted
  npub       |-> 0,                  \* server: publishes sent
  nreq       |-> 0,                  \* ghost: requests tried
  req        |-> [k \in Requests |-> "none"],  \* ghost: fate of a request
  qos0       |-> {},                 \* ghost: requests that are QoS 0 publishes
  served     |-> {},                 \* ghost: requests the server processed
  firstOut   |-> "none"]             \* ghost: first message written to TCP

Fresh == Wiped(0, TRUE, FALSE, FALSE)

WipeMutant(s) ==                     \* mutant: the ring survives
  [Wiped(s.timers, s.mem, s.nullSend, s.nullCall) EXCEPT !.ring = s.ring]

Wipe(s) == Wiped(s.timers, s.mem, s.nullSend, s.nullCall)

(***************************************************************************)
(* Output ring and TCP.                                                    *)
(***************************************************************************)
CheckSpaceMutant(s) == TRUE     \* mutant: the caller does not look

CheckSpace(s) == Len(s.ring) < RingCap

Append1(s, msg) == [s EXCEPT !.ring = Append(@, msg)]

(* mqtt_output_send: as much of the ring as the send buffer takes. *)
Send(s) ==
  LET room == SndBuf - s.unacked
      n == IF room < Len(s.ring) THEN room ELSE Len(s.ring)
      out == SubSeq(s.ring, 1, n)
  IN  IF ~s.conn THEN [s EXCEPT !.nullSend = TRUE]
      ELSE IF n = 0 \/ ~s.mem THEN s
      ELSE [s EXCEPT !.ring = SubSeq(@, n + 1, Len(@)),
                     !.tx = @ \o out,
                     !.unacked = @ + n,
                     !.firstOut = IF @ = "none" THEN out[1].type ELSE @]

(***************************************************************************)
(* Pending requests.  timeout_diff is relative to the request before.      *)
(***************************************************************************)
TotalDiff(pend) ==
  LET total[i \in 0 .. Len(pend)] ==
        IF i = 0 THEN 0 ELSE total[i - 1] + pend[i].timeout_diff
  IN  total[Len(pend)]

GeneratePacketIdMutant(seq) == (seq + 1) % IdMod   \* mutant: 0 is not skipped

GeneratePacketId(seq) ==
  LET next == (seq + 1) % IdMod IN IF next = 0 THEN 1 ELSE next

AppendRequest(pend, r) ==
  Append(pend, [r EXCEPT !.timeout_diff = MQTT_REQ_TIMEOUT - TotalDiff(pend)])

FindRequestMutant(pend, id) ==   \* mutant: answers are taken in order
  IF pend = <<>> THEN 0 ELSE 1

(* Position of the first request with this identifier, 0 without one. *)
FindRequest(pend, id) == SelectInSeq(pend, LAMBDA r : r.pkt_id = id)

TakeRequestMutant(pend, id) ==   \* mutant: its remaining time is lost
  RemoveAt(pend, FindRequest(pend, id))

(* mqtt_take_request: the first request with this id leaves the queue and  *)
(* its remaining time goes to the next one.                                *)
TakeRequest(pend, id) ==
  LET i == FindRequest(pend, id)
      rest == RemoveAt(pend, i)
  IN  IF i <= Len(rest)
      THEN [rest EXCEPT ![i].timeout_diff = @ + pend[i].timeout_diff]
      ELSE rest

HasRequest(pend, id) == FindRequest(pend, id) # 0

ClearRequestsMutant(s) == s      \* mutant: requests outlive the connection

ClearRequests(s) ==
  [s EXCEPT !.pend = <<>>,
            !.req = [k \in Requests |->
                       IF @[k] = "pending" THEN "dropped" ELSE @[k]]]

(***************************************************************************)
(* mqtt_publish and mqtt_sub_unsub: `kind' is what is asked of the server. *)
(***************************************************************************)
Request(s, kind) ==
  LET id == IF kind = "PUBLISH0" THEN 0 ELSE GeneratePacketId(s.pkt_id_seq)
      k == s.nreq + 1
      numbered == [s EXCEPT !.pkt_id_seq = IF id = 0 THEN @ ELSE id, !.nreq = k]
      r == [pkt_id |-> id, timeout_diff |-> 0, k |-> k, age |-> 0]
      msg == [type |-> kind, id |-> id, k |-> k]
  IN  IF s.conn_state = "TCP_DISCONNECTED" THEN s                 \* ERR_CONN
      ELSE IF Len(s.pend) = MQTT_REQ_MAX_IN_FLIGHT \/ ~CheckSpace(s)
      THEN numbered                                                \* ERR_MEM
      ELSE Send(Append1([numbered EXCEPT
                           !.pend = AppendRequest(@, r),
                           !.req[k] = "pending",
                           !.qos0 = IF kind = "PUBLISH0" THEN @ \cup {k} ELSE @], msg))

(***************************************************************************)
(* Connecting.                                                             *)
(***************************************************************************)
ClientConnect(s) ==
  LET w == Wipe(s)
  IN  IF s.conn_state # "TCP_DISCONNECTED" THEN s                 \* ERR_ISCONN
      ELSE IF ~s.mem THEN w                                        \* ERR_MEM
      ELSE Append1([w EXCEPT !.conn = TRUE, !.conn_state = "TCP_CONNECTING"],
                   [type |-> "CONNECT", id |-> 0, k |-> 0])

SetInpubCallbackMutant(s) == s   \* mutant: set once, before the memset

SetInpubCallback(s) == [s EXCEPT !.data_cb = TRUE]

(* Ali_Mqtt_Connect_accepted *)
Accepted(s) ==
  Request(SetInpubCallback(Request(s, "SUBSCRIBE")), "PUBLISH1")

(* The application's connect_cb: Ali_Mqtt_Connect_CallBack_Func when the   *)
(* server accepted; a lost connection is ignored, or answered by a new     *)
(* mqtt_client_connect as the client's documentation suggests.             *)
ConnectCb(s, status) ==
  IF status = "MQTT_CONNECT_ACCEPTED" THEN Accepted(s)
  ELSE IF OnDown = "reconnect" THEN ClientConnect(s)
  ELSE s

(***************************************************************************)
(* Closing.                                                                *)
(***************************************************************************)
UntimeoutMutant(s) == s          \* mutant: the timer survives the connection

(* sys_untimeout removes the first matching timeout only. *)
Untimeout(s) == [s EXCEPT !.timers = IF @ = 0 THEN 0 ELSE @ - 1]

ClosePcb(s) ==
  [s EXCEPT !.conn = FALSE, !.tx = <<>>, !.rx = <<>>, !.unacked = 0,
            !.granted = FALSE]

Close(s, reason) ==
  LET closed == Untimeout(ClearRequests(ClosePcb(s)))
  IN  IF s.conn_state = "TCP_DISCONNECTED" THEN closed
      ELSE ConnectCb([closed EXCEPT !.conn_state = "TCP_DISCONNECTED"], reason)

Disconnect(s) ==
  IF s.conn_state = "TCP_DISCONNECTED" THEN s
  ELSE Close([s EXCEPT !.conn_state = "TCP_DISCONNECTED"],
             "MQTT_CONNECT_ACCEPTED")

(* A request ends: its callback runs with the given error.  The Ali        *)
(* callbacks ignore it; the client's documentation suggests mqtt_disconnect*)
(* when a subscription fails.                                              *)
RequestCb(s, r, err) ==
  LET ended == [s EXCEPT !.req[r.k] = err]
  IN  IF err # "ERR_OK" /\ OnRequestFail = "disconnect"
      THEN Disconnect(ended) ELSE ended

(***************************************************************************)
(* Receiving: mqtt_message_received, one message at a time.  The result    *)
(* is the state and the connection status returned to the parser.          *)
(***************************************************************************)
PubResponse(s, type, msg) ==
  IF CheckSpace(s) THEN Send(Append1(s, [msg EXCEPT !.type = type])) ELSE s

Continue(s) == [st |-> s, status |-> "MQTT_CONNECT_ACCEPTED"]

ReceiveConnack(s, msg) ==
  IF s.conn_state # "MQTT_CONNECTING" THEN Continue(s)
  ELSE IF msg.type = "CONNACK"
  THEN Continue(ConnectCb([s EXCEPT !.cyclic_tick = 0,
                                    !.conn_state = "MQTT_CONNECTED"],
                          "MQTT_CONNECT_ACCEPTED"))
  ELSE [st |-> s, status |-> "MQTT_CONNECT_REFUSED"]

ReceivePublish(s, msg) ==
  LET called == [s EXCEPT !.nullCall = @ \/ ~s.data_cb]
  IN  Continue(IF msg.type = "PUBLISH0" THEN called
               ELSE PubResponse(called, IF msg.type = "PUBLISH1"
                                        THEN "PUBACK" ELSE "PUBREC", msg))

(* SUBACK, PUBACK and PUBCOMP end the request with their identifier. *)
ReceiveAnswer(s, msg) ==
  IF ~HasRequest(s.pend, msg.id) THEN Continue(s)
  ELSE LET r == s.pend[FindRequest(s.pend, msg.id)]
           taken == [s EXCEPT !.pend = TakeRequest(@, msg.id)]
       IN  Continue(RequestCb(taken, r, IF msg.type = "SUBACK_DENIED"
                                        THEN "ERR_ABRT" ELSE "ERR_OK"))

MessageReceived(s, msg) ==
  CASE msg.type \in {"CONNACK", "CONNACK_REFUSED"} -> ReceiveConnack(s, msg)
    [] msg.type = "PINGRESP" -> Continue(s)
    [] msg.type \in {"PUBLISH0", "PUBLISH1", "PUBLISH2"} -> ReceivePublish(s, msg)
    [] msg.type = "PUBREC" -> Continue(PubResponse(s, "PUBREL", msg))
    [] msg.type = "PUBREL" -> Continue(PubResponse(s, "PUBCOMP", msg))
    [] OTHER -> ReceiveAnswer(s, msg)

Parse(acc, msg) ==
  IF acc.status = "MQTT_CONNECT_ACCEPTED" THEN MessageReceived(acc.st, msg)
  ELSE acc

(* mqtt_parse_incoming: the messages of one pbuf, up to the first that     *)
(* ends the connection.  A message without variable header (PINGRESP)      *)
(* never does.                                                             *)
ParseIncoming(s, msgs) ==
  LET parsed[i \in 0 .. Len(msgs)] ==
        IF i = 0 THEN Continue(s) ELSE Parse(parsed[i - 1], msgs[i])
  IN  parsed[Len(msgs)]

(* mqtt_tcp_recv_cb with a pbuf *)
RecvCb(s, msgs) ==
  LET parsed == ParseIncoming(s, msgs)
      closed == IF parsed.status = "MQTT_CONNECT_ACCEPTED" THEN parsed.st
                ELSE Close(parsed.st, parsed.status)
  IN  IF KeepAlive = 0 THEN closed ELSE [closed EXCEPT !.server_watchdog = 0]

(***************************************************************************)
(* TCP acknowledged n messages: mqtt_tcp_sent_cb.                          *)
(***************************************************************************)
CompleteOne(s) ==
  IF ~HasRequest(s.pend, 0) THEN s
  ELSE RequestCb([s EXCEPT !.pend = TakeRequest(@, 0)],
                 s.pend[FindRequest(s.pend, 0)], "ERR_OK")

(* The loop ends when no QoS 0 request is left; the queue bounds it. *)
CompleteQos0(s) ==
  LET done[i \in 0 .. Len(s.pend)] ==
        IF i = 0 THEN s ELSE CompleteOne(done[i - 1])
  IN  done[Len(s.pend)]

SentCb(s, n) ==
  LET acked == [s EXCEPT !.unacked = @ - n]
  IN  IF s.conn_state # "MQTT_CONNECTED" THEN acked
      ELSE Send(CompleteQos0([acked EXCEPT !.cyclic_tick = 0,
                                           !.server_watchdog = 0]))

(***************************************************************************)
(* The interval timer.                                                     *)
(***************************************************************************)
(* mqtt_request_time_elapsed: the first request expires, or what is left   *)
(* of the interval is taken from it.  The queue is read again after a      *)
(* callback.                                                               *)
ElapseOne(x) ==
  LET r == Head(x.st.pend)
  IN  IF x.left = 0 \/ x.st.pend = <<>> THEN x
      ELSE IF x.left >= r.timeout_diff
      THEN [st |-> RequestCb([x.st EXCEPT !.pend = Tail(@)], r, "ERR_TIMEOUT"),
            left |-> x.left - r.timeout_diff]
      ELSE [st |-> [x.st EXCEPT !.pend[1].timeout_diff = @ - x.left], left |-> 0]

TimeElapsed(s, t) ==
  LET elapsed[i \in 0 .. Len(s.pend)] ==
        IF i = 0 THEN [st |-> s, left |-> t] ELSE ElapseOne(elapsed[i - 1])
  IN  elapsed[Len(s.pend)].st

Aged(s) ==   \* ghost: every pending request is one interval older
  [s EXCEPT !.pend = [i \in DOMAIN s.pend |->
     [s.pend[i] EXCEPT !.age = @ + MQTT_CYCLIC_TIMER_INTERVAL]]]

SetTimeout(s) == [s EXCEPT !.timers = @ + 1]

(* Keep-alive: PINGREQ is appended to the ring and not sent here. *)
KeepAliveSend(s) ==
  IF s.cyclic_tick * MQTT_CYCLIC_TIMER_INTERVAL < KeepAlive
  THEN [s EXCEPT !.cyclic_tick = @ + 1]
  ELSE IF CheckSpace(s)
  THEN Append1([s EXCEPT !.cyclic_tick = 0],
               [type |-> "PINGREQ", id |-> 0, k |-> 0])
  ELSE s

WatchdogExpired(s) ==
  s.server_watchdog * MQTT_CYCLIC_TIMER_INTERVAL > KeepAlive + KeepAlive \div 2

ConnectedTick(s) ==
  LET elapsed == TimeElapsed(Aged(s), MQTT_CYCLIC_TIMER_INTERVAL)
      watched == [elapsed EXCEPT !.server_watchdog = @ + 1]
  IN  IF KeepAlive = 0 THEN SetTimeout(elapsed)
      ELSE IF WatchdogExpired(watched)
      THEN KeepAliveSend(Close(watched, "MQTT_CONNECT_TIMEOUT"))
      ELSE SetTimeout(KeepAliveSend(watched))

ConnectingTickMutant(s) == SetTimeout(s)   \* mutant: the handshake is not timed

ConnectingTick(s) ==
  LET ticked == [s EXCEPT !.cyclic_tick = @ + 1]
  IN  IF ticked.cyclic_tick * MQTT_CYCLIC_TIMER_INTERVAL >= MQTT_CONNECT_TIMOUT
      THEN Close(ticked, "MQTT_CONNECT_TIMEOUT")
      ELSE SetTimeout(ticked)

CyclicTimer(s) ==
  LET fired == [s EXCEPT !.timers = @ - 1]
  IN  CASE s.conn_state = "MQTT_CONNECTING" -> ConnectingTick(fired)
        [] s.conn_state = "MQTT_CONNECTED" -> ConnectedTick(fired)
        [] OTHER -> fired

PollCbMutant(s) == s             \* mutant: polling does not flush the ring

PollCb(s) == IF s.conn_state = "MQTT_CONNECTED" THEN Send(s) ELSE s

ErrCb(s) == Close([s EXCEPT !.conn = FALSE], "MQTT_CONNECT_DISCONNECTED")

TcpConnectCb(s) ==
  Send(SetTimeout([s EXCEPT !.conn_state = "MQTT_CONNECTING",
                            !.cyclic_tick = 0]))

(***************************************************************************)
(* Actions.  TCP's memory is available or not for one whole handler.       *)
(***************************************************************************)
Handle(Op(_)) ==
  /\ \E mem \in IF MayLackMemory THEN BOOLEAN ELSE {TRUE} :
       m' = [Op([m EXCEPT !.mem = mem]) EXCEPT !.mem = TRUE]
  /\ UNCHANGED cut

Init == m = Fresh /\ cut = FALSE

(* Application: Ali_Mqtt_Connect, and the rest of the client's interface. *)
AppConnect == m.conn_state = "TCP_DISCONNECTED" /\ Handle(ClientConnect)

AppRequest ==
  /\ m.conn_state # "TCP_DISCONNECTED"
  /\ m.nreq + (IF m.conn_state = "MQTT_CONNECTED" THEN 0 ELSE 2) < MaxReqs
  /\ \E kind \in Kinds : Handle(LAMBDA s : Request(s, kind))

AppDisconnect == m.conn_state # "TCP_DISCONNECTED" /\ Handle(Disconnect)

(* tcpip thread: callbacks of the TCP connection and of the timer list. *)
TcpConnected ==
  m.conn_state = "TCP_CONNECTING" /\ ~cut /\ Handle(TcpConnectCb)

TcpConnectFails == m.conn_state = "TCP_CONNECTING" /\ Handle(ErrCb)

TcpReset ==
  /\ MayHangUp /\ ~cut /\ m.conn /\ m.conn_state # "TCP_CONNECTING"
  /\ Handle(ErrCb)

TcpClosed ==   \* mqtt_tcp_recv_cb without a pbuf
  /\ MayHangUp /\ ~cut /\ m.conn /\ m.conn_state # "TCP_CONNECTING"
  /\ m.rx = <<>>
  /\ Handle(LAMBDA s : Close(s, "MQTT_CONNECT_DISCONNECTED"))

TcpReceived ==
  /\ m.conn /\ ~cut
  /\ \E n \in 1 .. Len(m.rx) :
       Handle(LAMBDA s : RecvCb([s EXCEPT !.rx = SubSeq(@, n + 1, Len(@))],
                                SubSeq(s.rx, 1, n)))

TcpAcked ==
  /\ m.conn /\ ~cut /\ m.conn_state # "TCP_CONNECTING"
  /\ \E n \in 1 .. m.unacked :
       /\ Len(m.tx) - (m.unacked - n) <= Window
       /\ Handle(LAMBDA s : SentCb(s, n))

TcpPoll == m.conn /\ Handle(PollCb)

TimerFires == m.timers > 0 /\ Handle(CyclicTimer)

(* The server (external): answers in order what it reads. *)
Answers(msg) ==
  CASE msg.type = "CONNECT" -> {"CONNACK"} \cup
         (IF MayHangUp THEN {"CONNACK_REFUSED"} ELSE {})
    [] msg.type = "SUBSCRIBE" -> {"SUBACK", "SUBACK_DENIED"}
    [] msg.type = "PUBLISH1" -> {"PUBACK"}
    [] msg.type = "PUBLISH2" -> {"PUBREC"}
    [] msg.type = "PUBREL" -> {"PUBCOMP"}
    [] msg.type = "PUBREC" -> {"PUBREL"}
    [] msg.type = "PINGREQ" -> {"PINGRESP"}
    [] OTHER -> {"none"}

ServerReads ==
  /\ m.tx # <<>> /\ m.conn_state # "TCP_CONNECTING" /\ ~cut
  /\ Len(m.rx) < Window
  /\ LET msg == Head(m.tx)
     IN \E type \in Answers(msg) :
          m' = [m EXCEPT !.tx = Tail(@),
                  !.rx = IF type = "none" THEN @
                         ELSE Append(@, [msg EXCEPT !.type = type]),
                  !.granted = @ \/ type = "SUBACK",
                  !.served = IF type \in {"SUBACK", "PUBACK", "PUBCOMP"}
                                \/ msg.type = "PUBLISH0"
                             THEN @ \cup {msg.k} ELSE @]
  /\ UNCHANGED cut

ServerPublishes ==
  /\ m.conn /\ m.granted /\ ~cut /\ m.npub < MaxPub /\ Len(m.rx) < Window
  /\ \E kind \in Kinds :
       m' = [m EXCEPT !.npub = @ + 1,
               !.rx = Append(@, [type |-> kind, id |-> m.npub + 1, k |-> 0])]
  /\ UNCHANGED cut

CableCut == MayBeCut /\ ~cut /\ cut' = TRUE /\ UNCHANGED m

Untimed ==
  \/ AppConnect \/ AppRequest \/ AppDisconnect
  \/ TcpConnected \/ TcpConnectFails \/ TcpReset \/ TcpClosed
  \/ TcpReceived \/ TcpAcked \/ TcpPoll
  \/ ServerReads \/ ServerPublishes \/ CableCut
Next == Untimed \/ TimerFires

(* The tcpip thread never blocks in the client: timers fire, polls happen, *)
(* TCP finishes or gives up a handshake.  Nothing is assumed of the        *)
(* application or the server; a peer's TCP acknowledges what it can.       *)
Fairness ==
  /\ WF_vars(TimerFires)
  /\ WF_vars(TcpPoll)
  /\ WF_vars(TcpAcked)
  /\ WF_vars(TcpConnected \/ TcpConnectFails)

(* A prompt network and server: within an interval of the timer everything *)
(* that can be sent, acknowledged, read and answered is.                   *)
Settled ==
  m.tx = <<>> /\ m.rx = <<>> /\ m.unacked = 0 /\ PollCb(m) = m

Spec == Init /\ [][Next]_vars
PromptSpec == Init /\ [][Untimed \/ (Settled /\ TimerFires)]_vars
FairSpec == Spec /\ Fairness

-----------------------------------------------------------------------------
(* Every field stays in its range: the bounds of mqtt_opts.h and of TCP.   *)
TypeOK ==
  /\ m.conn_state \in {"TCP_DISCONNECTED", "TCP_CONNECTING",
                       "MQTT_CONNECTING", "MQTT_CONNECTED"}
  /\ m.conn = (m.conn_state # "TCP_DISCONNECTED")
  /\ m.pkt_id_seq \in 0 .. IdMod - 1
  /\ m.cyclic_tick \in Nat /\ m.server_watchdog \in Nat
  /\ m.timers \in Nat /\ m.unacked \in 0 .. SndBuf
  /\ Len(m.pend) <= MQTT_REQ_MAX_IN_FLIGHT
  /\ Len(m.ring) <= RingCap
  /\ \A r \in ToSet(m.pend) : r.timeout_diff \in 0 .. MQTT_REQ_TIMEOUT
  /\ \A msg \in ToSet(m.ring \o m.tx \o m.rx) :
       msg.id \in 0 .. IdMod /\ msg.k \in 0 .. MaxReqs

(* "Interval timer, called every MQTT_CYCLIC_TIMER_INTERVAL seconds in     *)
(* MQTT_CONNECTING and MQTT_CONNECTED states" (mqtt.c:572): exactly one    *)
(* timeout is pending in these states, and none in the others.             *)
OneTimer ==
  m.timers = IF m.conn_state \in {"MQTT_CONNECTING", "MQTT_CONNECTED"}
             THEN 1 ELSE 0

(* The relative timeouts of the queue give every request its own exact     *)
(* deadline, whatever was taken out of the queue before it: the sum of the *)
(* differences up to it is what is left of MQTT_REQ_TIMEOUT at its age.    *)
RequestClock ==
  \A i \in DOMAIN m.pend :
    TotalDiff(SubSeq(m.pend, 1, i))
      + m.pend[i].age = MQTT_REQ_TIMEOUT

(* The queue holds exactly the requests that wait for an end, and none     *)
(* outlives its connection.                                                *)
NoOrphanRequest ==
  /\ {k \in Requests : m.req[k] = "pending"} = {r.k : r \in ToSet(m.pend)}
  /\ m.conn_state = "TCP_DISCONNECTED" => m.pend = <<>>

(* A callback told ERR_OK for a SUBSCRIBE or a QoS 1 or 2 publish: the     *)
(* server has processed that very request, not another one.                *)
OkMeansServed ==
  \A k \in Requests \ m.qos0 : m.req[k] = "ERR_OK" => k \in m.served

(* "connect message is the first one out" (mqtt.c:1069), on every          *)
(* connection, whatever is published before the handshake ends.            *)
ConnectFirst == m.firstOut \in {"none", "CONNECT"}

(* LWIP_ASSERT("mqtt_output_send: tpcb != NULL") (mqtt.c:240) and data_cb, *)
(* which is called without a test for NULL (mqtt.c:776): nothing is sent   *)
(* on a connection the client has given up, and no publish reaches a       *)
(* client whose application has not set data_cb.                           *)
NoNullUse == ~m.nullSend /\ ~m.nullCall

(* The client notices a dead link by itself: once nothing arrives any      *)
(* more, it ends for good in a state without MQTT connection.              *)
DeadLinkDetected ==
  cut ~> [](m.conn_state \in {"TCP_DISCONNECTED", "TCP_CONNECTING"})

(* Keep-alive keeps a healthy connection: when the server answers within   *)
(* an interval of the timer, the timer never closes the connection, for    *)
(* PINGREQ leaves in time and its answer resets the watchdog.              *)
TimerKeepsHealthy ==
  [][TimerFires /\ m.conn_state = "MQTT_CONNECTED"
       => m'.conn_state = "MQTT_CONNECTED"]_vars

(* Every request ends: answered, failed, timed out or dropped.             *)
RequestsEnd ==
  \A k \in Requests : m.req[k] = "pending" ~> m.req[k] # "pending"

(* The client implements the session it promises: a request ends at most   *)
(* once, succeeds only in an accepted session, and none survives the       *)
(* session in which it was made.                                           *)
Session == INSTANCE MqttSession WITH
  link <- CASE m.conn_state = "TCP_DISCONNECTED" -> "down"
            [] m.conn_state = "TCP_CONNECTING" -> "opening"
            [] m.conn_state = "MQTT_CONNECTING" -> "handshake"
            [] m.conn_state = "MQTT_CONNECTED" -> "up",
  req <- m.req
ImplementsSession == Session!Spec
=============================================================================
