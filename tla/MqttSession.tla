------------------------------ MODULE MqttSession ------------------------------
(***************************************************************************)
(* What the MQTT client promises its application (mqtt.h): a session that  *)
(* opens, is established, accepted and lost, and requests that end at most *)
(* once, none of them after the session in which it was made.  A handler   *)
(* of the client may take several of these steps, so one step here moves   *)
(* the session along one edge and any number of requests along theirs.     *)
(***************************************************************************)
CONSTANT Requests

VARIABLES
  link,   \* "down", "opening", "handshake" or "up"
  req     \* the fate of every request of the session
svars == <<link, req>>

Ended == {"ERR_OK", "ERR_TIMEOUT", "ERR_ABRT"}

(* A request moves forward only; making one and ending it are one step     *)
(* when both happen in a handler.                                          *)
Moves(from) ==
  CASE from = "none" -> {"none", "pending"}
    [] from = "pending" -> {"pending"} \cup Ended
    [] OTHER -> {from}

(* The same when the session is lost: what is pending then is dropped. *)
Drops(from) == IF from = "pending" THEN Ended \cup {"dropped"} ELSE {from}

NoRequests == [k \in Requests |-> "none"]

Init == link = "down" /\ req = NoRequests

Open == link = "down" /\ link' \in {"down", "opening"} /\ req' = NoRequests

Establish == link = "opening" /\ link' = "handshake" /\ UNCHANGED req

Accept ==
  /\ link = "handshake" /\ link' = "up"
  /\ \A k \in Requests : req'[k] \in Moves(req[k])
  /\ DOMAIN req' = Requests

(* Requests are made and answered; before the session is up none succeeds. *)
Work ==
  /\ link # "down" /\ UNCHANGED link
  /\ DOMAIN req' = Requests
  /\ \A k \in Requests :
       req'[k] \in IF link = "up" THEN Moves(req[k])
                   ELSE Moves(req[k]) \ Ended

Lose ==
  /\ link # "down" /\ link' = "down"
  /\ DOMAIN req' = Requests
  /\ \A k \in Requests : req'[k] \in Drops(req[k])

(* The application opens the next session in the callback that reports the *)
(* loss of this one.                                                       *)
Reopen == link # "down" /\ link' \in {"down", "opening"} /\ req' = NoRequests

Next == Open \/ Establish \/ Accept \/ Work \/ Lose \/ Reopen

Spec == Init /\ [][Next]_svars

-----------------------------------------------------------------------------
(* A session that is down has no pending request. *)
NonePendingWhenDown == link = "down" => \A k \in Requests : req[k] # "pending"
=============================================================================
