------------------------------ MODULE Watchdog ------------------------------
(***************************************************************************)
(* The watchdog thread of control.  Control starts a timer when it leaves  *)
(* the states UP and DOWN, stops it when it enters one of them, and        *)
(* answers the watchdog's PINGs.  Requests and answers share one queue.    *)
(*                                                                         *)
(* Time is abstract: a timer may expire whenever poll finds the queue      *)
(* empty.  A message sent to a full queue is gone (lost).                  *)
(***************************************************************************)
EXTENDS Ipc

CONSTANT MaxReqId   \* MAX_REQ_ID

ASSUME IdAssumption == MaxReqId \in Nat

VARIABLES
    outside,   \* control is outside UP and DOWN
    watch_id,  \* id of control's last START
    reqQ,      \* START, STOP and PONG messages to the watchdog
    pingQ,     \* PINGs to control
    req,       \* timer[REQ_IDX], with the wakelock WAKELOCK_WATCHDOG_REQ
    ping,      \* timer[PING_IDX], with the wakelock WAKELOCK_WATCHDOG_PING
    lost,      \* a message of control was lost
    ended      \* "no", or why the watchdog has ended the process

ctlVars == <<outside, watch_id>>
watchdogVars == <<outside, watch_id, reqQ, pingQ, req, ping, lost, ended>>

Ids == 0 .. MaxReqId
START(id) == <<"START", id>>
STOP(id)  == <<"STOP", id>>
PONG(id)  == <<"PONG", id>>

watchdog_get_new_id(id) == IF id < MaxReqId THEN id + 1 ELSE 0

\* event_loop starts the timer before it enters its loop.
WatchdogInit == /\ outside = TRUE /\ watch_id = 0
        /\ reqQ = <<START(0)>> /\ pingQ = <<>>
        /\ req = [id |-> -1, armed |-> FALSE, wakelock |-> FALSE]
        /\ ping = [id |-> -1, waiting_pong |-> FALSE, wakelock |-> FALSE]
        /\ lost = FALSE /\ ended = "no"

-----------------------------------------------------------------------------
\* Control.
SendReq(ms) == /\ reqQ' = Send(reqQ, ms)
               /\ lost' = (lost \/ ~Fits(reqQ, ms))

\* state_trans: control leaves UP or DOWN (watchdog_start),
Leave == /\ ended = "no" /\ ~outside
         /\ outside' = TRUE
         /\ watch_id' = watchdog_get_new_id(watch_id)
         /\ SendReq(<<START(watch_id')>>)
         /\ UNCHANGED <<pingQ, req, ping, ended>>

\* enters one of them (watchdog_stop),
Enter == /\ ended = "no" /\ outside
         /\ outside' = FALSE
         /\ SendReq(<<STOP(watch_id)>>)
         /\ UNCHANGED <<watch_id, pingQ, req, ping, ended>>

\* or goes straight from UP to DOWN.
Cross == /\ ended = "no" /\ ~outside
         /\ watch_id' = watchdog_get_new_id(watch_id)
         /\ SendReq(<<START(watch_id'), STOP(watch_id')>>)
         /\ UNCHANGED <<outside, pingQ, req, ping, ended>>

\* event_loop answers a PING.
Answer == /\ ended = "no" /\ pingQ # <<>>
          /\ SendReq(<<PONG(Head(pingQ))>>)
          /\ pingQ' = Tail(pingQ)
          /\ UNCHANGED <<ctlVars, req, ping, ended>>

-----------------------------------------------------------------------------
\* The watchdog's handle_msg, by kind of message, with the ASSERTs.
Received(kind) == ended = "no" /\ reqQ # <<>> /\ Head(reqQ)[1] = kind
Id == Head(reqQ)[2]

Assert(cond) == ended' = IF cond THEN "no" ELSE "assert"
Take == reqQ' = Tail(reqQ) /\ UNCHANGED <<ctlVars, pingQ, lost>>

HandleStart == /\ Received("START") /\ Take
               /\ Assert(/\ Id = watchdog_get_new_id(req.id)
                         /\ req.armed = req.wakelock)
               /\ req' = [id |-> Id, armed |-> TRUE, wakelock |-> TRUE]
               /\ UNCHANGED ping

HandleStop == /\ Received("STOP") /\ Take
              /\ Assert(req.armed /\ (Id = req.id => req.wakelock))
              /\ req' = IF Id = req.id
                        THEN [req EXCEPT !.armed = FALSE, !.wakelock = FALSE]
                        ELSE req
              /\ UNCHANGED ping

HandlePong == /\ Received("PONG") /\ Take
              /\ Assert(ping.waiting_pong /\ ping.id = Id /\ ping.wakelock)
              /\ ping' = [ping EXCEPT !.waiting_pong = FALSE, !.wakelock = FALSE]
              /\ UNCHANGED req

\* poll times out: the PING timer,
PingExpires ==
    /\ ended = "no" /\ reqQ = <<>>
    /\ IF ping.waiting_pong
       THEN /\ ended' = "PONG not received"
            /\ UNCHANGED <<pingQ, ping>>
       ELSE /\ ping' = [id |-> watchdog_get_new_id(ping.id),
                        waiting_pong |-> TRUE, wakelock |-> TRUE]
            /\ pingQ' = Send(pingQ, <<ping'.id>>)
            /\ UNCHANGED ended
    /\ UNCHANGED <<ctlVars, reqQ, req, lost>>

\* Mutant: the timer is looked at before the queue.
ReqExpires_First ==
    /\ ended = "no" /\ req.armed
    /\ ended' = "Answer not received"
    /\ UNCHANGED <<ctlVars, reqQ, pingQ, req, ping, lost>>

\* or the request timer.
ReqExpires == /\ ended = "no" /\ reqQ = <<>> /\ req.armed
              /\ ended' = "Answer not received"
              /\ UNCHANGED <<ctlVars, reqQ, pingQ, req, ping, lost>>

Control == Leave \/ Enter \/ Cross \/ Answer
WatchdogNext == \/ Control
        \/ HandleStart \/ HandleStop \/ HandlePong \/ PingExpires \/ ReqExpires

WatchdogSpec == WatchdogInit /\ [][WatchdogNext]_watchdogVars

-----------------------------------------------------------------------------
WatchdogTypeOK == /\ outside \in BOOLEAN /\ watch_id \in Ids
          /\ reqQ \in Seq({"START", "STOP", "PONG"} \X Ids)
          /\ pingQ \in Seq(Ids)
          /\ req \in [id : Ids \cup {-1}, armed : BOOLEAN, wakelock : BOOLEAN]
          /\ ping \in [id : Ids \cup {-1}, waiting_pong : BOOLEAN,
                       wakelock : BOOLEAN]
          /\ lost \in BOOLEAN
          /\ ended \in {"no", "assert", "PONG not received", "Answer not received"}

(***************************************************************************)
(* As long as no message is lost, none of the ASSERTs of handle_msg fails: *)
(* ids are consecutive through the wrap at MAX_REQ_ID, a STOP finds its    *)
(* timer armed, a PONG answers the PING that is awaited, and each wakelock *)
(* is held exactly while its timer needs it.                               *)
(***************************************************************************)
ProtocolHolds == ended = "assert" => lost

(***************************************************************************)
(* The watchdog ends CRM for a missing answer only while control is really *)
(* outside UP and DOWN: a STOP on its way always wins against the timer.   *)
(***************************************************************************)
NoFalseAlarm == ended = "Answer not received" => outside \/ lost

(***************************************************************************)
(* Once the watchdog has read its queue, it watches exactly the times      *)
(* control spends outside UP and DOWN.                                     *)
(***************************************************************************)
WatchesOutside ==
    (reqQ = <<>> /\ ended = "no" /\ ~lost) => (req.armed <=> outside)
=============================================================================
