------------------------------- MODULE Mdmcli -------------------------------
(***************************************************************************)
(* The client library (mdmcli.c): an application talks to CRM through a    *)
(* socket; its calls send requests under a lock, and a thread of the       *)
(* library reads the events, calls the application back, and connects      *)
(* again when CRM is gone, registering and acquiring for the application   *)
(* once more.  While there is no connection, acquire and release succeed   *)
(* and are only noted; the other calls fail.                               *)
(*                                                                         *)
(* The other end is CLA as far as one client sees it, see ClaService for   *)
(* the rest; CRM may die and be started again.                             *)
(***************************************************************************)
EXTENDS MdmcliWire, FiniteSets

CONSTANTS
    Scenarios,    \* bounds, see scenario
    MaxConns      \* bound on the connections CRM has from this application

VARIABLES
    ctx,        \* the context of the library
    loop,       \* its thread: where it is, and the event it handles
    app,        \* the application
    up,         \* CRM runs
    modem,      \* what CLA tells: "none" (unknown), MDM_DOWN or MDM_UP
    conns,      \* the connections of the application in CRM
    abort,      \* the assertion of the library that has failed, or ""
    early,      \* CRM has died while the application connected
    budget,     \* calls, deaths, changes and procedures left
    scenario    \* [calls, deaths, changes, asks: bounds; async: callbacks leave
                \* the acknowledgement to the application; requests: its calls;
                \* sanity: CRM is in sanity test mode; id: how it registers]

vars == <<ctx, loop, app, up, modem, conns, abort, early, budget, scenario>>

None == -1
EventsBitmap == 63   \* every event
Name == <<1, 2>>

NoCtx == [sock_fd |-> "none", reconnect |-> FALSE, acquired |-> FALSE, ipc |-> FALSE]

\* A connection: what is not yet read at either end, and the messages it is
\* made of; whether the application's end is open; CLA's view of the client;
\* and the last state of the modem that the library has read from it.
NewConn == [in |-> <<>>, sent |-> <<>>, out |-> <<>>, said |-> <<>>, live |-> TRUE,
            registered |-> FALSE, acquired |-> FALSE, cold |-> FALSE, shut |-> FALSE,
            told |-> None]

Init == /\ ctx = NoCtx /\ loop = [pc |-> "none", id |-> None]
        /\ app = [pc |-> "idle", view |-> MDM_DOWN, owes |-> {}]
        /\ up \in BOOLEAN /\ modem = None /\ conns = <<>>
        /\ abort = "" /\ early = FALSE
        /\ scenario \in Scenarios
        /\ budget = [calls |-> scenario.calls, deaths |-> scenario.deaths,
                     changes |-> scenario.changes, asks |-> scenario.asks]

Spend(what) == budget[what] > 0 /\ budget' = [budget EXCEPT ![what] = @ - 1]
Runs == abort = ""

-----------------------------------------------------------------------------
(***************************************************************************)
(* The socket.  The connection of the library is the one that is live.     *)
(***************************************************************************)
Live == {i \in DOMAIN conns : conns[i].live}

\* send_msg() of the library, on a socket whose other end is there.
Cells(ms) == FlattenSeq([k \in DOMAIN ms |-> serialize_msg(ms[k])])

send_msgs(ms) ==
    conns' = [i \in DOMAIN conns |->
                IF i \in Live THEN [conns[i] EXCEPT !.in = @ \o Cells(ms), !.sent = @ \o ms]
                ELSE conns[i]]

\* close()
Closed == [i \in DOMAIN conns |-> [conns[i] EXCEPT !.live = FALSE]]

\* crm_socket_connect()
Connects == /\ up /\ Len(conns) < MaxConns
            /\ conns' = Append(conns, NewConn)

RegisterMsg == [Message(scenario.id) EXCEPT !.bitmap = EventsBitmap, !.name = Name]

-----------------------------------------------------------------------------
(***************************************************************************)
(* crm_connect(): the thread is started before REGISTER is sent, without   *)
(* the lock.  mdm_cli_connect() gives NULL when there is no server.        *)
(***************************************************************************)
crm_connect ==
    /\ Runs /\ app.pc = "idle" /\ Spend("calls")
    /\ Connects
    /\ ctx' = [ctx EXCEPT !.sock_fd = "up"]
    /\ loop' = [loop EXCEPT !.pc = "poll"]
    /\ app' = [app EXCEPT !.pc = "connecting"]
    /\ UNCHANGED <<up, modem, abort, early, scenario>>

\* When REGISTER cannot be sent, dispose() waits for a thread that nobody has
\* told to end.  A descriptor that the thread has closed fails an assertion of
\* crm_socket_write(), or just fails when it was read from the context before.
crm_connect_register ==
    /\ Runs /\ app.pc = "connecting"
    /\ CASE ctx.sock_fd = "up"   -> /\ send_msgs(<<RegisterMsg>>)
                                    /\ app' = [app EXCEPT !.pc = "connected"]
                                    /\ UNCHANGED abort
         [] ctx.sock_fd = "eof"  -> /\ app' = [app EXCEPT !.pc = "joining"]
                                    /\ UNCHANGED <<conns, abort>>
         [] ctx.sock_fd = "none" -> /\ \/ abort' = "socket" /\ UNCHANGED app
                                       \/ UNCHANGED abort /\ app' = [app EXCEPT !.pc = "joining"]
                                    /\ UNCHANGED conns
    /\ UNCHANGED <<ctx, loop, up, modem, early, budget, scenario>>

\* mdm_cli_disconnect(), and the end of dispose() once the thread has ended.
mdm_cli_disconnect ==
    /\ Runs /\ app.pc = "connected" /\ Spend("calls")
    /\ ctx' = [ctx EXCEPT !.ipc = TRUE]
    /\ app' = [app EXCEPT !.pc = "joining"]
    /\ UNCHANGED <<loop, up, modem, conns, abort, early, scenario>>

dispose ==
    /\ Runs /\ app.pc = "joining" /\ loop.pc = "ended"
    /\ ctx' = NoCtx /\ loop' = [pc |-> "none", id |-> None]
    /\ app' = [pc |-> "idle", view |-> MDM_DOWN, owes |-> {}]
    /\ conns' = Closed
    /\ UNCHANGED <<up, modem, abort, early, budget, scenario>>

-----------------------------------------------------------------------------
(***************************************************************************)
(* The calls, each under the lock.  A write to a socket whose other end is *)
(* gone fails, and so does an assertion when there is no socket.           *)
(***************************************************************************)
Calls == Runs /\ app.pc = "connected"

\* send_msg(), when the library takes itself for connected.
Sends(m) == /\ IF ctx.sock_fd = "up" THEN send_msgs(<<m>>) ELSE UNCHANGED conns
            /\ abort' = IF ctx.sock_fd = "none" THEN "socket" ELSE abort

AcquireMsg(acquire) == Message(IF acquire THEN CRM_REQ_ACQUIRE ELSE CRM_REQ_RELEASE)

\* mdm_cli_acquire() and mdm_cli_release()
mdm_cli_acquire(acquire) ==
    /\ Calls /\ Spend("calls")
    /\ IF ctx.reconnect THEN UNCHANGED <<conns, abort>> ELSE Sends(AcquireMsg(acquire))
    /\ ctx' = [ctx EXCEPT !.acquired =
         IF ctx.reconnect \/ ctx.sock_fd = "up" THEN acquire ELSE @]
    /\ UNCHANGED <<loop, app, up, modem, early, scenario>>

\* mdm_cli_send_simple_msg(), mdm_cli_restart() and mdm_cli_notify_dbg()
SendUnlessLost(m) == IF ctx.reconnect THEN UNCHANGED <<conns, abort>> ELSE Sends(m)

mdm_cli_send(m) ==
    /\ Calls /\ Spend("calls")
    /\ SendUnlessLost(m)
    /\ UNCHANGED <<ctx, loop, app, up, modem, early, scenario>>

\* mdm_cli_ack_cold_reset() and mdm_cli_ack_shutdown(), for an event whose
\* callback did not acknowledge it.
AckOf(id) == IF id = MDM_COLD_RESET THEN CRM_REQ_ACK_COLD_RESET ELSE CRM_REQ_ACK_SHUTDOWN

mdm_cli_ack(id) ==
    /\ Calls /\ id \in app.owes
    /\ app' = [app EXCEPT !.owes = @ \ {id}]
    /\ SendUnlessLost(Message(AckOf(id)))
    /\ UNCHANGED <<ctx, loop, up, modem, early, budget, scenario>>

-----------------------------------------------------------------------------
(***************************************************************************)
(* mdmcli_event_loop(): a message of disconnect goes before a hang-up, and *)
(* that before the events which are still unread then.                     *)
(***************************************************************************)
At(pc) == Runs /\ loop.pc = pc

PollsEnd ==
    /\ At("poll") /\ ctx.ipc
    /\ loop' = [loop EXCEPT !.pc = "ended"]
    /\ UNCHANGED <<ctx, app, up, modem, conns, abort, early, budget, scenario>>

PollsHangup_Unmarked ==   \* mutant
    /\ At("poll") /\ ~ctx.ipc /\ ~ctx.reconnect /\ ctx.sock_fd = "eof"
    /\ ctx' = [ctx EXCEPT !.sock_fd = "none"]
    /\ loop' = [loop EXCEPT !.pc = "down"]
    /\ UNCHANGED <<app, up, modem, conns, abort, early, budget, scenario>>

PollsHangup ==
    /\ At("poll") /\ ~ctx.ipc /\ ~ctx.reconnect /\ ctx.sock_fd = "eof"
    /\ ctx' = [ctx EXCEPT !.sock_fd = "none", !.reconnect = TRUE]
    /\ loop' = [loop EXCEPT !.pc = "down"]
    /\ UNCHANGED <<app, up, modem, conns, abort, early, budget, scenario>>

PollsTimeout_Never ==   \* mutant
    /\ At("poll") /\ ~ctx.ipc /\ ctx.reconnect /\ ctx.sock_fd = "up"
    /\ loop' = [loop EXCEPT !.pc = "connect"]
    /\ UNCHANGED <<ctx, app, up, modem, conns, abort, early, budget, scenario>>

\* After one second, or ten in sanity test mode.
PollsTimeout ==
    /\ At("poll") /\ ~ctx.ipc /\ ctx.reconnect
    /\ loop' = [loop EXCEPT !.pc = "connect"]
    /\ UNCHANGED <<ctx, app, up, modem, conns, abort, early, budget, scenario>>

\* An event is read: the callback starts.
PollsEvent ==
    /\ At("poll") /\ ~ctx.ipc /\ ~ctx.reconnect /\ ctx.sock_fd = "up"
    /\ \E i \in Live :
         /\ conns[i].out # <<>>
         /\ LET r == recv_msg(conns[i].out) IN
              IF ~r.ok
              THEN /\ ctx' = [ctx EXCEPT !.sock_fd = "none", !.reconnect = TRUE]
                   /\ loop' = [loop EXCEPT !.pc = "down"]
                   /\ conns' = Closed
              ELSE /\ conns' = [conns EXCEPT ![i].out = Rest(@), ![i].said = Tail(@),
                                 ![i].told = IF r.msg.id \in {MDM_DOWN, MDM_UP}
                                             THEN r.msg.id ELSE @]
                   /\ loop' = [pc |-> "event", id |-> r.msg.id]
                   /\ UNCHANGED ctx
    /\ UNCHANGED <<app, up, modem, abort, early, budget, scenario>>

\* What the application does in a callback, before it returns.
Viewed(a, id) ==
    [a EXCEPT !.view = IF id \in {MDM_DOWN, MDM_UP} THEN id ELSE @,
              !.owes = IF scenario.async /\ id \in {MDM_COLD_RESET, MDM_SHUTDOWN}
                       THEN @ \cup {id} ELSE @]

\* The callback returns, and is acknowledged when it returns 0.
Callback ==
    /\ At("event")
    /\ app' = Viewed(app, loop.id)
    /\ IF loop.id \in {MDM_COLD_RESET, MDM_SHUTDOWN} /\ ~scenario.async
       THEN SendUnlessLost(Message(AckOf(loop.id))) ELSE UNCHANGED <<conns, abort>>
    /\ loop' = [pc |-> "poll", id |-> None]
    /\ UNCHANGED <<ctx, up, modem, early, budget, scenario>>

\* handle_error(), after it has closed the socket: the application is told that
\* the modem is down, and to prepare for its reset.
Retries == ~scenario.sanity \/ scenario.id = CRM_REQ_REGISTER_DBG

handle_error ==
    /\ At("down")
    /\ app' = Viewed(Viewed(app, MDM_DOWN), MDM_COLD_RESET)
    /\ loop' = [loop EXCEPT !.pc = IF Retries THEN "connect" ELSE "poll"]
    /\ UNCHANGED <<ctx, up, modem, conns, abort, early, budget, scenario>>

\* reconnect(): the socket is connected without the lock.
reconnect ==
    /\ At("connect")
    /\ IF ~ctx.reconnect THEN abort' = "reconnect" /\ UNCHANGED <<ctx, loop, conns>>
       ELSE /\ UNCHANGED abort
            /\ \/ /\ Connects
                  /\ ctx' = [ctx EXCEPT !.sock_fd = "up"]
                  /\ loop' = [loop EXCEPT !.pc = "register"]
               \/ /\ ~up
                  /\ loop' = [loop EXCEPT !.pc = "poll"]
                  /\ UNCHANGED <<ctx, conns>>
    /\ UNCHANGED <<app, up, modem, early, budget, scenario>>

reconnect_register_Forgets ==   \* mutant
    /\ At("register")
    /\ IF ctx.sock_fd = "up"
       THEN send_msgs(<<RegisterMsg>>) /\ ctx' = [ctx EXCEPT !.reconnect = FALSE]
       ELSE ctx' = [ctx EXCEPT !.sock_fd = "none"] /\ UNCHANGED conns
    /\ loop' = [loop EXCEPT !.pc = "poll"]
    /\ UNCHANGED <<app, up, modem, abort, early, budget, scenario>>

\* Under the lock: the registration, and the acquisition that is noted.
reconnect_register ==
    /\ At("register")
    /\ IF ctx.sock_fd = "up"
       THEN /\ send_msgs(IF ctx.acquired THEN <<RegisterMsg, Message(CRM_REQ_ACQUIRE)>>
                         ELSE <<RegisterMsg>>)
            /\ ctx' = [ctx EXCEPT !.reconnect = FALSE]
       ELSE ctx' = [ctx EXCEPT !.sock_fd = "none"] /\ UNCHANGED conns
    /\ loop' = [loop EXCEPT !.pc = "poll"]
    /\ UNCHANGED <<app, up, modem, abort, early, budget, scenario>>

LoopStep == \/ PollsEnd \/ PollsHangup \/ PollsTimeout \/ PollsEvent \/ Callback
            \/ handle_error \/ reconnect \/ reconnect_register

-----------------------------------------------------------------------------
(***************************************************************************)
(* CLA, for the connections of this application.                           *)
(***************************************************************************)
Said(c, ms) ==
    IF ~c.registered THEN c
    ELSE [c EXCEPT !.out = @ \o Cells(ms), !.said = @ \o ms,
                   !.cold = @ \/ Message(MDM_COLD_RESET) \in ToSet(ms),
                   !.shut = @ \/ Message(MDM_SHUTDOWN) \in ToSet(ms)]

\* notify_cli_event_all(), for several events in a row
notify_cli_event_all(ms) == conns' = [i \in DOMAIN conns |-> Said(conns[i], ms)]

\* The state of the modem is known, or changes.
notify_modem_state(m) ==
    /\ up /\ m # modem /\ Spend("changes")
    /\ modem' = m /\ notify_cli_event_all(<<Message(m)>>)
    /\ UNCHANGED <<ctx, loop, app, up, abort, early, scenario>>

\* start_restart_procedure() and start_shutdown_procedure(), of a modem that is
\* up and when no procedure waits for an acknowledgement.
Waiting == \E i \in DOMAIN conns : conns[i].cold \/ conns[i].shut

start_procedure(id) ==
    /\ up /\ modem = MDM_UP /\ ~Waiting /\ Spend("asks")
    /\ modem' = MDM_DOWN
    /\ notify_cli_event_all(IF id = MDM_COLD_RESET THEN <<Message(MDM_DOWN), Message(id)>>
                            ELSE <<Message(id), Message(MDM_DOWN)>>)
    /\ UNCHANGED <<ctx, loop, app, up, abort, early, scenario>>

\* handle_client_unregister() and update_client_list(): the client's end of a
\* live connection finds it closed.
Dropped(i) ==
    /\ conns' = [j \in 1 .. Len(conns) - 1 |-> conns[IF j < i THEN j ELSE j + 1]]
    /\ ctx' = [ctx EXCEPT !.sock_fd = IF conns[i].live THEN "eof" ELSE @]

\* handle_client_msg(), for the parts that concern the client alone.
Client(c, m) ==
    CASE m.id \in REGISTERS -> Said([c EXCEPT !.registered = TRUE],
                                    IF modem = None THEN <<>> ELSE <<Message(modem)>>)
      [] m.id = CRM_REQ_ACQUIRE -> [c EXCEPT !.acquired = TRUE]
      [] m.id = CRM_REQ_RELEASE -> [c EXCEPT !.acquired = FALSE]
      [] m.id = CRM_REQ_ACK_COLD_RESET -> [c EXCEPT !.cold = FALSE]
      [] m.id = CRM_REQ_ACK_SHUTDOWN -> [c EXCEPT !.shut = FALSE]
      [] m.id = CRM_REQ_NOTIFY_DBG ->
           Said(c, <<[Message(MDM_DBG_INFO) EXCEPT !.debug = m.debug]>>)
      [] OTHER -> c

Refuses(c, m) == \/ m.id = CRM_REQ_REGISTER /\ scenario.sanity
                 \/ m.id = CRM_REQ_REGISTER_DBG /\ ~scenario.sanity
                 \/ (m.id \in REGISTERS) = c.registered

handle_client_msg(i, r) ==
    IF ~r.ok \/ Refuses(conns[i], r.msg) THEN Dropped(i)
    ELSE /\ conns' = [conns EXCEPT ![i] =
              Client([@ EXCEPT !.in = Rest(@), !.sent = Tail(@)], r.msg)]
         /\ UNCHANGED ctx

ServerReads(i) ==
    /\ up /\ i \in DOMAIN conns /\ conns[i].live /\ conns[i].in # <<>>
    /\ handle_client_msg(i, recv_msg(conns[i].in))
    /\ UNCHANGED <<loop, app, up, modem, abort, early, budget, scenario>>

\* A hang-up goes before what is still unread.
ServerHangup(i) ==
    /\ up /\ i \in DOMAIN conns /\ ~conns[i].live
    /\ Dropped(i)
    /\ UNCHANGED <<loop, app, up, modem, abort, early, budget, scenario>>

\* CRM dies, and is started again.
ServerDies ==
    /\ up /\ Spend("deaths")
    /\ up' = FALSE /\ modem' = None /\ conns' = <<>>
    /\ ctx' = [ctx EXCEPT !.sock_fd = IF Live # {} THEN "eof" ELSE @]
    /\ early' = (early \/ app.pc = "connecting")
    /\ UNCHANGED <<loop, app, abort, scenario>>

ServerStarts == /\ ~up /\ up' = TRUE
                /\ UNCHANGED <<ctx, loop, app, modem, conns, abort, early, budget, scenario>>

ServerStep == ServerStarts \/ \E i \in 1..MaxConns : ServerReads(i) \/ ServerHangup(i)

-----------------------------------------------------------------------------
AppStep == \/ crm_connect \/ mdm_cli_disconnect
           \/ \E acquire \in BOOLEAN : mdm_cli_acquire(acquire)
           \/ \E m \in scenario.requests : mdm_cli_send(m)

Next == \/ AppStep \/ crm_connect_register \/ dispose
        \/ \E id \in {MDM_COLD_RESET, MDM_SHUTDOWN} : mdm_cli_ack(id) \/ start_procedure(id)
        \/ LoopStep \/ ServerStep \/ ServerDies
        \/ \E m \in {MDM_DOWN, MDM_UP} : notify_modem_state(m)

\* The threads of the library go on, and so do CLA and the application once it
\* is called back; init starts CRM again.
Fairness ==
    /\ WF_vars(LoopStep) /\ WF_vars(crm_connect_register) /\ WF_vars(dispose)
    /\ WF_vars(ServerStep)
    /\ \A id \in {MDM_COLD_RESET, MDM_SHUTDOWN} : WF_vars(mdm_cli_ack(id))

FairSpec == Init /\ [][Next]_vars /\ Fairness

-----------------------------------------------------------------------------
(***************************************************************************)
(* No assertion of the library fails, however often CRM dies, unless it    *)
(* dies while the application connects for the first time.                 *)
(***************************************************************************)
AssertsHold == abort # "" => early

(***************************************************************************)
(* What is read from a connection, at either end, is what was sent there:  *)
(* every message that can be sent is understood.                           *)
(***************************************************************************)
Understood(stream, ms) ==
    IF ms = <<>> THEN stream = <<>>
    ELSE LET r == recv_msg(stream) IN r.ok /\ r.msg = Head(ms)

WireKeeps == \A i \in DOMAIN conns : /\ Understood(conns[i].in, conns[i].sent)
                                     /\ Understood(conns[i].out, conns[i].said)

(***************************************************************************)
(* CLA knows of each connection what the application wants: it is told of  *)
(* the registration first and once, and when it has read everything it     *)
(* holds the modem for the client exactly if the last call that succeeded  *)
(* was acquire, be it made to an earlier CRM or to none.                   *)
(***************************************************************************)
Registrations(ms) == {k \in DOMAIN ms : ms[k].id \in REGISTERS}

AgreesWhenRead ==
    \A i \in Live :
        /\ ~early /\ conns[i].sent # <<>> =>
              Registrations(conns[i].sent) = IF conns[i].registered THEN {} ELSE {1}
        /\ conns[i].sent = <<>> /\ ~ctx.reconnect /\ app.pc = "connected" =>
              conns[i].acquired = ctx.acquired

(***************************************************************************)
(* The application and CRM find each other again: when the application     *)
(* stays connected to a CRM that accepts it, then for good CLA holds the   *)
(* modem for it as it wants, and it knows the state of the modem.          *)
(***************************************************************************)
InStep == /\ Live # {} /\ \A i \in Live : /\ conns[i].registered
                                          /\ conns[i].acquired = ctx.acquired
          /\ app.view = (IF modem = MDM_UP THEN MDM_UP ELSE MDM_DOWN)

Unwelcome == scenario.sanity # (scenario.id = CRM_REQ_REGISTER_DBG)

FindEachOther == <>[](app.pc = "connected" /\ ~Unwelcome) => <>[]InStep
=============================================================================
