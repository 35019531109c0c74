------------------------- MODULE ClientAbstraction -------------------------
(***************************************************************************)
(* The client abstraction (CLA): the thread that serves the clients of the *)
(* modem, turns their requests into one request at a time to control, and  *)
(* tells them the state of the modem, which it fakes (fake_modem_state)    *)
(* from the moment it decides to stop or restart a running modem.          *)
(*                                                                         *)
(* The context of the thread is one record, cla.  The functions of the     *)
(* code are operators from contexts to contexts: out gathers the requests  *)
(* a step sends to control and err the first ASSERT it fails.              *)
(***************************************************************************)
EXTENDS Ipc, FiniteSets

CONSTANTS
    EnableFmmo,   \* enable_fmmo: the modem is off until a client acquires it
    MaxClients,   \* bound on connected clients (MAX_CLIENTS in the code)
    Bitmaps,      \* the event sets clients register with
    Requests,     \* what clients do: connect, leave, make requests
    SendsFail     \* a message may be sent to a client that has just gone

ClientEvents == {"MDM_DOWN", "MDM_UP", "MDM_OOS", "MDM_COLD_RESET",
                 "MDM_SHUTDOWN", "MDM_DBG_INFO"}
ClientRequests == {"CONNECT", "LEAVE", "REGISTER", "ACQUIRE", "RELEASE",
                   "RESTART", "RESTART_DBG", "UPDATE", "UPDATE_DBG", "SHUTDOWN",
                   "NVM_BACKUP", "ACK_COLD_RESET", "ACK_SHUTDOWN", "NOTIFY_DBG"}

ASSUME ClaAssumption == /\ EnableFmmo \in BOOLEAN /\ MaxClients \in Nat
                        /\ Bitmaps \subseteq SUBSET ClientEvents
                        /\ Requests \subseteq ClientRequests
                        /\ SendsFail \in BOOLEAN

VARIABLES
    cla,                \* the context, see Initial
    ctrlQ, claQ, abort

\* told is the last of MDM_DOWN, MDM_UP and MDM_OOS that reached the client.
NewClient == [registered |-> FALSE, events_bitmap |-> {}, acquired |-> FALSE,
              waiting_cold_reset_ack |-> FALSE, waiting_shutdown_ack |-> FALSE,
              told |-> "none"]

Initial ==
    [fsm |-> "INITIAL", clients |-> <<>>, to_clean |-> {},
     modem_state |-> "UNKNOWN", real_modem_state |-> "UNKNOWN",
     fake_modem_state |-> FALSE, request_in_progress |-> FALSE,
     reject_requests |-> FALSE,
     num_acquired |-> IF EnableFmmo THEN 0 ELSE 1,
     num_waiting_cold_reset_ack |-> 0, num_waiting_shutdown_ack |-> 0,
     restart_type |-> "0", dbg_info_present |-> FALSE,
     timer_boot_armed |-> TRUE, wakelock |-> TRUE,
     pos |-> 0,         \* next index of pfd of the current round
     drain |-> <<>>,    \* the locals of main_loop while claQ is drained
     out |-> <<>>, err |-> <<>>]

Init == cla = Initial

-----------------------------------------------------------------------------
\* map_modem_state_to_cli_event
CliEvent(s) == CASE s = "READY" -> "MDM_UP" [] s = "UNRESP" -> "MDM_OOS"
                 [] OTHER -> "MDM_DOWN"

Fail(c, why) == IF c.err = <<>> THEN [c EXCEPT !.err = <<"cla", why, c.fsm>>] ELSE c
Check(c, cond, why) == IF cond THEN c ELSE Fail(c, why)

Flagged(c, S, f) == Cardinality({i \in S : c.clients[i][f]})

\* Mutant: the acknowledgements of a client that leaves stay counted.
handle_client_unregister_KeepsAcks(c, S) ==
    [c EXCEPT !.num_acquired = @ - Flagged(c, S, "acquired"),
              !.clients = [i \in DOMAIN @ |->
                  IF i \in S THEN [@[i] EXCEPT !.acquired = FALSE,
                                     !.waiting_cold_reset_ack = FALSE,
                                     !.waiting_shutdown_ack = FALSE]
                  ELSE @[i]],
              !.to_clean = @ \cup S]

\* handle_client_unregister, for the clients of S, and the ASSERTs at its end
Counted(c) == Check(c, /\ c.num_acquired >= 0
                       /\ c.num_waiting_cold_reset_ack >= 0
                       /\ c.num_waiting_shutdown_ack >= 0, "unregister")

handle_client_unregister(c, S) ==
    Counted([Check(c, S \cap c.to_clean = {}, "unregister") EXCEPT
               !.num_acquired = @ - Flagged(c, S, "acquired"),
               !.num_waiting_cold_reset_ack =
                   @ - Flagged(c, S, "waiting_cold_reset_ack"),
               !.num_waiting_shutdown_ack =
                   @ - Flagged(c, S, "waiting_shutdown_ack"),
               !.clients = [i \in DOMAIN @ |->
                   IF i \in S THEN [@[i] EXCEPT !.acquired = FALSE,
                                      !.waiting_cold_reset_ack = FALSE,
                                      !.waiting_shutdown_ack = FALSE]
                   ELSE @[i]],
               !.to_clean = @ \cup S])

(***************************************************************************)
(* notify_cli_event_single for the clients of S.  A client of broken has   *)
(* gone: the send fails and the client is unregistered.                    *)
(***************************************************************************)
Notify(c, S, event, broken) ==
    LET to == {i \in S : event \in c.clients[i].events_bitmap}
        d == [c EXCEPT
               !.num_waiting_cold_reset_ack =
                   @ + (IF event = "MDM_COLD_RESET" THEN Cardinality(to) ELSE 0),
               !.num_waiting_shutdown_ack =
                   @ + (IF event = "MDM_SHUTDOWN" THEN Cardinality(to) ELSE 0),
               !.clients = [i \in DOMAIN @ |->
                   IF i \notin to THEN @[i]
                   ELSE [@[i] EXCEPT
                          !.waiting_cold_reset_ack = @ \/ event = "MDM_COLD_RESET",
                          !.waiting_shutdown_ack = @ \/ event = "MDM_SHUTDOWN",
                          !.told = IF event \in {"MDM_DOWN", "MDM_UP", "MDM_OOS"}
                                   THEN event ELSE @]]]
        e == Check(d, to # {} =>
                     /\ event = "MDM_COLD_RESET" => c.num_waiting_shutdown_ack = 0
                     /\ event = "MDM_SHUTDOWN" => c.num_waiting_cold_reset_ack = 0,
                   "two procedures")
    IN  handle_client_unregister(e, to \cap broken)

notify_cli_event_all(c, event, broken) ==
    Notify(c, DOMAIN c.clients \ c.to_clean, event, broken)

-----------------------------------------------------------------------------
\* Mutant: the request is noted and never sent.
Request_Unsent(c, evt, new) ==
    Check([c EXCEPT !.request_in_progress = TRUE, !.fsm = new],
          ~c.request_in_progress, evt)

(***************************************************************************)
(* Requests to control.  restart ASSERTs that an update or a backup comes  *)
(* without debug information.                                              *)
(***************************************************************************)
Request(c, evt, new) ==
    Check([c EXCEPT !.request_in_progress = TRUE, !.out = Append(@, evt),
                    !.fsm = new],
          ~c.request_in_progress, "request in progress")

restart(c, type, dbg) ==
    IF type \in {"UPDATE", "BACKUP"} /\ dbg THEN Fail(c, "debug information")
    ELSE Request(c, CASE type = "UPDATE" -> "EV_CLI_UPDATE"
                      [] type = "BACKUP" -> "EV_CLI_NVM_BACKUP"
                      [] OTHER -> IF dbg THEN "EV_CLI_RESET_DBG" ELSE "EV_CLI_RESET",
                 "STARTING")

\* Mutant: the wakelock is not acquired.
start_ack_timer_Asleep(c, new) == [c EXCEPT !.fsm = new]

start_ack_timer(c, new) == [c EXCEPT !.wakelock = TRUE, !.fsm = new]

\* The clients are shown that the modem goes off.
FakeOff(c, broken) ==
    [IF c.fake_modem_state THEN c ELSE notify_cli_event_all(c, "MDM_DOWN", broken)
       EXCEPT !.fake_modem_state = TRUE, !.modem_state = "OFF"]

StopOnceAcked(c) == IF c.num_waiting_shutdown_ack = 0
                    THEN Request(c, "EV_CLI_STOP", "STOPPING")
                    ELSE start_ack_timer(c, "ACK_WAITING_SHTDWN")

start_shutdown_procedure(c, broken) ==
    StopOnceAcked(FakeOff(notify_cli_event_all(c, "MDM_SHUTDOWN", broken), broken))

\* The clients are shown that the modem is busy.
FakeBusy(c, broken) ==
    IF c.modem_state = "BUSY" THEN c
    ELSE Check([notify_cli_event_all(c, "MDM_DOWN", broken) EXCEPT
                  !.modem_state = "BUSY", !.fake_modem_state = TRUE],
               ~c.fake_modem_state, "fake state")

RestartOnceAcked(c) == IF c.num_waiting_cold_reset_ack = 0
                       THEN restart(c, c.restart_type, c.dbg_info_present)
                       ELSE start_ack_timer(c, "ACK_WAITING_COLD")

\* Mutant: the clients are not told that the modem goes down.
start_restart_procedure_Silent(c, broken) ==
    RestartOnceAcked([notify_cli_event_all(c, "MDM_COLD_RESET", broken) EXCEPT
                        !.modem_state = "BUSY", !.fake_modem_state = TRUE])

start_restart_procedure(c, broken) ==
    RestartOnceAcked(notify_cli_event_all(FakeBusy(c, broken), "MDM_COLD_RESET", broken))

check_pending_up(c, broken) ==
    CASE c.request_in_progress \/ c.modem_state # "READY" -> c
      [] OTHER -> IF c.num_acquired = 0 THEN start_shutdown_procedure(c, broken)
                  ELSE IF c.restart_type # "0" THEN start_restart_procedure(c, broken)
                  ELSE [c EXCEPT !.fsm = "UP"]

check_pending_down(c) ==
    CASE c.request_in_progress \/ c.modem_state # "OFF" -> c
      [] OTHER -> IF c.num_acquired > 0 THEN Request(c, "EV_CLI_START", "STARTING")
                  ELSE [c EXCEPT !.fsm = "OFF"]

\* Mutant: the acknowledged restart is never requested.
client_acked_cold_Forgets(c, broken) ==
    IF c.num_acquired = 0 THEN start_shutdown_procedure(c, broken)
    ELSE [c EXCEPT !.fsm = "STARTING"]

client_acked_cold(c, broken) ==
    IF c.modem_state = "UNRESP" THEN [c EXCEPT !.fsm = "OFF"]
    ELSE IF c.num_acquired = 0 THEN start_shutdown_procedure(c, broken)
    ELSE IF c.restart_type # "0" THEN restart(c, c.restart_type, c.dbg_info_present)
    ELSE restart(Check(c, c.real_modem_state = "BUSY", "not busy"), "RESTART", FALSE)

\* Mutant: the acknowledged shutdown is never requested.
client_acked_shtdwn_Forgets(c, broken) ==
    IF c.num_acquired > 0 /\ c.restart_type # "0"
    THEN start_restart_procedure(c, broken)
    ELSE [c EXCEPT !.fsm = "STOPPING"]

client_acked_shtdwn(c, broken) ==
    IF c.num_acquired = 0 THEN Request(c, "EV_CLI_STOP", "STOPPING")
    ELSE IF c.restart_type # "0" THEN start_restart_procedure(c, broken)
    ELSE IF c.real_modem_state = "READY" THEN Request(c, "EV_CLI_STOP", "STOPPING")
    ELSE restart(Check([c EXCEPT !.fake_modem_state = FALSE,
                                 !.modem_state = c.real_modem_state],
                       c.real_modem_state = "BUSY", "not busy"), "RESTART", FALSE)

check_failure(c) == Check(c, c.modem_state = "UNRESP", "failure")

\* cla_fsm_array, one column per state
Columns == [INITIAL |-> 1, OFF |-> 2, STARTING |-> 3, UP |-> 4,
            ACK_WAITING_COLD |-> 5, ACK_WAITING_SHTDWN |-> 6, STOPPING |-> 7]

cla_fsm_array ==
  [EV_SUCCESS |-> <<"assert", "assert", "check_pending_up", "assert", "assert",
                    "assert", "check_pending_down">>,
   EV_FAILURE |-> <<"assert", "check_failure", "assert", "assert", "assert",
                    "assert", "OFF">>,
   EV_MDM_OFF |-> <<"check_pending_down", "assert", "assert", "assert", "assert",
                    "assert", "check_pending_down">>,
   EV_MDM_UNRESP |-> <<"assert", "OFF", "OFF", "assert", "NULL", "assert", "NULL">>,
   EV_MDM_BUSY |-> <<"assert", "assert", "NULL", "mdm_busy", "NULL", "NULL", "NULL">>,
   EV_MDM_READY |-> <<"check_pending_up", "assert", "check_pending_up", "assert",
                      "assert", "assert", "assert">>,
   EV_CLI_ACQUIRE |-> <<"NULL", "client_acquire", "NULL", "assert", "NULL", "NULL",
                        "NULL">>,
   EV_CLI_RELEASE |-> <<"NULL", "check_failure", "NULL", "client_release", "NULL",
                        "NULL", "NULL">>,
   EV_CLI_RESTART |-> <<"NULL", "assert", "NULL", "client_restart", "assert",
                        "NULL", "assert">>,
   EV_CLI_ACKED |-> <<"NULL", "assert", "assert", "assert", "client_acked_cold",
                      "client_acked_shtdwn", "assert">>]

\* The operations of the table; a bare state name is a transition without one.
Operation(c, op, event, broken) ==
    CASE op = "NULL"   -> c
      [] op = "assert" -> Fail(c, event)
      [] op = "OFF"    -> [c EXCEPT !.fsm = "OFF"]
      [] op = "check_pending_up"   -> check_pending_up(c, broken)
      [] op = "check_pending_down" -> check_pending_down(c)
      [] op = "check_failure"      -> check_failure(c)
      [] op = "mdm_busy"           ->
           start_restart_procedure([c EXCEPT !.restart_type = "RESTART"], broken)
      [] op = "client_acquire"     -> Request(c, "EV_CLI_START", "STARTING")
      [] op = "client_release"     -> start_shutdown_procedure(c, broken)
      [] op = "client_restart"     -> start_restart_procedure(c, broken)
      [] op = "client_acked_cold"  -> client_acked_cold(c, broken)
      [] op = "client_acked_shtdwn" -> client_acked_shtdwn(c, broken)

notify_event(c, event, broken) ==
    Operation(c, cla_fsm_array[event][Columns[c.fsm]], event, broken)

-----------------------------------------------------------------------------
(***************************************************************************)
(* handle_control_msg for a state of the modem.  PLATFORM_REBOOT is UNRESP *)
(* without a message to the clients.                                       *)
(***************************************************************************)
ModemState(c0, m, broken) ==
    LET state == IF m = "PLATFORM_REBOOT" THEN "UNRESP" ELSE m
        c == Check([c0 EXCEPT !.real_modem_state = state,
                      !.restart_type = IF state \in {"READY", "OFF"} THEN "0" ELSE @,
                      !.reject_requests = @ \/ state = "UNRESP"],
                   c0.modem_state # "UNRESP", "out of service")
        filter == c.fake_modem_state /\ state # "UNRESP"
        d == [c EXCEPT !.fake_modem_state =
                @ /\ state # "UNRESP" /\ c.modem_state # state]
        tell == /\ m # "PLATFORM_REBOOT"
                /\ \/ c.modem_state = "UNKNOWN"
                   \/ CliEvent(state) # CliEvent(c.modem_state)
        e == IF tell THEN notify_cli_event_all(d, CliEvent(state), broken) ELSE d
    IN  IF filter \/ c.modem_state = state THEN d
        ELSE notify_event([e EXCEPT !.modem_state = state],
                          CASE state = "OFF"    -> "EV_MDM_OFF"
                            [] state = "UNRESP" -> "EV_MDM_UNRESP"
                            [] state = "BUSY"   -> "EV_MDM_BUSY"
                            [] state = "READY"  -> "EV_MDM_READY", broken)

handle_control_msg(c, m, broken) ==
    CASE m \in {"SUCCESS", "FAILURE"} ->
           notify_event([c EXCEPT !.request_in_progress = FALSE],
                        IF m = "SUCCESS" THEN "EV_SUCCESS" ELSE "EV_FAILURE", broken)
      [] m = "DBG_INFO" -> notify_cli_event_all(c, "MDM_DBG_INFO", broken)
      [] OTHER -> ModemState(c, m, broken)

-----------------------------------------------------------------------------
(***************************************************************************)
(* handle_client_msg, for the request r of client i.                       *)
(***************************************************************************)
Register(c, i, bitmap, broken) ==
    IF c.clients[i].registered THEN handle_client_unregister(c, {i})
    ELSE LET d == [c EXCEPT !.clients[i].registered = TRUE,
                            !.clients[i].events_bitmap = bitmap]
         IN  IF d.modem_state = "UNKNOWN" THEN d
             ELSE Notify(d, {i}, CliEvent(d.modem_state), broken)

Acquire(c, i) ==
    IF c.reject_requests \/ c.clients[i].acquired THEN c
    ELSE [c EXCEPT !.clients[i].acquired = TRUE, !.num_acquired = @ + 1]

Release(c, i) ==
    IF c.reject_requests \/ ~c.clients[i].acquired THEN c
    ELSE Check([c EXCEPT !.clients[i].acquired = FALSE, !.num_acquired = @ - 1],
               c.num_acquired > 0, "release")

Restart(c, type, dbg, broken) ==
    IF c.restart_type # "0" \/ c.real_modem_state # "READY" \/ c.reject_requests
    THEN c
    ELSE notify_event([c EXCEPT !.restart_type = type, !.dbg_info_present = dbg],
                      "EV_CLI_RESTART", broken)

\* An acknowledgement, of which f is the flag and n the counter.
Ack(c, i, f, n) == IF ~c.clients[i][f] THEN c
                   ELSE Check([c EXCEPT !.clients[i][f] = FALSE, ![n] = @ - 1],
                              c[n] > 0, "ack")

handle_client_msg(c, i, r, bitmap, broken) ==
    CASE i \in c.to_clean -> c
      [] i \notin c.to_clean /\ r # "REGISTER" /\ ~c.clients[i].registered ->
           handle_client_unregister(c, {i})
      [] OTHER ->
         CASE r = "REGISTER" -> Register(c, i, bitmap, broken)
           [] r = "ACQUIRE" -> Acquire(c, i)
           [] r = "RELEASE" -> Release(c, i)
           [] r \in {"RESTART", "RESTART_DBG", "UPDATE", "UPDATE_DBG"} ->
                Restart(c, IF r \in {"RESTART", "RESTART_DBG"} THEN "RESTART" ELSE "UPDATE",
                        r \in {"RESTART_DBG", "UPDATE_DBG"}, broken)
           [] r = "SHUTDOWN" -> [c EXCEPT !.reject_requests = TRUE,
                                          !.num_acquired = 0]
           [] r = "NVM_BACKUP" ->
                notify_event([c EXCEPT !.restart_type = "BACKUP"],
                             "EV_CLI_RESTART", broken)
           [] r = "ACK_COLD_RESET" ->
                Ack(c, i, "waiting_cold_reset_ack", "num_waiting_cold_reset_ack")
           [] r = "ACK_SHUTDOWN" ->
                Ack(c, i, "waiting_shutdown_ack", "num_waiting_shutdown_ack")
           [] r = "NOTIFY_DBG" -> notify_cli_event_all(c, "MDM_DBG_INFO", broken)

-----------------------------------------------------------------------------
(***************************************************************************)
(* main_loop.  A round looks at the descriptors in turn: the queue of the  *)
(* IPC (which it drains), the socket of new connections, the clients.      *)
(* After each, changes between the locals <<acquired, waiting_ack>> and    *)
(* the context become events of the FSM.  A round in which no client has   *)
(* gone may as well be several, hence pos is 0 until to_clean is not       *)
(* empty.                                                                  *)
(***************************************************************************)
Waiting(c) == c.num_waiting_cold_reset_ack # 0 \/ c.num_waiting_shutdown_ack # 0
Locals(c) == <<c.num_acquired # 0, Waiting(c)>>

\* Mutant: the first acknowledgement ends the wait.
AfterDescriptor_FirstAck(c, locals, broken) ==
    IF locals[2] THEN notify_event(c, "EV_CLI_ACKED", broken) ELSE c

AfterDescriptor(c, locals, broken) ==
    LET acked    == locals[2] /\ ~Waiting(c)
        released == locals[1] /\ c.num_acquired = 0
        acquires == ~locals[1] /\ c.num_acquired # 0
    IN  IF ~acked /\ ~released /\ ~acquires THEN c
        ELSE notify_event([Check(c, ~(acked /\ acquires), "acquired and acked") EXCEPT
                             !.restart_type = IF acked /\ released THEN "0" ELSE @],
                          CASE acked -> "EV_CLI_ACKED"
                            [] ~acked /\ released -> "EV_CLI_RELEASE"
                            [] OTHER -> "EV_CLI_ACQUIRE", broken)

\* update_client_list; to_clean itself is reset by the next round.
update_client_list(c) ==
    LET keep == DOMAIN c.clients \ c.to_clean
        Nth(n) == CHOOSE i \in keep : Cardinality({j \in keep : j < i}) = n - 1
    IN  [c EXCEPT !.clients = [n \in 1..Cardinality(keep) |-> c.clients[Nth(n)]]]

\* The end of a round, and the wakelock at the top of the next iteration.
EndRound(c) ==
    LET d == update_client_list(c)
    IN  [d EXCEPT !.pos = 0,
                  !.wakelock = @ /\ (Waiting(d) \/ d.timer_boot_armed)]

\* A round starts.
Begin(c) == IF c.pos = 0 THEN [c EXCEPT !.to_clean = {}] ELSE c

\* A descriptor has been handled: the round goes on at pos (more), or ends.
Done(c, pos, more) ==
    IF c.err # <<>> THEN /\ abort' = c.err /\ UNCHANGED <<cla, ctrlQ>>
    ELSE /\ ctrlQ' = Send(ctrlQ, c.out)
         /\ cla' = LET d == [c EXCEPT !.out = <<>>]
                   IN  IF more THEN [d EXCEPT !.pos = pos] ELSE EndRound(d)
         /\ UNCHANGED abort
\* The round goes on with the descriptors from pos on, or that was the last one
\* ready.  Only a round that has clients to clean differs from a new one.
GoesOn(c, pos) ==
    \E more \in IF c.to_clean # {} /\ pos - 1 \in DOMAIN c.clients
                THEN BOOLEAN ELSE {FALSE} : Done(c, pos, more)

\* The clients that have gone, as far as the sends of a step are concerned.
Broken == IF SendsFail THEN SUBSET DOMAIN cla.clients ELSE {{}}

\* One message of control; the locals are those of the first one.
ControlMessage ==
    /\ abort = <<>> /\ claQ # <<>> /\ cla.pos = 0
    /\ claQ' = Tail(claQ)
    /\ \E broken \in Broken :
         LET b == IF cla.drain = <<>>
                  THEN [Begin(cla) EXCEPT !.drain = Locals(cla)] ELSE cla
         IN  Done(handle_control_msg(b, Head(claQ), broken), 0, TRUE)

\* The queue is found empty.
Drained ==
    /\ abort = <<>> /\ claQ = <<>> /\ cla.drain # <<>>
    /\ \E broken \in Broken :
         GoesOn(AfterDescriptor([cla EXCEPT !.drain = <<>>], cla.drain, broken), 1)
    /\ UNCHANGED claQ

(***************************************************************************)
(* The round serves client i (0: a new connection).  A round that starts   *)
(* here has found the queue empty: what control sends in the meantime is   *)
(* for the next round, and commutes with this step.                        *)
(***************************************************************************)
Serving(i) == /\ abort = <<>> /\ cla.drain = <<>> /\ i + 1 >= cla.pos
              /\ cla.pos = 0 => claQ = <<>>

\* A client connects.
Accept ==
    /\ Serving(0)
    /\ "CONNECT" \in Requests /\ Len(cla.clients) < MaxClients
    /\ GoesOn([Begin(cla) EXCEPT !.clients = Append(@, NewClient)], 2)
    /\ UNCHANGED claQ

\* A message of client i, or the end of its connection.
ClientStep(i, Handler(_, _)) ==
    /\ Serving(i)
    /\ \E broken \in Broken :
         LET b == Begin(cla)
         IN  GoesOn(AfterDescriptor(Handler(b, broken), Locals(b), broken), i + 2)
    /\ UNCHANGED claQ

ClientMessage(i, r, bitmap) ==
    LET Handler(c, broken) == handle_client_msg(c, i, r, bitmap, broken)
    IN  r \in Requests /\ ClientStep(i, Handler)

ClientGone(i) ==
    LET Handler(c, broken) == IF i \in c.to_clean THEN c
                              ELSE handle_client_unregister(c, {i})
    IN  "LEAVE" \in Requests /\ ClientStep(i, Handler)

(***************************************************************************)
(* poll times out: the boot time is over, or the clients have not all      *)
(* acknowledged in time.  to_clean is that of the last round.              *)
(***************************************************************************)
BootTimeout ==
    /\ abort = <<>> /\ claQ = <<>> /\ cla.drain = <<>> /\ cla.pos = 0
    /\ cla.timer_boot_armed
    /\ IF cla.wakelock
       THEN /\ cla' = [cla EXCEPT !.timer_boot_armed = FALSE,
                                  !.wakelock = Waiting(cla)]
            /\ UNCHANGED abort
       ELSE abort' = <<"cla", "wakelock", cla.fsm>> /\ UNCHANGED cla
    /\ UNCHANGED <<ctrlQ, claQ>>

\* The wakelock is given back when neither timer needs it.
Relock(c) == [c EXCEPT !.wakelock = Waiting(c) \/ c.timer_boot_armed]

AckTimeout ==
    /\ abort = <<>> /\ claQ = <<>> /\ cla.drain = <<>> /\ cla.pos = 0
    /\ Waiting(cla)
    /\ \E broken \in Broken :
         LET c == [cla EXCEPT !.num_waiting_cold_reset_ack = 0,
                              !.num_waiting_shutdown_ack = 0,
                              !.clients = [i \in DOMAIN @ |->
                                 [@[i] EXCEPT !.waiting_cold_reset_ack = FALSE,
                                              !.waiting_shutdown_ack = FALSE]]]
         IN  Done(Relock(notify_event(Check(c, cla.wakelock, "wakelock"),
                                      "EV_CLI_ACKED", broken)), 0, TRUE)
    /\ UNCHANGED claQ

Handle == \/ ControlMessage \/ Drained \/ Accept
          \/ \E i \in DOMAIN cla.clients :
               \/ \E r \in Requests \ {"CONNECT", "LEAVE", "REGISTER"} : ClientMessage(i, r, {})
               \/ \E bitmap \in Bitmaps : ClientMessage(i, "REGISTER", bitmap)
               \/ ClientGone(i)
          \/ BootTimeout \/ AckTimeout
=============================================================================
