------------------------------ MODULE HalPcie ------------------------------
(***************************************************************************)
(* The HAL of the PCIe platforms (a discrete modem, flashed at each boot), *)
(* with what it drives: the modem behind the MCD driver and its netlink    *)
(* messages, the thread that configures the modem (ping, MUX, ping), and   *)
(* the NVM manager, a daemon that connects to a socket of the HAL.         *)
(*                                                                         *)
(* A handler is a function of the context h.  It returns the context with  *)
(* the state it goes to and with its effects in the fields of Effects: the *)
(* events for control, the last command to the modem, the message for the  *)
(* NVM manager, what is asked of its service, and the ASSERT that fails.   *)
(***************************************************************************)
EXTENDS Ipc, TLC

CONSTANTS
    DumpDisabled,  \* debug property CRM_KEY_DBG_DISABLE_DUMP
    Faults,        \* what may go wrong outside CRM, see FaultKinds
    MaxFaults,     \* bound on the number of faults of a behaviour
    MaxNet         \* bound on unread netlink messages

FaultKinds == {"crash",   \* the modem crashes, and has a dump
               "self",    \* the modem resets itself
               "ioctl",   \* a command to MCD fails
               "silent",  \* the modem does not react to a command
               "mux",     \* the MUX hangs up
               "mount",   \* a step of the configuration of the modem fails
               "nvm",     \* the NVM manager dies
               "slow",    \* the NVM manager is slower than the modem
               "flash", "dump"}   \* see CrmPcie

VARIABLES
    hal,      \* crm_hal_ctx_internal_t and the state of its FSM
    modem,    \* what the modem does
    netQ,     \* netlink messages, not yet read
    nvm,      \* what the NVM manager does
    nvmQ,     \* what it has sent to the HAL, not yet read; EOF closes
    conns,    \* its connections that have not registered, each of them
              \* <<"backlog" or "pending" (accepted), its process lives>>
    faults,   \* number of faults so far
    ctrlQ, claQ, halQ, abort

halVars == <<hal, modem, netQ, nvm, nvmQ, conns>>

May(fault) == fault \in Faults /\ faults < MaxFaults
Fault(fault) == May(fault) /\ faults' = faults + 1

-----------------------------------------------------------------------------
(***************************************************************************)
(* crm_hal_init and the start of crm_hal_pcie_fsm: the NVM manager is      *)
(* started and the modem is off.  polled: mux_fd when poll() was entered,  *)
(* which the configuring thread may change meanwhile.                      *)
(***************************************************************************)
crm_hal_init ==
    [st |-> "OFF", request |-> "NONE", backup |-> FALSE, timer |-> FALSE,
     first |-> TRUE, mdm_state |-> "EV_MDM_OFF",
     mux |-> "closed",        \* mux_fd: "closed", "open" or "hungup"
     polled |-> FALSE,
     cfg |-> "none",          \* thread_cfg: its step, or its message
     nvm_connected |-> FALSE, nvm_syncing |-> FALSE,
     socket |-> FALSE,        \* daemons[0].socket # -1
     num_sockets |-> 0]

Effects == [out |-> <<>>, backed |-> FALSE, cmd |-> "none", msg |-> "none",
            service |-> "none", why |-> "", tried |-> FALSE]

Init == /\ hal = crm_hal_init /\ modem = "off" /\ netQ = <<>>
        /\ nvm = "starting" /\ nvmQ = <<>> /\ conns = <<>> /\ faults = 0

\* ASSERT: the first one that fails counts.
Check(h, cond, why) == IF cond \/ h.why # "" THEN h ELSE [h EXCEPT !.why = why]

Go(h, st) == [h EXCEPT !.st = st]
notify(h, evts) == [h EXCEPT !.out = @ \o evts]
timer_off(h) == [h EXCEPT !.timer = FALSE]

timer_start(h, update) ==
    [Check(h, update \/ ~h.timer, "timer") EXCEPT !.timer = TRUE]

BUSY == "EV_HAL_MDM_BUSY"

-----------------------------------------------------------------------------
\* The commands to MCD.  All but the start close the MUX first.
Command(h, cmd) == [h EXCEPT !.tried = TRUE, !.cmd = IF h.ok THEN cmd ELSE @]
start_modem(h) == Command(Check(h, h.mux = "closed", "mux open"), "on")
Closing(h, cmd) == Command([h EXCEPT !.mux = "closed"], cmd)
stop_modem(h) == Closing(h, "off")
warm_reset_modem(h) == Closing(h, "warm")
cold_reset_modem(h) == Closing(h, "cold")

\* daemons.c: the service of the NVM manager, and its socket.
daemon_start(h) ==
    [Check(h, ~h.socket, "daemon socket") EXCEPT
       !.service = IF @ = "stop" THEN "restart" ELSE "start"]

daemon_stop(h) ==
    [h EXCEPT !.service = "stop", !.socket = FALSE,
              !.num_sockets = IF h.socket THEN @ - 1 ELSE @]

\* The write fails once the NVM manager has closed its end.
msg_send(h, msg) ==
    IF h.peer THEN [Check(h, h.socket, "daemon not connected") EXCEPT !.msg = msg]
    ELSE Check(h, h.socket, "daemon not connected")

nvm_on_modem_up(h) ==
    IF h.peer \/ ~h.socket THEN msg_send(h, "START")
    ELSE daemon_start(daemon_stop([h EXCEPT !.nvm_connected = FALSE]))

nvm_on_modem_down(h) ==
    IF h.peer \/ ~h.socket THEN msg_send(h, "STOP") ELSE daemon_stop(h)

nvm_on_manager_crash(h) ==
    [daemon_start(daemon_stop(h)) EXCEPT !.nvm_syncing = FALSE]

-----------------------------------------------------------------------------
(***************************************************************************)
(* The handlers of fsm_hal.c.                                              *)
(***************************************************************************)
\* notify_dead(): also the failsafe, for a handler that returns -2.
notify_dead(h) ==
    Go(notify(stop_modem(h), <<BUSY, "EV_HAL_MDM_UNRESPONSIVE">>), "OFF")

stop_daemons(h) == timer_start(nvm_on_modem_down(h), FALSE)

cfg_modem(h) ==
    IF h.request # "BOOT" THEN h
    ELSE Go([timer_off(Check(h, h.cfg = "none", "thread_cfg")) EXCEPT
               !.request = "NONE", !.cfg = "ping"], "CONFIGURING")

Leaving(h) == Check(Check(h, h.request \in {"STOP", "RESET"}, "request"),
                    h.timer, "timer")

link_down_evt(h) ==
    CASE h.request # "STOP"         -> notify(Leaving(h), <<BUSY>>)
      [] h.request = "STOP" /\ h.ok ->
            timer_start(stop_modem(notify(Leaving(h), <<BUSY>>)), TRUE)
      [] OTHER -> notify_dead(stop_modem(notify(Leaving(h), <<BUSY>>)))

timeout_waiting_link(h) ==
    IF h.first /\ h.ok
    THEN timer_start([IF h.request = "STOP" THEN stop_modem(h)
                      ELSE cold_reset_modem(h) EXCEPT !.first = FALSE], TRUE)
    ELSE notify_dead([h EXCEPT !.first = FALSE])

\* Mutant: the modem is cut off while the NVM manager still writes.
reset_or_stop_Cuts(h) ==
    CASE h.request = "RESET" ->
            Go(timer_start(cold_reset_modem(timer_off(h)), TRUE), "WAITING_LINK")
      [] h.request = "STOP" ->
            Go(timer_start(stop_modem(timer_off(h)), TRUE), "WAITING_LINK")
      [] OTHER -> timer_off(h)

\* reset_or_stop() once the backup, if asked for, has been taken.
ResetOrStop(h) ==
    CASE h.request = "RESET" ->
            Go(timer_start(cold_reset_modem(Check(h, h.ok, "cold reset")), TRUE),
               "WAITING_LINK")
      [] h.request = "STOP" /\ h.mdm_state \in {"EV_MDM_LINK_DOWN", "EV_MDM_OFF"} ->
            Go(stop_modem(Check(h, h.ok, "stop")), "OFF")
      [] h.request = "STOP" /\ h.mdm_state \notin {"EV_MDM_LINK_DOWN", "EV_MDM_OFF"} ->
            Go(timer_start(stop_modem(Check(h, h.ok, "stop")), TRUE), "WAITING_LINK")
      [] OTHER -> h

reset_or_stop(h) ==
    IF h.nvm_syncing THEN h
    ELSE ResetOrStop([timer_off(h) EXCEPT !.backup = FALSE, !.backed = h.backup])

timeout_daemons(h) ==
    IF h.first
    THEN reset_or_stop(timer_off(nvm_on_manager_crash(
           [Check(h, h.nvm_connected, "nvm") EXCEPT !.first = FALSE])))
    ELSE notify_dead(h)

mdm_off_evt(h) ==
    IF h.request = "STOP"
    THEN Go([timer_off(stop_modem(notify(Leaving(h), <<BUSY, "EV_HAL_MDM_OFF">>)))
               EXCEPT !.request = "NONE"], "OFF")
    ELSE notify(Leaving(h), <<BUSY>>)

\* notify_mux_err(), notify_timeout() and notify_self()
notify_need_reset(h) ==
    Go(timer_start(nvm_on_modem_down(notify(h, <<BUSY, "EV_HAL_MDM_NEED_RESET">>)),
                   TRUE), "STOPPING_DAEMONS")

\* Mutant: control is not told of a crash.
notify_crash_Silent(h) == Go(h, "WAITING_DUMP")

notify_dump(h) == notify(h, <<"EV_HAL_MDM_DUMP">>)
notify_crash(h) == Go(notify(h, <<BUSY>>), "WAITING_DUMP")
prepare_dump(h) == IF DumpDisabled THEN notify_need_reset(h) ELSE warm_reset_modem(h)

\* Mutant: the timer of the boot goes on.
notify_flash_KeepsTimer(h) ==
    Go(notify(Check(h, h.timer, "timer"), <<BUSY, "EV_HAL_MDM_FLASH">>), "FLASHING")

notify_flash(h) ==
    Go(notify(timer_off(Check(h, h.timer, "timer")), <<BUSY, "EV_HAL_MDM_FLASH">>),
       "FLASHING")

start_daemons(h) ==
    Go(nvm_on_modem_up(Check(timer_start(h, FALSE),
                             h.nvm_connected /\ ~h.nvm_syncing, "nvm")),
       "STARTING_DAEMONS")

\* Mutant: the timer of the daemons goes on.
notify_run_KeepsTimer(h) ==
    Go(notify(Check(h, h.timer, "timer"), <<"EV_HAL_MDM_RUN">>), "RUN")

notify_run(h) ==
    Go(notify(timer_off(Check(h, h.timer, "timer")), <<"EV_HAL_MDM_RUN">>), "RUN")

\* request_stop(), request_reset() and, with backup, request_backup()
Requested(h, r) == [Check(h, h.request = "NONE", "request") EXCEPT !.request = r]
request(h, r, backup) ==
    Go(stop_daemons([Requested(h, r) EXCEPT !.backup = @ \/ backup]),
       "STOPPING_DAEMONS")

request_power(h) ==
    IF h.ok THEN Go(timer_start(start_modem(Requested(h, "POWER")), FALSE), "BOOTING")
    ELSE notify_dead(start_modem(Requested(h, "POWER")))

request_boot(h) ==
    LET b == [Check(h, h.request \in {"POWER", "RESET"}, "request") EXCEPT
                !.request = "BOOT"]
    IN  IF h.mdm_state = "EV_MDM_RUN" THEN cfg_modem(b) ELSE timer_start(b, FALSE)

accept(h, r) == reset_or_stop([h EXCEPT !.request = r])

-----------------------------------------------------------------------------
\* The state/event table, one column per state.
Columns == [OFF |-> 1, BOOTING |-> 2, FLASHING |-> 3, CONFIGURING |-> 4,
            STARTING_DAEMONS |-> 5, RUN |-> 6, WAITING_DUMP |-> 7,
            STOPPING_DAEMONS |-> 8, WAITING_LINK |-> 9]

g_fsm_array ==
  [EV_POWER |->
     <<"request_power", "reject", "reject", "reject", "reject", "reject",
       "reject", "reject", "reject">>,
   EV_BOOT |->
     <<"reject", "reject", "request_boot", "reject", "reject", "reject",
       "reject", "reject", "reject">>,
   EV_STOP |->
     <<"reject", "reject", "reject", "reject", "reject", "request_stop",
       "request_stop", "accept_stop", "reject">>,
   EV_RESET |->
     <<"reject", "reject", "reject", "reject", "reject", "request_reset",
       "request_reset", "accept_reset", "reject">>,
   EV_BACKUP |->
     <<"reject", "reject", "reject", "reject", "reject", "request_backup",
       "reject", "reject", "reject">>,
   EV_MDM_OFF |->
     <<"assert", "need_reset", "need_reset", "need_reset", "need_reset",
       "need_reset", "NULL", "NULL", "mdm_off_evt">>,
   EV_MDM_FLASH |->
     <<"assert", "notify_flash", "assert", "assert", "assert", "assert",
       "notify_dump", "todo", "notify_flash">>,
   EV_MDM_RUN |->
     <<"assert", "assert", "cfg_modem", "assert", "assert", "assert", "assert",
       "todo", "assert">>,
   EV_MDM_CRASH |->
     <<"todo", "todo", "todo", "todo", "todo", "notify_crash", "assert",
       "todo", "todo">>,
   EV_MDM_DUMP_READY |->
     <<"assert", "assert", "assert", "assert", "assert", "assert",
       "prepare_dump", "todo", "assert">>,
   EV_MDM_LINK_DOWN |->
     <<"assert", "need_reset", "need_reset", "need_reset", "need_reset",
       "need_reset", "need_reset", "todo", "link_down_evt">>,
   EV_MDM_CONFIGURED |->
     <<"assert", "assert", "assert", "start_daemons", "assert", "assert",
       "assert", "todo", "assert">>,
   EV_MUX_ERR |->
     <<"assert", "assert", "assert", "need_reset", "need_reset", "need_reset",
       "assert", "NULL", "assert">>,
   EV_MUX_DEAD |->
     <<"assert", "assert", "assert", "mux_dead", "assert", "assert", "assert",
       "todo", "assert">>,
   EV_TIMEOUT |->
     <<"assert", "assert", "need_reset", "need_reset", "todo", "assert", "todo",
       "timeout_daemons", "timeout_waiting_link">>,
   EV_NVM_RUN |->
     <<"assert", "todo", "todo", "todo", "notify_run", "todo", "todo", "NULL",
       "todo">>,
   EV_NVM_STOP |->
     <<"assert", "todo", "todo", "todo", "todo", "todo", "todo",
       "reset_or_stop", "todo">>]

Handler(op, h) ==
    CASE op = "request_power"   -> request_power(h)
      [] op = "request_boot"    -> request_boot(h)
      [] op = "request_stop"    -> request(h, "STOP", FALSE)
      [] op = "request_reset"   -> request(h, "RESET", FALSE)
      [] op = "request_backup"  -> request(h, "RESET", TRUE)
      [] op = "accept_stop"     -> accept(h, "STOP")
      [] op = "accept_reset"    -> accept(h, "RESET")
      [] op = "need_reset"      -> notify_need_reset(h)
      [] op = "mdm_off_evt"     -> mdm_off_evt(h)
      [] op = "notify_flash"    -> notify_flash(h)
      [] op = "notify_dump"     -> notify_dump(h)
      [] op = "cfg_modem"       -> cfg_modem(h)
      [] op = "notify_crash"    -> notify_crash(h)
      [] op = "prepare_dump"    -> prepare_dump(h)
      [] op = "link_down_evt"   -> link_down_evt(h)
      [] op = "start_daemons"   -> start_daemons(h)
      [] op = "mux_dead"        -> notify_dead(h)
      [] op = "notify_run"      -> notify_run(h)
      [] op = "reset_or_stop"   -> reset_or_stop(h)
      [] op = "timeout_daemons" -> timeout_daemons(h)
      [] op = "timeout_waiting_link" -> timeout_waiting_link(h)
      [] op = "NULL"            -> h
      [] OTHER                  -> Check(h, FALSE, op)   \* reject, assert, todo

\* The end of an event: state_trans() on a change of state.
Entered(h, from) == IF h.st = from THEN h ELSE [h EXCEPT !.first = TRUE]
notify_event(h, e) == Entered(Handler(g_fsm_array[e][Columns[h.st]], h), h.st)

-----------------------------------------------------------------------------
(***************************************************************************)
(* What poll() reports, by the priorities of the main loop.  The MUX is    *)
(* readable when it has hung up, and while the configuring thread awaits   *)
(* the answer to an AT command on it.                                      *)
(***************************************************************************)
Posted == {"EV_MDM_CONFIGURED", "EV_MUX_ERR", "EV_MUX_DEAD", "EV_TIMEOUT"}
MuxReadable == /\ hal.polled
               /\ hal.mux = "hungup" \/ (hal.mux = "open" /\ hal.cfg = "mounting")
Source == CASE halQ # <<>>                -> "request"
            [] halQ = <<>> /\ netQ # <<>> -> "netlink"
            [] OTHER -> IF hal.cfg \in Posted THEN "cfg"
                        ELSE IF MuxReadable THEN "mux"
                        ELSE IF nvmQ # <<>> \/ conns # <<>> THEN "daemon"
                        ELSE "none"

Event == CASE Source = "request" -> Head(halQ)
           [] Source = "netlink" -> Head(netQ)
           [] Source = "cfg"     -> hal.cfg
           [] Source = "mux"     -> "EV_MUX_ERR"
           [] Source = "daemon" /\ nvmQ # <<>> ->
                IF Head(nvmQ) = "EOF" THEN "EV_NVM_STOP" ELSE "EV_NVM_RUN"
           [] OTHER -> "none"

\* crm_hal_nvm_daemon_cb, for a daemon that has left, and for its SUCCESS.
Disconnected(h) == [daemon_start(daemon_stop(h)) EXCEPT
                      !.nvm_connected = FALSE, !.nvm_syncing = FALSE]
Synced(h) == [h EXCEPT !.nvm_syncing = TRUE]

\* What the main loop does with the source before it runs the FSM.
Taken(h) == CASE Source = "netlink" -> [h EXCEPT !.mdm_state = Event]
              [] Source = "cfg"     -> [h EXCEPT !.cfg = "none"]
              [] Source = "mux"     -> [h EXCEPT !.mux = "closed"]
              [] Event = "EV_NVM_STOP" -> Disconnected(h)
              [] Event = "EV_NVM_RUN"  -> Synced(h)
              [] OTHER              -> h

\* The context at the start of a step.  ok: a command to MCD will succeed;
\* peer: a write to the NVM manager will.
Start(ok) == hal @@ Effects @@ [ok   |-> ok,
                                peer |-> nvm \in {"idle", "told", "started"}]
Context(h) == [f \in DOMAIN hal |-> IF f = "polled" THEN h.mux # "closed" ELSE h[f]]

\* What a command makes of the modem, and a message of the NVM manager.
Obeyed(cmd) == CASE cmd = "on" /\ modem = "off" -> "waking"
                 [] cmd = "off"  -> IF modem \in {"off", "stopping", "unlinked"}
                                    THEN modem ELSE "stopping"
                 [] cmd = "warm" -> "warming"
                 [] cmd = "cold" -> "resetting"
                 [] OTHER        -> modem
Served(h) == CASE h.service = "stop"                             -> "stopped"
               [] h.service \in {"start", "restart"}             -> "starting"
               [] h.msg = "START" /\ nvm = "idle"                -> "told"
               [] h.msg = "STOP" /\ nvm = "told"                 -> "told to leave"
               [] h.msg = "STOP" /\ nvm = "started"              -> "leaving"
               [] OTHER                                          -> nvm
Killed(h) == h.service \in {"stop", "restart"}

(***************************************************************************)
(* The end of a step of the HAL thread.  The notifications reach control;  *)
(* the one about a backup goes to CLA, and its send is ASSERTed.           *)
(***************************************************************************)
Return(h) ==
    IF h.why # "" \/ (h.backed /\ ~Fits(claQ, <<"DBG_INFO">>))
    THEN /\ abort' = <<"hal", IF h.why # "" THEN h.why ELSE "cla queue", hal.st>>
         /\ UNCHANGED <<halVars, ctrlQ, claQ, halQ>>
    ELSE /\ hal' = Context(h)
         /\ ctrlQ' = Send(ctrlQ, h.out)
         /\ claQ' = IF h.backed THEN Append(claQ, "DBG_INFO") ELSE claQ
         /\ halQ' = IF Source = "request" THEN Tail(halQ) ELSE halQ
         /\ netQ' = IF Source = "netlink" THEN Tail(netQ) ELSE netQ
         /\ modem' = Obeyed(h.cmd)
         /\ nvm' = Served(h)
         /\ nvmQ' = (IF Killed(h) THEN <<>>
                     ELSE IF Source = "daemon" THEN Tail(nvmQ) ELSE nvmQ)
         /\ conns' = (IF Killed(h) THEN [i \in DOMAIN conns |-> <<conns[i][1], FALSE>>]
                      ELSE conns)
         /\ UNCHANGED abort

\* A command fails, or the modem ignores it.
Failing(fault, h) == /\ h.tried /\ Fault(fault)
                     /\ Return(IF fault = "silent" THEN [h EXCEPT !.cmd = "none"] ELSE h)

Step(e) ==
    \/ Return(notify_event(Taken(Start(TRUE)), e)) /\ UNCHANGED faults
    \/ Failing("silent", notify_event(Taken(Start(TRUE)), e))
    \/ Failing("ioctl", notify_event(Taken(Start(FALSE)), e))

Handle == abort = <<>> /\ Event # "none" /\ Step(Event)

\* poll() has timed out.  When it may is for the composition to say.
Expire == abort = <<>> /\ Source = "none" /\ hal.timer /\ Step("EV_TIMEOUT")

-----------------------------------------------------------------------------
(***************************************************************************)
(* crm_hal_daemon_handle_poll, for the connections of daemons that have    *)
(* not registered.  There is room for CRM_HAL_MAX_DAEMONS of them.         *)
(***************************************************************************)
CRM_HAL_MAX_DAEMONS == 2

Accepted(where) == {i \in DOMAIN conns : conns[i][1] = where}
First(where) == CHOOSE i \in Accepted(where) : \A j \in Accepted(where) : i <= j
Without(i) == SubSeq(conns, 1, i - 1) \o SubSeq(conns, i + 1, Len(conns))

\* A daemon that registers twice is removed, and cannot be started again.
Registers == [Check(Start(TRUE), ~hal.socket, "daemon name") EXCEPT
                !.socket = TRUE, !.nvm_connected = TRUE]

handle_poll ==
    /\ abort = <<>> /\ Source = "daemon" /\ conns # <<>>
    /\ IF Accepted("backlog") # {}
       THEN IF Accepted("pending") = {1, 2} \/ hal.num_sockets >= CRM_HAL_MAX_DAEMONS
            THEN /\ abort' = <<"hal", "too many daemons", hal.st>>
                 /\ UNCHANGED <<hal, conns, nvm>>
            ELSE /\ hal' = [Context(hal) EXCEPT !.num_sockets = @ + 1]
                 /\ conns' = [conns EXCEPT ![First("backlog")][1] = "pending"]
                 /\ UNCHANGED <<nvm, abort>>
       ELSE IF ~conns[1][2]
       THEN /\ hal' = [Context(hal) EXCEPT !.num_sockets = @ - 1]
            /\ conns' = Without(1) /\ UNCHANGED <<nvm, abort>>
       ELSE IF Registers.why # ""
       THEN abort' = <<"hal", Registers.why, hal.st>> /\ UNCHANGED <<hal, conns, nvm>>
       ELSE /\ hal' = Context(Registers) /\ conns' = Without(1)
            /\ nvm' = "idle" /\ UNCHANGED abort
    /\ UNCHANGED <<modem, netQ, nvmQ, faults, ctrlQ, claQ, halQ>>

(***************************************************************************)
(* crm_hal_cfg_modem, the configuring thread: it pings the modem, mounts   *)
(* the MUX on it and pings it through the MUX.  It sets mux_fd, which the  *)
(* HAL thread may close meanwhile.                                         *)
(***************************************************************************)
Answers == modem = "run" /\ hal.mux = "open"

CfgStep(from, ctx) == /\ abort = <<>> /\ hal.cfg = from /\ hal' = ctx
                      /\ UNCHANGED <<modem, netQ, nvm, nvmQ, conns, ctrlQ, claQ, halQ>>

CfgPings ==
    IF hal.mux # "closed" /\ hal.cfg = "ping"
    THEN /\ abort = <<>> /\ abort' = <<"hal", "mux open", hal.st>>
         /\ UNCHANGED <<halVars, faults, ctrlQ, claQ, halQ>>
    ELSE /\ UNCHANGED abort
         /\ \/ /\ modem = "run" /\ UNCHANGED faults
               /\ CfgStep("ping", [hal EXCEPT !.cfg = "mounting", !.mux = "open"])
            \/ /\ IF modem = "run" THEN Fault("mount") ELSE UNCHANGED faults
               /\ CfgStep("ping", [hal EXCEPT !.cfg = "EV_MUX_ERR"])

CfgMounts ==
    /\ UNCHANGED abort
    /\ \/ /\ Answers /\ UNCHANGED faults
          /\ CfgStep("mounting", [hal EXCEPT !.cfg = "pinging"])
       \/ /\ IF Answers THEN Fault("mount") ELSE UNCHANGED faults
          /\ CfgStep("mounting", [hal EXCEPT !.cfg = "EV_MUX_ERR", !.mux = "closed"])
       \/ /\ Answers /\ Fault("mount")
          /\ CfgStep("mounting", [hal EXCEPT !.cfg = "EV_MUX_DEAD", !.mux = "closed"])

CfgEnds ==
    /\ UNCHANGED abort
    /\ \/ /\ Answers /\ UNCHANGED faults
          /\ CfgStep("pinging", [hal EXCEPT !.cfg = "EV_MDM_CONFIGURED"])
       \/ /\ IF Answers THEN Fault("mount") ELSE UNCHANGED faults
          /\ CfgStep("pinging", [hal EXCEPT !.cfg = "EV_TIMEOUT"])

Configure == CfgPings \/ CfgMounts \/ CfgEnds

-----------------------------------------------------------------------------
(***************************************************************************)
(* The modem: each change of state is a netlink message.                   *)
(***************************************************************************)
Modem(from, to, msgs) ==
    /\ abort = <<>> /\ modem \in from /\ Len(netQ) + Len(msgs) <= MaxNet
    /\ modem' = to /\ netQ' = netQ \o msgs
    /\ UNCHANGED <<hal, nvm, nvmQ, conns, ctrlQ, claQ, halQ, abort>>

\* A modem that starts needs more time than the NVM manager to be there.
ModemWakes  == /\ Modem({"waking", "resetting", "reset unlinked", "reset off"},
                        "rom", <<"EV_MDM_FLASH">>)
               /\ IF nvm = "idle" THEN UNCHANGED faults ELSE Fault("slow")
ModemLoads  == Modem({"rom"}, "loaded", <<>>)     \* the firmware is written
ModemBoots  == Modem({"loaded"}, "run", <<"EV_MDM_RUN">>)
ModemTraps  == Modem({"crashed"}, "trap", <<"EV_MDM_DUMP_READY">>)
ModemDumps  == Modem({"warming"}, "dump", <<"EV_MDM_FLASH">>)
ModemStops  == \/ Modem({"stopping"}, "unlinked", <<"EV_MDM_LINK_DOWN">>)
               \/ Modem({"stopping", "unlinked"}, "off", <<"EV_MDM_OFF">>)
ModemResets == \/ Modem({"resetting"}, "reset unlinked", <<"EV_MDM_LINK_DOWN">>)
               \/ Modem({"resetting", "reset unlinked"}, "reset off", <<"EV_MDM_OFF">>)
ModemCrashes == Fault("crash") /\ Modem({"run"}, "crashed", <<"EV_MDM_CRASH">>)
ModemFails   == /\ Fault("self")
                /\ \E e \in {"EV_MDM_OFF", "EV_MDM_LINK_DOWN"} :
                     Modem({"rom", "loaded", "run", "dump"}, "off", <<e>>)

\* The NVM manager connects, starts to keep the modem's NVM, and leaves.
Nvm(from, to, msgs) ==
    /\ abort = <<>> /\ nvm = from /\ nvm' = to /\ nvmQ' = nvmQ \o msgs
    /\ UNCHANGED <<hal, modem, netQ, ctrlQ, claQ, halQ, abort>>

NvmConnects == /\ Nvm("starting", "waiting", <<>>) /\ UNCHANGED faults
               /\ conns' = Append(conns, <<"backlog", TRUE>>)
NvmStarts   == /\ \/ Nvm("told", "started", <<"SUCCESS">>)
                  \/ Nvm("told to leave", "leaving", <<"SUCCESS">>)
               /\ UNCHANGED <<faults, conns>>
NvmLeaves   == Nvm("leaving", "gone", <<"EOF">>) /\ UNCHANGED <<faults, conns>>
NvmDies     == /\ \E s \in {"idle", "told", "started", "leaving"} : Nvm(s, "gone", <<"EOF">>)
               /\ Fault("nvm") /\ UNCHANGED conns

MuxHangsUp == /\ abort = <<>> /\ hal.mux = "open" /\ Fault("mux")
              /\ hal' = [hal EXCEPT !.mux = "hungup"]
              /\ UNCHANGED <<modem, netQ, nvm, nvmQ, conns, ctrlQ, claQ, halQ, abort>>

Obey == \/ /\ ModemBoots \/ ModemTraps \/ ModemDumps \/ ModemStops \/ ModemResets
           /\ UNCHANGED faults
        \/ ModemWakes \/ NvmConnects \/ NvmStarts \/ NvmLeaves
Misbehave == ModemCrashes \/ ModemFails \/ NvmDies \/ MuxHangsUp
=============================================================================
