------------------------------ MODULE HalSofia ------------------------------
(***************************************************************************)
(* The HAL of the SoFIA platform (virtual modem flashed by CRM, that is    *)
(* secvm_flash = false), with the parts of the platform it drives: the     *)
(* modem VM behind its sysfs files and uevents, the ping thread and the    *)
(* RPC daemon.                                                             *)
(*                                                                         *)
(* A uevent carries no state: the HAL reads the state of the modem from    *)
(* sysfs when it handles the uevent, which may be later than the change.   *)
(***************************************************************************)
EXTENDS Ipc

CONSTANTS
    DumpEnabled,  \* dump_enabled: debug property silent_reset
    Faults,       \* what may go wrong outside CRM, see FaultKinds
    MaxFaults,    \* bound on the number of faults of a behaviour
    MaxUevents,   \* bound on unread uevents
    MaxRpc        \* bound on unread events of the RPC daemon

FaultKinds == {"off",          \* the modem switches itself off
               "trap",         \* the modem crashes
               "verify-fail",  \* the modem refuses its firmware
               "mute",         \* the modem or the RPC daemon misses a timeout
               "rpc",          \* the RPC daemon dies
               "sysfs",        \* a write to the modem's control file fails
               "late",         \* the end of a stopped RPC daemon is seen late
               "flash", "tlv", "dump", "elapse"}  \* see CrmSofia

VARIABLES
    hstate,        \* state of the FSM
    mdm_state,     \* event last read from sysfs
    stopping,      \* the modem is being stopped, not reset
    htimer,        \* timer_armed
    ping,          \* ping thread: "none", "running", or the event it posted
    rpcd_running,
    rpcQ,          \* inotify events of the RPC daemon, not yet read
    rpcd,          \* the daemon: "stopped", "starting", "up", "killed" or, when
                   \* it is started before it has ended, "restarting"
    modem,         \* the sysfs state of the modem
    uevents,       \* uevents not yet read
    faults,        \* number of faults so far
    ctrlQ, halQ, abort

halVars  == <<hstate, mdm_state, stopping, htimer, ping, rpcd_running>>
platform == <<rpcQ, rpcd, modem, uevents, faults>>

\* crm_hal_init_modem has stopped the modem, or has found it up.
Init == /\ hstate = "INITIAL" /\ mdm_state \in {"EV_MDM_OFF", "EV_MDM_ON"}
        /\ stopping = FALSE /\ htimer = FALSE /\ ping = "none"
        /\ rpcd_running = FALSE /\ rpcQ = <<>> /\ rpcd = "stopped"
        /\ modem = (IF mdm_state = "EV_MDM_ON" THEN "on" ELSE "off")
        /\ uevents = 0 /\ faults = 0

May(fault) == fault \in Faults /\ faults < MaxFaults
Fault(fault) == May(fault) /\ faults' = faults + 1

-----------------------------------------------------------------------------
(***************************************************************************)
(* The event handled next, by the priorities of the main loop.  The first  *)
(* one is the state in which the modem was found.                          *)
(***************************************************************************)
Source == CASE hstate = "INITIAL"                    -> "start"
            [] hstate # "INITIAL" /\ halQ # <<>>     -> "request"
            [] hstate # "INITIAL" /\ halQ = <<>> /\ uevents > 0 -> "uevent"
            [] OTHER -> IF ping \in {"EV_MDM_RUN", "EV_TIMEOUT"} THEN "ping"
                        ELSE IF rpcQ # <<>> THEN "rpc"
                        ELSE IF htimer /\ May("mute") THEN "timer"
                        ELSE "none"

\* get_mdm_state_from_sysfs
ModemEvent == CASE modem = "on"          -> "EV_MDM_ON"
                [] modem = "off"         -> "EV_MDM_OFF"
                [] modem = "trap"        -> "EV_MDM_TRAP"
                [] modem = "verify-fail" -> "EV_MDM_FW_FAIL"
                [] OTHER                 -> "none"

Event == CASE Source = "start"   -> mdm_state
           [] Source = "request" -> Head(halQ)
           [] Source = "uevent"  -> ModemEvent
           [] Source = "ping"    -> ping
           [] Source = "rpc"     -> Head(rpcQ)
           [] Source = "timer"   -> "EV_TIMEOUT"
           [] OTHER              -> "none"

\* mdm_state as the handler sees it: a uevent has updated it.
NewMdmState == IF Source = "uevent" /\ Event # "none" THEN Event ELSE mdm_state

On(evts, states) == abort = <<>> /\ Event \in evts /\ hstate \in states

Abort(why) == /\ abort' = <<"hal", why, hstate>>
              /\ UNCHANGED <<halVars, platform, ctrlQ, halQ>>

(***************************************************************************)
(* A handler returns.  The event is consumed, the notifications reach      *)
(* control (ASSERTed sends) and state_trans stops what the state left had  *)
(* started: the timer, the ping thread or the RPC daemon.  arm tells that  *)
(* the handler has armed the timer, and mdm is the state of the modem      *)
(* after its command, if it gave one.                                      *)
(***************************************************************************)
Leaves(states, new) == hstate \in states /\ new \notin states
Timed(new) == \E s \in {"STOPPING", "BOOTING", "WAITING_RPC"} : Leaves({s}, new)
StopsRpcd(new) == Leaves({"WAITING_RPC", "RUN"}, new)
TransFails(new, arm) == \/ arm /\ htimer
                        \/ Timed(new) /\ ~htimer /\ ~arm
                        \/ StopsRpcd(new) /\ ~rpcd_running
                        \/ Leaves({"PINGING"}, new) /\ new = "WAITING_RPC" /\ rpcd_running

Return(new, arm, stop, mdm, evts) ==
    IF ~Fits(ctrlQ, evts) THEN Abort("control queue full")
    ELSE IF TransFails(new, arm) THEN Abort("state_trans")
    ELSE /\ hstate' = new
         /\ mdm_state' = NewMdmState
         /\ stopping' = stop
         /\ htimer' = ((htimer \/ arm) /\ ~Timed(new))
         /\ ping' = (CASE new = "PINGING" /\ hstate # "PINGING" -> "running"
                       [] Source = "ping" \/ Leaves({"PINGING"}, new) -> "none"
                       [] OTHER -> ping)
         /\ rpcd_running' = (IF hstate = "PINGING" /\ new = "WAITING_RPC" THEN TRUE
                             ELSE rpcd_running /\ ~StopsRpcd(new))
         /\ rpcd' = (IF hstate = "PINGING" /\ new = "WAITING_RPC"
                     THEN IF rpcd = "killed" THEN "restarting" ELSE "starting"
                     ELSE IF StopsRpcd(new) /\ rpcd # "stopped" THEN "killed"
                     ELSE rpcd)
         /\ modem' = mdm
         /\ faults' = (IF Source = "timer" THEN faults + 1 ELSE faults)
         /\ uevents' = (IF Source = "uevent" THEN uevents - 1 ELSE uevents)
         /\ rpcQ' = (IF Source = "rpc" THEN <<>> ELSE rpcQ)
         /\ halQ' = (IF Source = "request" THEN Tail(halQ) ELSE halQ)
         /\ ctrlQ' = ctrlQ \o evts
         /\ UNCHANGED abort

\* A handler that neither arms the timer nor commands the modem.
Notify(new, evts) == Return(new, FALSE, stopping, modem, evts)

-----------------------------------------------------------------------------
BUSY_FLASH == <<"EV_HAL_MDM_BUSY", "EV_HAL_MDM_FLASH">>
BUSY_OFF   == <<"EV_HAL_MDM_BUSY", "EV_HAL_MDM_OFF">>
BUSY_RESET == <<"EV_HAL_MDM_BUSY", "EV_HAL_MDM_NEED_RESET">>

\* The commands: a modem that is off ignores a stop, one that is on a start.
Stopped == IF modem = "off" THEN modem ELSE "shutting_down"
Started == IF modem \in {"off", "verify-fail"} THEN "turning_on" ELSE modem

notify_flash == /\ On({"EV_POWER", "EV_RESET"}, {"OFF"})
                /\ Notify("OFF", BUSY_FLASH)

notify_off == On({"EV_STOP"}, {"OFF"}) /\ Notify("OFF", BUSY_OFF)

notify_off_only == /\ On({"EV_MDM_OFF"}, {"INITIAL"})
                   /\ Notify("OFF", <<"EV_HAL_MDM_OFF">>)

notify_off_or_flash ==
    /\ On({"EV_MDM_OFF"}, {"STOPPING"})
    /\ Return("OFF", FALSE, FALSE, modem, IF stopping THEN BUSY_OFF ELSE BUSY_FLASH)

\* notify_need_reset()
NeedReset(mdm) ==
    Return(IF NewMdmState = "EV_MDM_OFF" THEN "OFF" ELSE "NEED_RESETTING",
           FALSE, stopping, mdm, BUSY_RESET)

self_reset ==
    /\ On({"EV_MDM_OFF"}, {"BOOTING", "PINGING", "WAITING_RPC", "RUN"})
    /\ NeedReset(Stopped)

notify_trap_evt ==
    /\ On({"EV_MDM_TRAP"}, {"OFF", "BOOTING", "PINGING", "WAITING_RPC", "RUN",
                            "STOPPING", "NEED_RESETTING"})
    /\ IF DumpEnabled
       THEN Notify("NEED_RESETTING", <<"EV_HAL_MDM_BUSY", "EV_HAL_MDM_DUMP">>)
       ELSE NeedReset(modem)

notify_fw_failure ==
    /\ On({"EV_MDM_FW_FAIL"}, {"BOOTING"})
    /\ Notify("OFF", <<"EV_HAL_MDM_BUSY", "EV_HAL_MDM_UNRESPONSIVE">>)

\* Mutant: control is not told.
notify_rpc_dead_Silent ==
    /\ On({"EV_RPC_DEAD"}, {"WAITING_RPC", "RUN"})
    /\ Len(rpcQ) = 1 /\ Notify("NEED_RESETTING", <<>>)

notify_rpc_dead == /\ On({"EV_RPC_DEAD"}, {"WAITING_RPC", "RUN"})
                   /\ Len(rpcQ) = 1 /\ NeedReset(modem)

notify_timeout == /\ On({"EV_TIMEOUT"}, {"BOOTING", "PINGING", "WAITING_RPC"})
                  /\ NeedReset(modem)

\* stop_mdm(), to stop (s) or to reset, when the command is written
stop_mdm(s) == IF mdm_state = "EV_MDM_OFF" THEN Notify("OFF", <<>>)
               ELSE Return("STOPPING", TRUE, s, Stopped, <<>>)

\* The FSM's failsafe after a command that failed: request_stop, tried once.
failsafe == \E written \in BOOLEAN :
              IF written \/ mdm_state = "EV_MDM_OFF" THEN stop_mdm(TRUE)
              ELSE Abort("state")

Command(A) == A \/ (May("sysfs") /\ failsafe)

request_stop == /\ On({"EV_STOP"}, {"RUN", "NEED_RESETTING"})
                /\ Command(stop_mdm(TRUE))

request_reset == /\ On({"EV_RESET"}, {"RUN", "NEED_RESETTING"})
                 /\ Command(stop_mdm(FALSE))

request_boot == /\ On({"EV_BOOT"}, {"OFF"})
                /\ Command(Return("BOOTING", TRUE, stopping, Started, <<>>))

start_ping == /\ On({"EV_MDM_ON"}, {"INITIAL", "BOOTING"})
              /\ Notify("PINGING", <<>>)

start_rpcd == /\ On({"EV_MDM_RUN"}, {"PINGING"})
              /\ Return("WAITING_RPC", TRUE, stopping, modem, <<>>)

notify_run == /\ On({"EV_RPC_RUN"}, {"WAITING_RPC"})
              /\ Len(rpcQ) = 1 /\ Notify("RUN", <<"EV_HAL_MDM_RUN">>)

\* NULL entries, and a uevent read while the modem is between two states.
ignore == \/ /\ On({"EV_RPC_DEAD"}, {"OFF", "BOOTING", "PINGING", "STOPPING",
                                     "NEED_RESETTING"})
             /\ Len(rpcQ) = 1 /\ Notify(hstate, <<>>)
          \/ /\ abort = <<>> /\ Source = "uevent" /\ Event = "none"
             /\ Notify(hstate, <<>>)

(***************************************************************************)
(* reject(), assert(), modem_on() and the ASSERT of crm_hal_rpcd_event on  *)
(* two events read at once.                                                *)
(***************************************************************************)
Unsupported(e) ==
    \/ e \in {"EV_POWER", "EV_BOOT"} /\ hstate # "OFF"
    \/ e \in {"EV_STOP", "EV_RESET"} /\ hstate \notin {"OFF", "RUN", "NEED_RESETTING"}
    \/ e = "EV_BACKUP"
    \/ e = "EV_MDM_OFF" /\ hstate \in {"OFF", "NEED_RESETTING"}
    \/ e = "EV_MDM_ON" /\ hstate \notin {"INITIAL", "BOOTING"}
    \/ e = "EV_MDM_FW_FAIL" /\ hstate # "BOOTING"
    \/ e = "EV_MDM_RUN" /\ hstate # "PINGING"
    \/ e = "EV_TIMEOUT" /\ hstate \notin {"BOOTING", "PINGING", "WAITING_RPC"}
    \/ e = "EV_RPC_RUN" /\ hstate # "WAITING_RPC"
    \/ Source = "rpc" /\ Len(rpcQ) > 1

not_supported == abort = <<>> /\ Unsupported(Event) /\ Abort(Event)

Handle == \/ notify_flash \/ notify_off \/ notify_off_only
          \/ notify_off_or_flash \/ self_reset \/ notify_trap_evt
          \/ notify_fw_failure \/ notify_rpc_dead \/ notify_timeout
          \/ request_stop \/ request_reset \/ request_boot \/ start_ping
          \/ start_rpcd \/ notify_run \/ ignore \/ not_supported

-----------------------------------------------------------------------------
(***************************************************************************)
(* The ping thread.  It runs until the modem answers or its time is out.   *)
(***************************************************************************)
PingEnds(evt) ==
    /\ abort = <<>> /\ ping = "running"
    /\ evt = "EV_MDM_RUN" => modem = "on"
    /\ IF evt = "EV_TIMEOUT" /\ modem = "on" THEN Fault("mute")
       ELSE UNCHANGED faults
    /\ ping' = evt
    /\ UNCHANGED <<hstate, mdm_state, stopping, htimer, rpcd_running, rpcQ, rpcd,
                   modem, uevents, ctrlQ, halQ, abort>>

\* The modem VM settles in another state and raises a uevent.
ModemSettles(from, to) ==
    /\ abort = <<>> /\ modem = from /\ uevents < MaxUevents
    /\ modem' = to /\ uevents' = uevents + 1
    /\ UNCHANGED <<halVars, rpcQ, rpcd, ctrlQ, halQ, abort>>

\* The modem takes longer to boot than a stopped RPC daemon to end.
ModemStarts  == /\ IF rpcd = "killed" \/ rpcQ # <<>> THEN Fault("late")
                   ELSE UNCHANGED faults
                /\ ModemSettles("turning_on", "on")
ModemStops   == ModemSettles("shutting_down", "off") /\ UNCHANGED faults
ModemRefuses == Fault("verify-fail") /\ ModemSettles("turning_on", "verify-fail")
ModemTraps   == Fault("trap") /\ ModemSettles("on", "trap")
ModemDies    == Fault("off") /\ ModemSettles("on", "off")

\* The RPC daemon creates the files the HAL watches.
RpcdChanges(from, to, evt) ==
    /\ abort = <<>> /\ rpcd = from /\ Len(rpcQ) < MaxRpc
    /\ rpcd' = to /\ rpcQ' = Append(rpcQ, evt)
    /\ UNCHANGED <<halVars, modem, uevents, ctrlQ, halQ, abort>>

RpcdStarts == RpcdChanges("starting", "up", "EV_RPC_RUN") /\ UNCHANGED faults
RpcdDies   == Fault("rpc") /\ RpcdChanges("up", "stopped", "EV_RPC_DEAD")
RpcdEnds   == /\ \/ RpcdChanges("killed", "stopped", "EV_RPC_DEAD")
                 \/ RpcdChanges("restarting", "starting", "EV_RPC_DEAD")
              /\ UNCHANGED faults

Platform == \/ PingEnds("EV_MDM_RUN") \/ PingEnds("EV_TIMEOUT")
            \/ ModemStarts \/ ModemStops \/ ModemRefuses \/ ModemTraps
            \/ ModemDies \/ RpcdStarts \/ RpcdDies \/ RpcdEnds
=============================================================================
