------------------------------ MODULE Control ------------------------------
(***************************************************************************)
(* The control thread: it takes one event at a time off its queue and runs *)
(* the entry of its state/event table, which moves messages to the client  *)
(* abstraction (CLA) and to the HAL and calls the plugins.                 *)
(*                                                                         *)
(* Every handler is one action.  A handler that calls another one passes   *)
(* it the context as modified so far (c) and the messages already sent to  *)
(* CLA (m).  A failing ASSERT ends the whole process: abort says which.    *)
(***************************************************************************)
EXTENDS Ipc

CONSTANTS WarmReset, ColdReset, Reboot, Stored   \* the escalation's

VARIABLES
    cstate,  \* state of the FSM
    ctl,     \* the fields of crm_control_ctx_internal_t, see CtlType
    cfg_idx, counter, reboot_counter, expired, escalation_disabled, step,
    fw_path, flasher, flashed,
    tlv_pending, applier, applied,
    dumper, dumped,
    ctrlQ,   \* events to control
    claQ,    \* messages to CLA
    halQ,    \* requests to the HAL
    abort    \* <<>>, or the ASSERT that ended the process

Esc    == INSTANCE Escalation
Upload == INSTANCE FwUpload
Custo  == INSTANCE Customization
Dmp    == INSTANCE Dump

escVars    == <<cfg_idx, counter, reboot_counter, expired,
                escalation_disabled, step>>
uploadVars == <<fw_path, flasher, flashed>>
custoVars  == <<tlv_pending, applier, applied>>
dumpVars   == <<dumper, dumped>>
queues     == <<ctrlQ, claQ, halQ>>
vars       == <<cstate, ctl, escVars, uploadVars, custoVars, dumpVars, queues,
                abort>>

States == {"INITIAL", "DOWN", "PACKAGING", "FLASHING", "CUSTOMIZING", "UP",
           "WAITING", "DUMPING"}

CtlType ==
    [client_request : {"NONE", "RESET", "STOP", "START"},
     fw_ready : BOOLEAN,
     hal_evt : BOOLEAN,                  \* a FLASH event is kept
     waiting_hal_busy_reason : BOOLEAN,
     flash_done : BOOLEAN,
     run_ipc : BOOLEAN,
     is_mdm_oos : BOOLEAN,
     do_not_report : BOOLEAN,
     reset_initiated_by_cla : BOOLEAN,
     evt : {"none", "dbg", "flash"},     \* debug information kept; "flash" is
                                         \* a FLASH event taken for one
     timer_armed : BOOLEAN]

Cleared ==
    [client_request |-> "NONE", fw_ready |-> FALSE, hal_evt |-> FALSE,
     waiting_hal_busy_reason |-> FALSE, flash_done |-> FALSE,
     run_ipc |-> FALSE, is_mdm_oos |-> FALSE, do_not_report |-> FALSE,
     reset_initiated_by_cla |-> FALSE, evt |-> "none", timer_armed |-> FALSE]

Init == /\ cstate = "INITIAL" /\ ctl = Cleared
        /\ Esc!EscInit /\ Upload!Init /\ Custo!Init /\ Dmp!Init
        /\ ctrlQ = <<>> /\ claQ = <<>> /\ halQ = <<>> /\ abort = <<>>

-----------------------------------------------------------------------------
\* The state/event table, one column per state.
Columns == [INITIAL |-> 1, DOWN |-> 2, PACKAGING |-> 3, FLASHING |-> 4,
            CUSTOMIZING |-> 5, UP |-> 6, WAITING |-> 7, DUMPING |-> 8]

g_fsm_array ==
  [EV_CLI_START |->
     <<"assert", "request_start", "assert", "assert", "assert", "assert",
       "assert", "assert">>,
   EV_CLI_STOP |->
     <<"assert", "assert", "assert", "assert", "assert", "request_stop",
       "request_stop", "accept_stop">>,
   EV_CLI_RESET |->
     <<"assert", "request_start", "assert", "assert", "assert",
       "request_reset_timer", "request_reset", "accept_reset">>,
   EV_CLI_UPDATE |->
     <<"assert", "request_start", "assert", "assert", "assert",
       "request_update", "request_update", "accept_reset">>,
   EV_CLI_NVM_BACKUP |->
     <<"assert", "assert", "assert", "assert", "assert", "request_backup",
       "assert", "NULL">>,
   EV_HAL_MDM_OFF |->
     <<"notify_off", "NULL", "escalation", "todo", "todo", "todo",
       "notify_off", "assert">>,
   EV_HAL_MDM_RUN |->
     <<"run_evt_initial", "mdm_stop", "escalation", "run_evt", "todo",
       "assert", "escalation", "assert">>,
   EV_HAL_MDM_BUSY |->
     <<"assert", "NULL", "notify_busy", "NULL", "NULL", "notify_busy", "NULL",
       "dump_error">>,
   EV_HAL_MDM_NEED_RESET |->
     <<"assert", "todo", "escalation", "escalation", "escalation", "assert",
       "requested_operation", "assert">>,
   EV_HAL_MDM_FLASH |->
     <<"assert", "todo", "flash_evt", "assert", "todo", "assert",
       "requested_operation", "assert">>,
   EV_HAL_MDM_DUMP |->
     <<"assert", "dump_start", "dump_start", "dump_start", "dump_start",
       "assert", "dump_start", "assert">>,
   EV_HAL_MDM_UNRESPONSIVE |->
     <<"assert", "assert", "notify_unresp", "fw_flash_failure", "assert",
       "assert", "notify_unresp", "assert">>,
   EV_NVM_SUCCESS |->
     <<"assert", "todo", "todo", "todo", "todo", "todo", "todo", "assert">>,
   EV_FW_SUCCESS |->
     <<"assert", "todo", "fw_ready_evt", "flash_success_evt",
       "reset_after_tlv", "todo", "todo", "assert">>,
   EV_DUMP_SUCCESS |->
     <<"assert", "todo", "todo", "todo", "todo", "todo", "todo", "dump_end">>,
   EV_FAILURE |->
     <<"assert", "failsafe", "pack_failure", "flash_failure", "custo_failure",
       "failsafe", "failsafe", "requested_operation">>,
   EV_TIMEOUT |->
     <<"assert", "assert", "assert", "assert", "assert", "escalation",
       "assert", "assert">>]

(***************************************************************************)
(* The event being handled: the head of the queue, or the expiry of the    *)
(* timer, which poll reports only when the queue is empty.  A RESET with   *)
(* debug information travels as EV_CLI_RESET_DBG.                          *)
(***************************************************************************)
Message == IF ctrlQ = <<>> THEN "EV_TIMEOUT" ELSE Head(ctrlQ)
Event   == IF Message = "EV_CLI_RESET_DBG" THEN "EV_CLI_RESET" ELSE Message
Rest    == IF ctrlQ = <<>> THEN <<>> ELSE Tail(ctrlQ)
Ready   == abort = <<>> /\ (ctrlQ # <<>> \/ ctl.timer_armed)

\* The event's payload is debug information: what store_dbg_info finds.
Payload == CASE Message \in {"EV_CLI_RESET_DBG", "EV_HAL_MDM_NEED_RESET",
                             "EV_HAL_MDM_UNRESPONSIVE"} -> "dbg"
             [] Message = "EV_HAL_MDM_FLASH"            -> "flash"
             [] OTHER                                   -> "none"

Operation == g_fsm_array[Event][Columns[cstate]]

\* pre_op: BUSY announces a reason, and a reason has been announced.
BusyReasons == {"EV_HAL_MDM_NEED_RESET", "EV_HAL_MDM_FLASH",
                "EV_HAL_MDM_DUMP", "EV_HAL_MDM_UNRESPONSIVE"}
PreOpFails == Event \in BusyReasons /\ ~ctl.waiting_hal_busy_reason
pre_op == [ctl EXCEPT !.waiting_hal_busy_reason =
             Event = "EV_HAL_MDM_BUSY" \/ (@ /\ Event \notin BusyReasons)]

\* The table's entry for the event is op, and pre_op has run.
On(op) == Ready /\ ~PreOpFails /\ Operation = op

-----------------------------------------------------------------------------
Abort(why) == /\ abort' = <<"control", why, cstate>>
              /\ UNCHANGED <<cstate, ctl, queues>>

(***************************************************************************)
(* A handler returns: the new state (with state_trans: the reset timer is  *)
(* disarmed when UP is left), the context, and the messages sent to CLA    *)
(* (ASSERTed), to the HAL and to control itself.                           *)
(***************************************************************************)
Return(new, c, cla, hal, self) ==
    IF Fits(claQ, cla)
    THEN /\ cstate' = new
         /\ ctl' = [c EXCEPT !.timer_armed =
                      @ /\ (cstate # "UP" \/ new = "UP")]
         /\ claQ' = claQ \o cla
         /\ halQ' = Send(halQ, hal)
         /\ ctrlQ' = Send(Rest, self)
         /\ UNCHANGED abort
    ELSE /\ abort' = <<"cla", "queue", "full">>
         /\ UNCHANGED <<cstate, ctl, queues>>

\* notify_op_result_if_needed
Answered(c) == [c EXCEPT !.client_request = "NONE"]
Result(c, status) == IF c.client_request = "NONE" THEN <<>> ELSE <<status>>

\* store_dbg_info, for the payload of the event
store_dbg_info(c, overwrite) ==
    IF Payload # "none" /\ (overwrite \/ c.evt = "none")
    THEN [c EXCEPT !.evt = Payload] ELSE c

\* notify_dbg_info: nothing to report is an ASSERT, unless CLA asked.
DbgInfoFails(c) == ~c.do_not_report /\ c.evt = "none" /\ ~c.reset_initiated_by_cla
DbgInfo(c) == IF c.do_not_report THEN <<>> ELSE <<"DBG_INFO">>
Reported(c) == [c EXCEPT !.do_not_report = FALSE,
                         !.reset_initiated_by_cla = FALSE, !.evt = "none"]

(***************************************************************************)
(* The recoveries.  package() may answer from within the call.             *)
(***************************************************************************)
mdm_restart(c, m, report, request) ==
    IF report /\ DbgInfoFails(c)
    THEN Abort("no debug information") /\ UNCHANGED uploadVars
    ELSE IF Upload!PackageFails
    THEN Abort("package") /\ UNCHANGED uploadVars
    ELSE /\ Upload!package
         /\ Return("PACKAGING", Reported(c),
                   m \o (IF report THEN DbgInfo(c) ELSE <<>>), <<request>>,
                   Upload!PackageReport)

set_oos(c) ==
    IF c.is_mdm_oos THEN Abort("already out of service")
    ELSE IF DbgInfoFails(c) THEN Abort("no debug information")
    ELSE Return("DOWN", [Answered(Reported(c)) EXCEPT !.is_mdm_oos = TRUE],
                DbgInfo(c) \o <<"UNRESP">> \o Result(c, "FAILURE"), <<>>, <<>>)

\* The loop repeats the request for a reboot until one fails; here control goes
\* on at once, and the platform reboots at any time.
platform_reboot(c) ==
    IF DbgInfoFails(c) THEN Abort("no debug information")
    ELSE Return("DOWN", [Answered(Reported(c)) EXCEPT !.is_mdm_oos = TRUE],
                DbgInfo(c) \o <<"DBG_INFO", "PLATFORM_REBOOT">>
                           \o Result(c, "FAILURE"), <<>>, <<>>)

\* escalation(), for a context that already holds the debug information.
Escalate(c) ==
    /\ Esc!get_next_step
    /\ \/ step' = Esc!IDX_WARM /\ Abort("warm reset") /\ UNCHANGED uploadVars
       \/ step' = Esc!IDX_COLD /\ mdm_restart(c, <<>>, TRUE, "EV_RESET")
       \/ step' = Esc!IDX_REBOOT /\ platform_reboot(c) /\ UNCHANGED uploadVars
       \/ step' = Esc!IDX_OOS /\ set_oos(c) /\ UNCHANGED uploadVars

\* mdm_stop(), and request_stop() once the request has been noted.
Stop(c) == Return("WAITING", c, <<>>, <<"EV_STOP">>, <<>>)
StopOrWait(c) == IF c.waiting_hal_busy_reason
                 THEN Return(cstate, c, <<>>, <<>>, <<>>) ELSE Stop(c)

(***************************************************************************)
(* requested_operation() carries out what the client asked for.            *)
(***************************************************************************)
RequestedOperation(c) ==
    \/ /\ c.client_request = "NONE"
       /\ Return("WAITING", c, <<>>, <<>>, <<>>) /\ UNCHANGED <<escVars, uploadVars>>
    \/ c.client_request \in {"RESET", "START"} /\ Escalate(c)
    \/ /\ c.client_request = "STOP"
       /\ Stop(c) /\ UNCHANGED <<escVars, uploadVars>>

\* failsafe(): answer, clear crm_ctrl_state_t, stop the modem.
Failsafe(c, m) ==
    Return("WAITING",
           [c EXCEPT !.client_request = "STOP", !.fw_ready = FALSE,
                     !.hal_evt = FALSE, !.waiting_hal_busy_reason = FALSE,
                     !.flash_done = FALSE, !.run_ipc = FALSE],
           m \o Result(c, "FAILURE"), <<"EV_STOP">>, <<>>)

\* Mutants: the modem boots while it is flashed; the rendezvous is kept.
mdm_flash_Boots(c) ==
    IF ~(c.hal_evt /\ c.fw_ready)
    THEN Return(cstate, c, <<>>, <<>>, <<>>) /\ UNCHANGED uploadVars
    ELSE /\ Upload!flash
         /\ Return("FLASHING", [c EXCEPT !.hal_evt = FALSE, !.fw_ready = FALSE],
                   <<>>, <<"EV_BOOT">>, <<>>)

mdm_flash_Keeps(c) ==
    IF ~(c.hal_evt /\ c.fw_ready)
    THEN Return(cstate, c, <<>>, <<>>, <<>>) /\ UNCHANGED uploadVars
    ELSE Upload!flash /\ Return("FLASHING", c, <<>>, <<>>, <<>>)

(***************************************************************************)
(* mdm_flash(): flash once the HAL and the firmware are both ready.        *)
(***************************************************************************)
mdm_flash(c) ==
    IF ~(c.hal_evt /\ c.fw_ready)
    THEN Return(cstate, c, <<>>, <<>>, <<>>) /\ UNCHANGED uploadVars
    ELSE IF Upload!FlashFails THEN Abort("flash") /\ UNCHANGED uploadVars
    ELSE /\ Upload!flash
         /\ Return("FLASHING", [c EXCEPT !.hal_evt = FALSE, !.fw_ready = FALSE],
                   <<>>, <<>>, <<>>)

\* Mutants: the request stays in progress; the state precedes the result.
mdm_cfg_Unanswered(c, hal) ==
    /\ IF c.flash_done /\ c.run_ipc
       THEN Return("UP", [c EXCEPT !.flash_done = FALSE, !.run_ipc = FALSE],
                   Result(c, "SUCCESS") \o <<"READY">>, hal, <<>>)
       ELSE Return(cstate, c, <<>>, hal, <<>>)
    /\ UNCHANGED custoVars

mdm_cfg_Swapped(c, hal) ==
    /\ IF c.flash_done /\ c.run_ipc
       THEN Return("UP", Answered([c EXCEPT !.flash_done = FALSE, !.run_ipc = FALSE]),
                   <<"READY">> \o Result(c, "SUCCESS"), hal, <<>>)
       ELSE Return(cstate, c, <<>>, hal, <<>>)
    /\ UNCHANGED custoVars

(***************************************************************************)
(* mdm_cfg(): once the modem is flashed and runs, it is customized or up.  *)
(* get_tlv_list() of the elector, when it has hashes to compare, asserts   *)
(* that a firmware path is known: none is before the first packaging.      *)
(***************************************************************************)
mdm_cfg(c, hal) ==
    LET d == [c EXCEPT !.flash_done = FALSE, !.run_ipc = FALSE]
    IN  IF ~(c.flash_done /\ c.run_ipc)
        THEN Return(cstate, c, <<>>, hal, <<>>) /\ UNCHANGED custoVars
        ELSE IF ~tlv_pending
        THEN /\ Return("UP", Answered(d), Result(d, "SUCCESS") \o <<"READY">>,
                       hal, <<>>)
             /\ UNCHANGED custoVars
        ELSE IF cstate = "INITIAL" THEN Abort("firmware path") /\ UNCHANGED custoVars
        ELSE IF Custo!SendFails THEN Abort("send") /\ UNCHANGED custoVars
        ELSE Custo!send /\ Return("CUSTOMIZING", d, <<>>, hal, <<>>)

-----------------------------------------------------------------------------
\* The handlers of the client's requests ASSERT that none is in progress.
Requesting(r, A(_)) ==
    IF ctl.client_request = "NONE" THEN A([pre_op EXCEPT !.client_request = r])
    ELSE Abort("request in progress") /\ UNCHANGED <<escVars, uploadVars>>

request_start ==
    LET Start(c) ==
            /\ UNCHANGED escVars
            /\ IF c.is_mdm_oos
               THEN /\ Return(cstate, Answered(c), Result(c, "FAILURE"), <<>>, <<>>)
                    /\ UNCHANGED uploadVars
               ELSE IF Upload!PackageFails
               THEN Abort("package") /\ UNCHANGED uploadVars
               ELSE /\ Upload!package
                    /\ Return("PACKAGING", c, <<>>, <<"EV_POWER">>,
                              Upload!PackageReport)
    IN  /\ On("request_start") /\ Requesting("START", Start)
        /\ UNCHANGED <<custoVars, dumpVars>>

request_stop ==
    LET StopRequest(c) == StopOrWait(c) /\ UNCHANGED <<escVars, uploadVars>>
    IN  /\ On("request_stop") /\ Requesting("STOP", StopRequest)
        /\ UNCHANGED <<custoVars, dumpVars>>

request_reset ==
    LET Reset(c) == LET d == store_dbg_info(c, FALSE)
                    IN  IF d.waiting_hal_busy_reason
                        THEN /\ Return(cstate, d, <<>>, <<>>, <<>>)
                             /\ UNCHANGED <<escVars, uploadVars>>
                        ELSE Escalate(d)
    IN  /\ On("request_reset") /\ Requesting("RESET", Reset)
        /\ UNCHANGED <<custoVars, dumpVars>>

request_reset_timer ==
    LET Delay(c) == /\ IF c.timer_armed THEN Abort("timer armed")
                       ELSE Return(cstate, [store_dbg_info(c, FALSE) EXCEPT
                                              !.reset_initiated_by_cla = TRUE,
                                              !.timer_armed = TRUE],
                                   <<>>, <<>>, <<>>)
                    /\ UNCHANGED <<escVars, uploadVars>>
    IN  /\ On("request_reset_timer") /\ Requesting("RESET", Delay)
        /\ UNCHANGED <<custoVars, dumpVars>>

request_update ==
    LET Update(c) == LET d == [c EXCEPT !.do_not_report = TRUE]
                     IN  /\ UNCHANGED escVars
                         /\ IF d.waiting_hal_busy_reason
                            THEN /\ Return(cstate, d, <<>>, <<>>, <<>>)
                                 /\ UNCHANGED uploadVars
                            ELSE mdm_restart(d, <<>>, FALSE, "EV_RESET")
    IN  /\ On("request_update") /\ Requesting("RESET", Update)
        /\ UNCHANGED <<custoVars, dumpVars>>

request_backup ==
    LET Backup(c) == mdm_restart(c, <<>>, FALSE, "EV_BACKUP") /\ UNCHANGED escVars
    IN  /\ On("request_backup") /\ Requesting("RESET", Backup)
        /\ UNCHANGED <<custoVars, dumpVars>>

\* Mutant: the request is forgotten.
accept_Forgets(op, r) ==
    /\ On(op) /\ ctl.client_request # r
    /\ Return(cstate, pre_op, <<>>, <<>>, <<>>)
    /\ UNCHANGED <<escVars, uploadVars, custoVars, dumpVars>>

\* accept_stop() and accept_reset(): the request waits for the end of the dump.
accept(op, r) ==
    LET Accept(c) == /\ Return(cstate, c, <<>>, <<>>, <<>>)
                     /\ UNCHANGED <<escVars, uploadVars>>
    IN  /\ On(op) /\ Requesting(r, Accept)
        /\ UNCHANGED <<custoVars, dumpVars>>

-----------------------------------------------------------------------------
\* The handlers of the events of the HAL and of the plugins.
\* Mutant: the request stays in progress.
notify_off_Unanswered ==
    /\ On("notify_off")
    /\ Return("DOWN", pre_op, Result(pre_op, "SUCCESS") \o <<"OFF">>, <<>>, <<>>)
    /\ UNCHANGED <<escVars, uploadVars, custoVars, dumpVars>>

notify_off == /\ On("notify_off")
              /\ Return("DOWN", Answered(pre_op),
                        Result(pre_op, "SUCCESS") \o <<"OFF">>, <<>>, <<>>)
              /\ UNCHANGED <<escVars, uploadVars, custoVars, dumpVars>>

\* The table forces the state WAITING when the modem is up.
notify_busy == /\ On("notify_busy")
               /\ Return(IF cstate = "UP" THEN "WAITING" ELSE cstate, pre_op,
                         <<"BUSY">>, <<>>, <<>>)
               /\ UNCHANGED <<escVars, uploadVars, custoVars, dumpVars>>

mdm_stop == /\ On("mdm_stop") /\ Stop(pre_op)
            /\ UNCHANGED <<escVars, uploadVars, custoVars, dumpVars>>

escalation == /\ On("escalation") /\ Escalate(store_dbg_info(pre_op, TRUE))
              /\ UNCHANGED <<custoVars, dumpVars>>

requested_operation ==
    /\ On("requested_operation")
    /\ RequestedOperation(store_dbg_info(pre_op, TRUE))
    /\ UNCHANGED <<custoVars, dumpVars>>

notify_unresp ==
    LET c == store_dbg_info(pre_op, TRUE)
    IN  /\ On("notify_unresp") /\ Esc!get_last_step
        /\ IF step' = Esc!IDX_REBOOT THEN platform_reboot(c) ELSE set_oos(c)
        /\ UNCHANGED <<uploadVars, custoVars, dumpVars>>

fw_flash_failure ==
    /\ On("fw_flash_failure") /\ set_oos(store_dbg_info(pre_op, TRUE))
    /\ UNCHANGED <<escVars, uploadVars, custoVars, dumpVars>>

flash_evt ==
    /\ On("flash_evt")
    /\ IF ctl.hal_evt
       THEN Abort("flash event kept") /\ UNCHANGED uploadVars
       ELSE mdm_flash([pre_op EXCEPT !.hal_evt = TRUE])
    /\ UNCHANGED <<escVars, custoVars, dumpVars>>

fw_ready_evt == /\ On("fw_ready_evt")
                /\ mdm_flash([pre_op EXCEPT !.fw_ready = TRUE])
                /\ UNCHANGED <<escVars, custoVars, dumpVars>>

run_evt == /\ On("run_evt") /\ mdm_cfg([pre_op EXCEPT !.run_ipc = TRUE], <<>>)
           /\ UNCHANGED <<escVars, uploadVars, dumpVars>>

run_evt_initial ==
    /\ On("run_evt_initial")
    /\ mdm_cfg([pre_op EXCEPT !.run_ipc = TRUE, !.flash_done = TRUE], <<>>)
    /\ UNCHANGED <<escVars, uploadVars, dumpVars>>

flash_success_evt ==
    /\ On("flash_success_evt")
    /\ mdm_cfg([pre_op EXCEPT !.flash_done = TRUE],
               IF ctl.run_ipc THEN <<>> ELSE <<"EV_BOOT">>)
    /\ UNCHANGED <<escVars, uploadVars, dumpVars>>

reset_after_tlv ==
    /\ On("reset_after_tlv") /\ Custo!notify_tlv_applied
    /\ mdm_restart(pre_op, <<"DBG_INFO">>, FALSE, "EV_RESET")
    /\ UNCHANGED <<escVars, dumpVars>>

\* pack_failure() and flash_failure() end in the FSM's failsafe.
upload_failure ==
    /\ On("pack_failure") \/ On("flash_failure")
    /\ Failsafe(pre_op, <<>>)
    /\ UNCHANGED <<escVars, uploadVars, custoVars, dumpVars>>

custo_failure == /\ On("custo_failure") /\ Failsafe(pre_op, <<"DBG_INFO">>)
                 /\ UNCHANGED <<escVars, uploadVars, custoVars, dumpVars>>

failsafe == /\ On("failsafe") /\ Failsafe(pre_op, <<>>)
            /\ UNCHANGED <<escVars, uploadVars, custoVars, dumpVars>>

dump_start ==
    /\ On("dump_start")
    /\ IF Dmp!ReadFails THEN Abort("dump") /\ UNCHANGED dumpVars
       ELSE /\ Dmp!read_dump
            /\ Return("DUMPING", [pre_op EXCEPT !.do_not_report = TRUE],
                      <<"DBG_INFO">>, <<>>, <<>>)
    /\ UNCHANGED <<escVars, uploadVars, custoVars>>

dump_end == /\ On("dump_end") /\ RequestedOperation(pre_op)
            /\ UNCHANGED <<custoVars, dumpVars>>

\* dump_error() stops the dump, which the SoFIA plugin ASSERTs not to do.
dump_error == /\ On("dump_error") /\ Abort("dump interrupted")
              /\ UNCHANGED <<escVars, uploadVars, custoVars, dumpVars>>

\* A NULL entry: only pre_op has run.
ignore == /\ On("NULL") /\ Return(cstate, pre_op, <<>>, <<>>, <<>>)
          /\ UNCHANGED <<escVars, uploadVars, custoVars, dumpVars>>

\* assert(), todo() and the ASSERT of pre_op.
NotSupported == PreOpFails \/ Operation \in {"assert", "todo"}
not_supported == /\ Ready /\ NotSupported /\ Abort(Event)
                 /\ UNCHANGED <<escVars, uploadVars, custoVars, dumpVars>>

\* The watchdog runs outside UP and DOWN, and ends the process.
WatchdogExpires ==
    /\ abort = <<>> /\ cstate \notin {"UP", "DOWN"} /\ Abort("watchdog")
    /\ UNCHANGED <<escVars, uploadVars, custoVars, dumpVars>>

Handle == \/ request_start \/ request_stop \/ request_reset
          \/ request_reset_timer \/ request_update \/ request_backup
          \/ accept("accept_stop", "STOP") \/ accept("accept_reset", "RESET")
          \/ notify_off \/ notify_busy \/ mdm_stop \/ escalation
          \/ requested_operation \/ notify_unresp \/ fw_flash_failure
          \/ flash_evt \/ fw_ready_evt \/ run_evt \/ run_evt_initial
          \/ flash_success_evt \/ reset_after_tlv \/ upload_failure
          \/ custo_failure \/ failsafe \/ dump_start \/ dump_end
          \/ dump_error \/ ignore \/ not_supported
=============================================================================
