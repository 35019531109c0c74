--------------------------- MODULE ControlProofs ---------------------------
(***************************************************************************)
(* What control keeps in an arbitrary environment, for every configuration *)
(* of the escalation, every queue size and any number of events.           *)
(***************************************************************************)
EXTENDS ControlEnv, SequenceTheorems, TLAPS

\* What is proved of the control thread itself.
CtrlInv == /\ cstate \in States /\ ctl \in CtlType /\ ctrlQ \in Seq(Events)
           /\ TimerHasRequest /\ DownIsAnswered /\ RendezvousMet

\* The reports of the workers are events.
WorkInv == /\ flashed \in Seq(Events) /\ applied \in Seq(Events)
           /\ dumped \in Seq(Events)

\* A context a handler may work on: the timer runs in UP only.
Usable(c) == /\ c \in CtlType
             /\ c.timer_armed => cstate = "UP"
             /\ ~(c.hal_evt /\ c.fw_ready) /\ ~(c.flash_done /\ c.run_ipc)

\* A context a handler may leave state new with.
Sound(new, c) ==
    /\ new \in States /\ c \in CtlType
    /\ (c.timer_armed /\ (cstate # "UP" \/ new = "UP")) =>
          new = "UP" /\ c.client_request = "RESET"
    /\ new = "DOWN" => c.client_request = "NONE"
    /\ ~(c.hal_evt /\ c.fw_ready) /\ ~(c.flash_done /\ c.run_ipc)

-----------------------------------------------------------------------------
\* Sending events keeps a queue of events.
LEMMA SendType ==
    ASSUME NEW S, NEW q \in Seq(S), NEW ms \in Seq(S)
    PROVE  Send(q, ms) \in Seq(S)
BY QSizeAssumption DEF Send, Fits

\* The event being handled has a row in the table.
LEMMA EventType ==
    ASSUME ctrlQ \in Seq(Events)
    PROVE  /\ Event \in DOMAIN g_fsm_array
           /\ Rest \in Seq(Events)
<1>1. "EV_TIMEOUT" \in DOMAIN g_fsm_array /\ "EV_CLI_RESET" \in DOMAIN g_fsm_array
  BY DEF g_fsm_array
<1>2. Message \in Events
  BY <1>1 DEF Message, Events
<1>3. Event \in DOMAIN g_fsm_array
  BY <1>1, <1>2 DEF Event, Events
<1>4. Rest \in Seq(Events)
  BY DEF Rest
<1> QED BY <1>3, <1>4

\* Where the table has the handlers that keep their state or enter UP.
LEMMA Table ==
    ASSUME NEW s \in States, NEW e \in DOMAIN g_fsm_array, NEW op,
           op = g_fsm_array[e][Columns[s]]
    PROVE  /\ op = "request_reset_timer" => s = "UP"
           /\ op \in {"request_stop", "request_update"} => s \in {"UP", "WAITING"}
           /\ op = "request_reset" => s = "WAITING"
           /\ op \in {"accept_stop", "accept_reset"} => s = "DUMPING"
           /\ op \in {"run_evt", "flash_success_evt"} => s = "FLASHING"
           /\ op = "run_evt_initial" => s = "INITIAL"
BY DEF States, Columns, g_fsm_array

\* The contexts of a handler's first steps.
LEMMA PreOpType ==
    ASSUME CtrlInv
    PROVE  /\ Usable(pre_op)
           /\ pre_op.timer_armed = ctl.timer_armed
           /\ pre_op.client_request = ctl.client_request
           /\ pre_op.hal_evt = ctl.hal_evt /\ pre_op.fw_ready = ctl.fw_ready
           /\ pre_op.flash_done = ctl.flash_done /\ pre_op.run_ipc = ctl.run_ipc
BY DEF CtrlInv, Usable, pre_op, CtlType, TimerHasRequest, RendezvousMet

LEMMA StoreType ==
    ASSUME NEW c, Usable(c), NEW overwrite \in BOOLEAN,
           NEW d, d = store_dbg_info(c, overwrite)
    PROVE  /\ Usable(d)
           /\ d.timer_armed = c.timer_armed /\ d.client_request = c.client_request
           /\ d.waiting_hal_busy_reason = c.waiting_hal_busy_reason
<1>1. Payload \in {"none", "dbg", "flash"}
  BY DEF Payload
<1> QED BY <1>1 DEF store_dbg_info, Usable, CtlType

\* Leaving for a state other than UP and DOWN is sound, for DOWN if answered.
LEMMA Leaving ==
    ASSUME NEW c, Usable(c),
           NEW new \in {"PACKAGING", "WAITING", "DUMPING", "FLASHING", "CUSTOMIZING"}
    PROVE  Sound(new, c)
BY DEF Usable, Sound, States

LEMMA LeavingAnswered ==
    ASSUME NEW c, Usable(c), c.client_request = "NONE"
    PROVE  Sound("DOWN", c)
BY DEF Usable, Sound, States

\* A handler that returns soundly or aborts keeps the invariant.
LEMMA Returns ==
    ASSUME CtrlInv, NEW new, NEW c, Sound(new, c), NEW cla, NEW hal,
           NEW self \in Seq(Events), Return(new, c, cla, hal, self)
    PROVE  CtrlInv'
<1>1. CASE Fits(claQ, cla)
  <2>1. cstate' = new /\ ctrlQ' = Send(Rest, self)
    BY <1>1 DEF Return
  <2>2. ctl' = [c EXCEPT !.timer_armed = @ /\ (cstate # "UP" \/ new = "UP")]
    BY <1>1 DEF Return
  <2>3. ctrlQ' \in Seq(Events')
    BY <2>1, SendType, EventType DEF CtrlInv, Events, g_fsm_array
  <2>4. ctl' \in CtlType'
    BY <2>2 DEF Sound, CtlType
  <2>5. (TimerHasRequest /\ DownIsAnswered /\ RendezvousMet)'
    BY <2>1, <2>2 DEF Sound, CtlType, TimerHasRequest, DownIsAnswered, RendezvousMet
  <2> QED BY <2>1, <2>3, <2>4, <2>5 DEF CtrlInv, Sound, States
<1>2. CASE ~Fits(claQ, cla)
  BY <1>2 DEF Return, queues, CtrlInv, TimerHasRequest, DownIsAnswered,
              RendezvousMet, States, Events, g_fsm_array, CtlType
<1> QED BY <1>1, <1>2

LEMMA Aborts ==
    ASSUME CtrlInv, NEW why, Abort(why)
    PROVE  CtrlInv'
BY DEF Abort, queues, CtrlInv, TimerHasRequest, DownIsAnswered, RendezvousMet

-----------------------------------------------------------------------------
(***************************************************************************)
(* The steps the handlers share.                                           *)
(***************************************************************************)
LEMMA ReportedUsable ==
    ASSUME NEW c, Usable(c)
    PROVE  Usable(Reported(c)) /\ Usable(Answered(Reported(c)))
BY DEF Usable, Reported, Answered, CtlType

LEMMA PackageReportType == Upload!PackageReport \in Seq(Events)
<1>1. "EV_FW_SUCCESS" \in Events
  BY DEF Events, g_fsm_array
<1> QED BY <1>1 DEF Upload!PackageReport

LEMMA RestartKeeps ==
    ASSUME CtrlInv, NEW c, Usable(c), NEW m, NEW report \in BOOLEAN, NEW request,
           mdm_restart(c, m, report, request)
    PROVE  CtrlInv' /\ flashed' = flashed
<1>1. CASE report /\ DbgInfoFails(c)
  BY <1>1, Aborts DEF mdm_restart, uploadVars
<1>2. CASE ~(report /\ DbgInfoFails(c)) /\ Upload!PackageFails
  BY <1>2, Aborts DEF mdm_restart, uploadVars
<1>3. CASE ~(report /\ DbgInfoFails(c)) /\ ~Upload!PackageFails
  <2>1. Upload!package /\ Return("PACKAGING", Reported(c),
                   m \o (IF report THEN DbgInfo(c) ELSE <<>>), <<request>>,
                   Upload!PackageReport)
    BY <1>3 DEF mdm_restart
  <2>2. Sound("PACKAGING", Reported(c))
    BY ReportedUsable, Leaving
  <2>3. CtrlInv'
    BY <2>1, <2>2, PackageReportType, Returns
  <2> QED BY <2>1, <2>3 DEF Upload!package
<1> QED BY <1>1, <1>2, <1>3

LEMMA OosKeeps ==
    ASSUME CtrlInv, NEW c, Usable(c), set_oos(c)
    PROVE  CtrlInv'
<1> DEFINE d == [Answered(Reported(c)) EXCEPT !.is_mdm_oos = TRUE]
<1>1. Usable(d) /\ d.client_request = "NONE"
  BY DEF Usable, Reported, Answered, CtlType
<1>2. Sound("DOWN", d)
  BY <1>1, LeavingAnswered
<1>3. <<>> \in Seq(Events)
  OBVIOUS
<1>4. \/ \E why : Abort(why)
      \/ Return("DOWN", d, DbgInfo(c) \o <<"UNRESP">> \o Result(c, "FAILURE"),
                <<>>, <<>>)
  BY DEF set_oos
<1> QED BY <1>2, <1>3, <1>4, Aborts, Returns

LEMMA RebootKeeps ==
    ASSUME CtrlInv, NEW c, Usable(c), platform_reboot(c)
    PROVE  CtrlInv'
<1> DEFINE d == [Answered(Reported(c)) EXCEPT !.is_mdm_oos = TRUE]
<1>1. Usable(d) /\ d.client_request = "NONE"
  BY DEF Usable, Reported, Answered, CtlType
<1>2. Sound("DOWN", d)
  BY <1>1, LeavingAnswered
<1>3. <<>> \in Seq(Events)
  OBVIOUS
<1>4. \/ \E why : Abort(why)
      \/ Return("DOWN", d, DbgInfo(c) \o <<"DBG_INFO", "PLATFORM_REBOOT">>
                           \o Result(c, "FAILURE"), <<>>, <<>>)
  BY DEF platform_reboot
<1> QED BY <1>2, <1>3, <1>4, Aborts, Returns

LEMMA EscalateKeeps ==
    ASSUME CtrlInv, NEW c, Usable(c), Escalate(c)
    PROVE  CtrlInv' /\ flashed' = flashed
<1>1. \/ Abort("warm reset") /\ UNCHANGED uploadVars
      \/ mdm_restart(c, <<>>, TRUE, "EV_RESET")
      \/ platform_reboot(c) /\ UNCHANGED uploadVars
      \/ set_oos(c) /\ UNCHANGED uploadVars
  BY DEF Escalate
<1> QED BY <1>1, Aborts, RestartKeeps, RebootKeeps, OosKeeps DEF uploadVars

LEMMA StopKeeps ==
    ASSUME CtrlInv, NEW c, Usable(c), Stop(c)
    PROVE  CtrlInv'
<1>1. Sound("WAITING", c)
  BY Leaving
<1>2. <<>> \in Seq(Events)
  OBVIOUS
<1>3. Return("WAITING", c, <<>>, <<"EV_STOP">>, <<>>)
  BY DEF Stop
<1> QED BY <1>1, <1>2, <1>3, Returns

LEMMA OperationKeeps ==
    ASSUME CtrlInv, NEW c, Usable(c), RequestedOperation(c)
    PROVE  CtrlInv' /\ flashed' = flashed
<1>1. Sound("WAITING", c)
  BY Leaving
<1>2. <<>> \in Seq(Events)
  OBVIOUS
<1>3. CASE Return("WAITING", c, <<>>, <<>>, <<>>) /\ UNCHANGED <<escVars, uploadVars>>
  BY <1>1, <1>2, <1>3, Returns DEF uploadVars
<1>4. CASE Escalate(c)
  BY <1>4, EscalateKeeps
<1>5. CASE Stop(c) /\ UNCHANGED <<escVars, uploadVars>>
  BY <1>5, StopKeeps DEF uploadVars
<1> QED BY <1>3, <1>4, <1>5 DEF RequestedOperation

LEMMA FailsafeKeeps ==
    ASSUME CtrlInv, NEW c, Usable(c), NEW m, Failsafe(c, m)
    PROVE  CtrlInv'
<1> DEFINE d == [c EXCEPT !.client_request = "STOP", !.fw_ready = FALSE,
                          !.hal_evt = FALSE, !.waiting_hal_busy_reason = FALSE,
                          !.flash_done = FALSE, !.run_ipc = FALSE]
<1>1. Usable(d)
  BY DEF Usable, CtlType
<1>2. Sound("WAITING", d)
  BY <1>1, Leaving
<1>3. <<>> \in Seq(Events)
  OBVIOUS
<1>4. Return("WAITING", d, m \o Result(c, "FAILURE"), <<"EV_STOP">>, <<>>)
  BY DEF Failsafe
<1> QED BY <1>2, <1>3, <1>4, Returns

\* A handler that stays where it is with the request and the timer as they are.
LEMMA Staying ==
    ASSUME CtrlInv, NEW c, Usable(c), c.timer_armed = ctl.timer_armed,
           c.client_request = ctl.client_request
    PROVE  Sound(cstate, c)
BY DEF CtrlInv, Usable, Sound, TimerHasRequest, DownIsAnswered

LEMMA FlashKeeps ==
    ASSUME CtrlInv, NEW c \in CtlType, c.timer_armed = ctl.timer_armed,
           c.client_request = ctl.client_request,
           ~(c.flash_done /\ c.run_ipc), mdm_flash(c)
    PROVE  CtrlInv' /\ flashed' = flashed
<1>0. <<>> \in Seq(Events) /\ (c.timer_armed => cstate = "UP")
  BY DEF CtrlInv, TimerHasRequest
<1>1. CASE ~(c.hal_evt /\ c.fw_ready)
  <2>1. Usable(c)
    BY <1>0, <1>1 DEF Usable
  <2>2. Return(cstate, c, <<>>, <<>>, <<>>) /\ UNCHANGED uploadVars
    BY <1>1 DEF mdm_flash
  <2> QED BY <1>0, <2>1, <2>2, Staying, Returns DEF uploadVars
<1>2. CASE (c.hal_evt /\ c.fw_ready) /\ Upload!FlashFails
  BY <1>2, Aborts DEF mdm_flash, uploadVars
<1>3. CASE (c.hal_evt /\ c.fw_ready) /\ ~Upload!FlashFails
  <2> DEFINE d == [c EXCEPT !.hal_evt = FALSE, !.fw_ready = FALSE]
  <2>1. Usable(d)
    BY <1>0 DEF Usable, CtlType
  <2>2. Sound("FLASHING", d)
    BY <2>1, Leaving
  <2>3. Upload!flash /\ Return("FLASHING", d, <<>>, <<>>, <<>>)
    BY <1>3 DEF mdm_flash
  <2>4. CtrlInv'
    BY <1>0, <2>2, <2>3, Returns
  <2> QED BY <2>3, <2>4 DEF Upload!flash
<1> QED BY <1>1, <1>2, <1>3

LEMMA CfgKeeps ==
    ASSUME CtrlInv, NEW c \in CtlType, ~c.timer_armed,
           c.client_request = ctl.client_request, ~(c.hal_evt /\ c.fw_ready),
           cstate \notin {"UP", "DOWN"}, NEW hal, mdm_cfg(c, hal)
    PROVE  CtrlInv' /\ applied' = applied
<1> DEFINE d == [c EXCEPT !.flash_done = FALSE, !.run_ipc = FALSE]
<1>0. <<>> \in Seq(Events)
  OBVIOUS
<1>1. Usable(d) /\ ~d.timer_armed
  BY DEF Usable, CtlType
<1>2. CASE ~(c.flash_done /\ c.run_ipc)
  <2>1. Sound(cstate, c)
    BY <1>2 DEF CtrlInv, Sound
  <2>2. Return(cstate, c, <<>>, hal, <<>>) /\ UNCHANGED custoVars
    BY <1>2 DEF mdm_cfg
  <2> QED BY <1>0, <2>1, <2>2, Returns DEF custoVars
<1>3. CASE (c.flash_done /\ c.run_ipc) /\ ~tlv_pending
  <2>1. Sound("UP", Answered(d))
    BY <1>1 DEF Sound, Usable, Answered, CtlType, States
  <2>2. /\ Return("UP", Answered(d), Result(d, "SUCCESS") \o <<"READY">>, hal, <<>>)
        /\ UNCHANGED custoVars
    BY <1>3 DEF mdm_cfg
  <2> HIDE DEF d
  <2> QED BY <1>0, <2>1, <2>2, Returns DEF custoVars
<1>4. CASE (c.flash_done /\ c.run_ipc) /\ tlv_pending /\ (cstate = "INITIAL" \/ Custo!SendFails)
  BY <1>4, Aborts DEF mdm_cfg, custoVars
<1>5. CASE (c.flash_done /\ c.run_ipc) /\ tlv_pending /\ ~(cstate = "INITIAL" \/ Custo!SendFails)
  <2>1. Sound("CUSTOMIZING", d)
    BY <1>1, Leaving
  <2>2. Custo!send /\ Return("CUSTOMIZING", d, <<>>, hal, <<>>)
    BY <1>5 DEF mdm_cfg
  <2>3. CtrlInv'
    BY <1>0, <2>1, <2>2, Returns
  <2> QED BY <2>2, <2>3 DEF Custo!send
<1> QED BY <1>2, <1>3, <1>4, <1>5

-----------------------------------------------------------------------------
\* The states in which the table runs a handler.
LEMMA At ==
    ASSUME CtrlInv, NEW op, On(op)
    PROVE  /\ op = "request_reset_timer" => cstate = "UP"
           /\ op \in {"request_stop", "request_update"} => cstate \in {"UP", "WAITING"}
           /\ op = "request_reset" => cstate = "WAITING"
           /\ op \in {"accept_stop", "accept_reset"} => cstate = "DUMPING"
           /\ op \in {"run_evt", "flash_success_evt"} => cstate = "FLASHING"
           /\ op = "run_evt_initial" => cstate = "INITIAL"
<1>1. cstate \in States /\ Event \in DOMAIN g_fsm_array
  BY EventType DEF CtrlInv
<1>2. op = g_fsm_array[Event][Columns[cstate]]
  BY DEF On, Operation
<1> QED BY <1>1, <1>2, Table

\* The context of an accepted request: no timer runs.
LEMMA AskedUsable ==
    ASSUME CtrlInv, ctl.client_request = "NONE", NEW r \in {"RESET", "STOP", "START"},
           NEW c, c = [pre_op EXCEPT !.client_request = r]
    PROVE  Usable(c) /\ ~c.timer_armed /\ c.client_request = r
<1>1. ~ctl.timer_armed
  BY DEF CtrlInv, TimerHasRequest
<1> QED BY <1>1, PreOpType DEF Usable, CtlType

LEMMA Waiting ==
    ASSUME CtrlInv, NEW c, Usable(c), ~c.timer_armed, cstate # "DOWN"
    PROVE  Sound(cstate, c)
BY DEF CtrlInv, Usable, Sound

\* The handlers of the client's requests, and what they leave alone.
LEMMA StartRequest ==
    ASSUME CtrlInv, request_start
    PROVE  CtrlInv' /\ flashed' = flashed
<1>0. <<>> \in Seq(Events)
  OBVIOUS
<1>1. CASE ctl.client_request # "NONE"
  BY <1>1, Aborts DEF request_start, Requesting, uploadVars
<1>2. CASE ctl.client_request = "NONE"
  <2> DEFINE c == [pre_op EXCEPT !.client_request = "START"]
  <2>1. Usable(c) /\ ~c.timer_armed /\ c.client_request = "START"
    BY <1>2, AskedUsable
  <2>2. \/ /\ Return(cstate, Answered(c), Result(c, "FAILURE"), <<>>, <<>>)
           /\ UNCHANGED uploadVars
        \/ Abort("package") /\ UNCHANGED uploadVars
        \/ /\ Upload!package
           /\ Return("PACKAGING", c, <<>>, <<"EV_POWER">>, Upload!PackageReport)
    BY <1>2 DEF request_start, Requesting
  <2>3. Sound(cstate, Answered(c))
    BY <2>1 DEF CtrlInv, Usable, Sound, Answered, CtlType
  <2>4. Sound("PACKAGING", c)
    BY <2>1, Leaving
  <2> HIDE DEF c
  <2>5. CtrlInv'
    BY <1>0, <2>2, <2>3, <2>4, PackageReportType, Aborts, Returns
  <2> QED BY <2>2, <2>5 DEF Upload!package, uploadVars
<1> QED BY <1>1, <1>2

LEMMA StopRequest ==
    ASSUME CtrlInv, request_stop
    PROVE  CtrlInv' /\ flashed' = flashed
<1>0. <<>> \in Seq(Events) /\ cstate # "DOWN"
  BY At DEF request_stop
<1>1. CASE ctl.client_request # "NONE"
  BY <1>1, Aborts DEF request_stop, Requesting, uploadVars
<1>2. CASE ctl.client_request = "NONE"
  <2> DEFINE c == [pre_op EXCEPT !.client_request = "STOP"]
  <2>1. Usable(c) /\ ~c.timer_armed
    BY <1>2, AskedUsable
  <2>2. /\ Return(cstate, c, <<>>, <<>>, <<>>) \/ Stop(c)
        /\ UNCHANGED uploadVars
    BY <1>2 DEF request_stop, Requesting, StopOrWait
  <2> HIDE DEF c
  <2> QED BY <1>0, <2>1, <2>2, Waiting, Returns, StopKeeps DEF uploadVars
<1> QED BY <1>1, <1>2

LEMMA ResetRequest ==
    ASSUME CtrlInv, request_reset
    PROVE  CtrlInv' /\ flashed' = flashed
<1>0. <<>> \in Seq(Events) /\ cstate # "DOWN"
  BY At DEF request_reset
<1>1. CASE ctl.client_request # "NONE"
  BY <1>1, Aborts DEF request_reset, Requesting, uploadVars
<1>2. CASE ctl.client_request = "NONE"
  <2> DEFINE c == [pre_op EXCEPT !.client_request = "RESET"]
             d == store_dbg_info(c, FALSE)
  <2>1. Usable(c) /\ ~c.timer_armed
    BY <1>2, AskedUsable
  <2>2. \/ Return(cstate, d, <<>>, <<>>, <<>>) /\ UNCHANGED uploadVars
        \/ Escalate(d)
    BY <1>2 DEF request_reset, Requesting
  <2> HIDE DEF c
  <2>3. Usable(d) /\ ~d.timer_armed
    BY <2>1, StoreType
  <2> HIDE DEF d
  <2> QED BY <1>0, <2>2, <2>3, Waiting, Returns, EscalateKeeps DEF uploadVars
<1> QED BY <1>1, <1>2

LEMMA ResetTimerRequest ==
    ASSUME CtrlInv, request_reset_timer
    PROVE  CtrlInv' /\ flashed' = flashed
<1>0. <<>> \in Seq(Events) /\ cstate = "UP"
  <2>1. On("request_reset_timer")
    BY DEF request_reset_timer
  <2> QED BY <2>1, At
<1>1. CASE ctl.client_request # "NONE"
  BY <1>1, Aborts DEF request_reset_timer, Requesting, uploadVars
<1>2. CASE ctl.client_request = "NONE"
  <2> DEFINE c == [pre_op EXCEPT !.client_request = "RESET"]
             s == store_dbg_info(c, FALSE)
             d == [s EXCEPT !.reset_initiated_by_cla = TRUE, !.timer_armed = TRUE]
  <2>1. Usable(c) /\ ~c.timer_armed /\ c.client_request = "RESET"
    BY <1>2, AskedUsable
  <2>2. /\ Abort("timer armed") \/ Return(cstate, d, <<>>, <<>>, <<>>)
        /\ UNCHANGED uploadVars
    BY <1>2 DEF request_reset_timer, Requesting
  <2> HIDE DEF c
  <2>3. Usable(s) /\ s.client_request = "RESET"
    BY <2>1, StoreType
  <2> HIDE DEF s
  <2>4. Sound(cstate, d)
    BY <1>0, <2>3 DEF Sound, Usable, CtlType, CtrlInv
  <2> HIDE DEF d
  <2> QED BY <1>0, <2>2, <2>4, Aborts, Returns DEF uploadVars
<1> QED BY <1>1, <1>2

LEMMA UpdateRequest ==
    ASSUME CtrlInv, request_update
    PROVE  CtrlInv' /\ flashed' = flashed
<1>0. <<>> \in Seq(Events) /\ cstate # "DOWN"
  <2>1. On("request_update")
    BY DEF request_update
  <2> QED BY <2>1, At
<1>1. CASE ctl.client_request # "NONE"
  BY <1>1, Aborts DEF request_update, Requesting, uploadVars
<1>2. CASE ctl.client_request = "NONE"
  <2> DEFINE c == [pre_op EXCEPT !.client_request = "RESET"]
             d == [c EXCEPT !.do_not_report = TRUE]
  <2>1. Usable(c) /\ ~c.timer_armed
    BY <1>2, AskedUsable
  <2>2. \/ Return(cstate, d, <<>>, <<>>, <<>>) /\ UNCHANGED uploadVars
        \/ mdm_restart(d, <<>>, FALSE, "EV_RESET")
    BY <1>2 DEF request_update, Requesting
  <2> HIDE DEF c
  <2>3. Usable(d) /\ ~d.timer_armed
    BY <2>1 DEF Usable, CtlType
  <2> HIDE DEF d
  <2> QED BY <1>0, <2>2, <2>3, Waiting, Returns, RestartKeeps DEF uploadVars
<1> QED BY <1>1, <1>2

LEMMA BackupRequest ==
    ASSUME CtrlInv, request_backup
    PROVE  CtrlInv' /\ flashed' = flashed
<1>1. CASE ctl.client_request # "NONE"
  BY <1>1, Aborts DEF request_backup, Requesting, uploadVars
<1>2. CASE ctl.client_request = "NONE"
  <2> DEFINE c == [pre_op EXCEPT !.client_request = "RESET"]
  <2>1. Usable(c)
    BY <1>2, AskedUsable
  <2>2. mdm_restart(c, <<>>, FALSE, "EV_BACKUP")
    BY <1>2 DEF request_backup, Requesting
  <2> HIDE DEF c
  <2> QED BY <2>1, <2>2, RestartKeeps
<1> QED BY <1>1, <1>2

LEMMA AcceptedRequest ==
    ASSUME CtrlInv, NEW op \in {"accept_stop", "accept_reset"},
           NEW r \in {"STOP", "RESET"}, accept(op, r)
    PROVE  CtrlInv' /\ flashed' = flashed
<1>0. <<>> \in Seq(Events) /\ cstate # "DOWN"
  <2>1. On(op)
    BY DEF accept
  <2> QED BY <2>1, At
<1>1. CASE ctl.client_request # "NONE"
  BY <1>1, Aborts DEF accept, Requesting, uploadVars
<1>2. CASE ctl.client_request = "NONE"
  <2> DEFINE c == [pre_op EXCEPT !.client_request = r]
  <2>1. Usable(c) /\ ~c.timer_armed
    BY <1>2, AskedUsable
  <2>2. Return(cstate, c, <<>>, <<>>, <<>>) /\ UNCHANGED uploadVars
    BY <1>2 DEF accept, Requesting
  <2> HIDE DEF c
  <2> QED BY <1>0, <2>1, <2>2, Waiting, Returns DEF uploadVars
<1> QED BY <1>1, <1>2

-----------------------------------------------------------------------------
(***************************************************************************)
(* The handlers that call no plugin, or only the dump and the escalation.  *)
(***************************************************************************)
LEMMA SimpleEvents ==
    ASSUME CtrlInv,
           \/ notify_off \/ notify_busy \/ mdm_stop \/ ignore \/ upload_failure
           \/ custo_failure \/ failsafe \/ dump_start
    PROVE  CtrlInv'
<1>0. <<>> \in Seq(Events) /\ Usable(pre_op)
  BY PreOpType
<1>1. CASE notify_off
  <2>1. Usable(Answered(pre_op)) /\ Answered(pre_op).client_request = "NONE"
    BY <1>0 DEF Usable, Answered, CtlType
  <2> QED BY <1>0, <1>1, <2>1, LeavingAnswered, Returns DEF notify_off
<1>2. CASE notify_busy
  <2>1. CASE cstate = "UP"
    BY <1>0, <1>2, <2>1, Leaving, Returns DEF notify_busy
  <2>2. CASE cstate # "UP"
    BY <1>0, <1>2, <2>2, Staying, PreOpType, Returns DEF notify_busy
  <2> QED BY <2>1, <2>2
<1>3. CASE mdm_stop
  BY <1>0, <1>3, StopKeeps DEF mdm_stop
<1>4. CASE ignore
  BY <1>0, <1>4, Staying, PreOpType, Returns DEF ignore
<1>5. CASE upload_failure \/ custo_failure \/ failsafe
  BY <1>0, <1>5, FailsafeKeeps DEF upload_failure, custo_failure, failsafe
<1>6. CASE dump_start
  <2> DEFINE d == [pre_op EXCEPT !.do_not_report = TRUE]
  <2>1. Usable(d)
    BY <1>0 DEF Usable, CtlType
  <2>2. Abort("dump") \/ Return("DUMPING", d, <<"DBG_INFO">>, <<>>, <<>>)
    BY <1>6 DEF dump_start
  <2> HIDE DEF d
  <2> QED BY <1>0, <2>1, <2>2, Leaving, Returns, Aborts
<1> QED BY <1>1, <1>2, <1>3, <1>4, <1>5, <1>6

\* The handlers that start a recovery.
LEMMA RecoveryEvents ==
    ASSUME CtrlInv,
           \/ escalation \/ requested_operation \/ dump_end \/ reset_after_tlv
           \/ notify_unresp \/ fw_flash_failure
    PROVE  CtrlInv' /\ flashed' = flashed
<1> DEFINE c == store_dbg_info(pre_op, TRUE)
<1>0. Usable(pre_op) /\ Usable(c)
  BY PreOpType, StoreType
<1>1. CASE escalation \/ requested_operation \/ dump_end
  <2>1. \E d : Usable(d) /\ (Escalate(d) \/ RequestedOperation(d))
    BY <1>0, <1>1 DEF escalation, requested_operation, dump_end
  <2> QED BY <2>1, EscalateKeeps, OperationKeeps
<1>2. CASE reset_after_tlv
  BY <1>0, <1>2, RestartKeeps DEF reset_after_tlv
<1>3. CASE notify_unresp \/ fw_flash_failure
  <2>1. (platform_reboot(c) \/ set_oos(c)) /\ UNCHANGED uploadVars
    BY <1>3 DEF notify_unresp, fw_flash_failure
  <2> HIDE DEF c
  <2> QED BY <1>0, <2>1, RebootKeeps, OosKeeps DEF uploadVars
<1> QED BY <1>1, <1>2, <1>3

\* The handlers of the two rendezvous.
LEMMA FlashEvents ==
    ASSUME CtrlInv, flash_evt \/ fw_ready_evt
    PROVE  CtrlInv' /\ flashed' = flashed
<1>1. CASE flash_evt /\ ctl.hal_evt
  BY <1>1, Aborts DEF flash_evt, uploadVars
<1>2. CASE flash_evt /\ ~ctl.hal_evt
  <2> DEFINE c == [pre_op EXCEPT !.hal_evt = TRUE]
  <2>1. /\ c \in CtlType /\ c.timer_armed = ctl.timer_armed
        /\ c.client_request = ctl.client_request /\ ~(c.flash_done /\ c.run_ipc)
    BY PreOpType DEF Usable, CtlType
  <2>2. mdm_flash(c)
    BY <1>2 DEF flash_evt
  <2> HIDE DEF c
  <2> QED BY <2>1, <2>2, FlashKeeps
<1>3. CASE fw_ready_evt
  <2> DEFINE c == [pre_op EXCEPT !.fw_ready = TRUE]
  <2>1. /\ c \in CtlType /\ c.timer_armed = ctl.timer_armed
        /\ c.client_request = ctl.client_request /\ ~(c.flash_done /\ c.run_ipc)
    BY PreOpType DEF Usable, CtlType
  <2>2. mdm_flash(c)
    BY <1>3 DEF fw_ready_evt
  <2> HIDE DEF c
  <2> QED BY <2>1, <2>2, FlashKeeps
<1> QED BY <1>1, <1>2, <1>3

LEMMA RunEvents ==
    ASSUME CtrlInv, run_evt \/ run_evt_initial \/ flash_success_evt
    PROVE  CtrlInv' /\ applied' = applied
<1>1. cstate \in {"INITIAL", "FLASHING"}
  <2>1. On("run_evt") \/ On("run_evt_initial") \/ On("flash_success_evt")
    BY DEF run_evt, run_evt_initial, flash_success_evt
  <2> QED BY <2>1, At
<1>2. ~ctl.timer_armed
  BY <1>1 DEF CtrlInv, TimerHasRequest
<1>3. \E c, hal : /\ c \in CtlType /\ ~c.timer_armed
                 /\ c.client_request = ctl.client_request
                 /\ ~(c.hal_evt /\ c.fw_ready) /\ mdm_cfg(c, hal)
  <2>1. CASE run_evt
    <3> DEFINE c == [pre_op EXCEPT !.run_ipc = TRUE]
    <3>1. /\ c \in CtlType /\ ~c.timer_armed /\ ~(c.hal_evt /\ c.fw_ready)
          /\ c.client_request = ctl.client_request
      BY <1>2, PreOpType DEF Usable, CtlType
    <3> QED BY <2>1, <3>1 DEF run_evt
  <2>2. CASE run_evt_initial
    <3> DEFINE c == [pre_op EXCEPT !.run_ipc = TRUE, !.flash_done = TRUE]
    <3>1. /\ c \in CtlType /\ ~c.timer_armed /\ ~(c.hal_evt /\ c.fw_ready)
          /\ c.client_request = ctl.client_request
      BY <1>2, PreOpType DEF Usable, CtlType
    <3> QED BY <2>2, <3>1 DEF run_evt_initial
  <2>3. CASE flash_success_evt
    <3> DEFINE c == [pre_op EXCEPT !.flash_done = TRUE]
    <3>1. /\ c \in CtlType /\ ~c.timer_armed /\ ~(c.hal_evt /\ c.fw_ready)
          /\ c.client_request = ctl.client_request
      BY <1>2, PreOpType DEF Usable, CtlType
    <3> QED BY <2>3, <3>1 DEF flash_success_evt
  <2> QED BY <2>1, <2>2, <2>3
<1> QED BY <1>1, <1>3, CfgKeeps

\* Every step of the control thread.
LEMMA HandleKeeps ==
    ASSUME CtrlInv, Handle \/ WatchdogExpires
    PROVE  /\ CtrlInv' /\ flashed' = flashed /\ applied' = applied
           /\ dumped' = dumped
<1>1. CASE \/ request_start \/ request_stop \/ request_reset
           \/ request_reset_timer \/ request_update \/ request_backup
           \/ accept("accept_stop", "STOP") \/ accept("accept_reset", "RESET")
  <2>1. UNCHANGED <<custoVars, dumpVars>>
    BY <1>1 DEF request_start, request_stop, request_reset, request_reset_timer,
                request_update, request_backup, accept
  <2>2. CtrlInv' /\ flashed' = flashed
    BY <1>1, StartRequest, StopRequest, ResetRequest, ResetTimerRequest,
       UpdateRequest, BackupRequest, AcceptedRequest
  <2> QED BY <2>1, <2>2 DEF custoVars, dumpVars
<1>2. CASE \/ notify_off \/ notify_busy \/ mdm_stop \/ ignore \/ upload_failure
           \/ custo_failure \/ failsafe
  <2>1. UNCHANGED <<uploadVars, custoVars, dumpVars>>
    BY <1>2 DEF notify_off, notify_busy, mdm_stop, ignore, upload_failure,
                custo_failure, failsafe
  <2> QED BY <1>2, <2>1, SimpleEvents DEF uploadVars, custoVars, dumpVars
<1>3. CASE dump_start
  <2>1. UNCHANGED <<uploadVars, custoVars>> /\ dumped' = dumped
    BY <1>3 DEF dump_start, dumpVars, Dmp!read_dump
  <2> QED BY <1>3, <2>1, SimpleEvents DEF uploadVars, custoVars
<1>4. CASE \/ escalation \/ requested_operation \/ dump_end \/ reset_after_tlv
           \/ notify_unresp \/ fw_flash_failure
  <2>1. applied' = applied /\ UNCHANGED dumpVars
    BY <1>4 DEF escalation, requested_operation, dump_end, reset_after_tlv,
                notify_unresp, fw_flash_failure, custoVars, Custo!notify_tlv_applied
  <2> QED BY <1>4, <2>1, RecoveryEvents DEF dumpVars
<1>5. CASE flash_evt \/ fw_ready_evt
  <2>1. UNCHANGED <<custoVars, dumpVars>>
    BY <1>5 DEF flash_evt, fw_ready_evt
  <2> QED BY <1>5, <2>1, FlashEvents DEF custoVars, dumpVars
<1>6. CASE run_evt \/ run_evt_initial \/ flash_success_evt
  <2>1. UNCHANGED <<uploadVars, dumpVars>>
    BY <1>6 DEF run_evt, run_evt_initial, flash_success_evt
  <2> QED BY <1>6, <2>1, RunEvents DEF uploadVars, dumpVars
<1>7. CASE dump_error \/ not_supported \/ WatchdogExpires
  BY <1>7, Aborts DEF dump_error, not_supported, WatchdogExpires, uploadVars,
                      custoVars, dumpVars
<1> QED BY <1>1, <1>2, <1>3, <1>4, <1>5, <1>6, <1>7 DEF Handle

-----------------------------------------------------------------------------
\* The queue of control is all that the other threads change of CtrlInv.
LEMMA OthersKeep ==
    ASSUME CtrlInv, UNCHANGED <<cstate, ctl>>, ctrlQ' \in Seq(Events)
    PROVE  CtrlInv'
BY DEF CtrlInv, TimerHasRequest, DownIsAnswered, RendezvousMet

LEMMA EventsSent ==
    ASSUME CtrlInv, NEW e \in Events
    PROVE  Send(ctrlQ, <<e>>) \in Seq(Events)
<1>1. <<e>> \in Seq(Events)
  OBVIOUS
<1>2. ctrlQ \in Seq(Events)
  BY DEF CtrlInv
<1> QED BY <1>1, <1>2, SendType

\* The reports of the workers have rows in the table.
LEMMA ReportTypes == {"EV_FW_SUCCESS", "EV_FAILURE", "EV_DUMP_SUCCESS"} \subseteq Events
BY DEF Events, g_fsm_array

LEMMA WorkersKeep ==
    ASSUME CtrlInv, WorkInv, Workers
    PROVE  CtrlInv' /\ WorkInv'
<1>1. CASE UploadThread
  <2>1. /\ UNCHANGED <<cstate, ctl, applied, dumped>>
        /\ \/ UNCHANGED <<flashed, ctrlQ>>
           \/ /\ UNCHANGED ctrlQ
              /\ \E e \in {"EV_FW_SUCCESS", "EV_FAILURE"} : flashed' = Append(flashed, e)
           \/ /\ flashed # <<>> /\ flashed' = Tail(flashed)
              /\ ctrlQ' = Send(ctrlQ, <<Head(flashed)>>)
    BY <1>1 DEF UploadThread, Upload!FlashBegin, Upload!FlashEnd,
                Upload!FlashNotify, Upload!Send, Upload!Fits, Send, Fits,
                custoVars, dumpVars
  <2>2. flashed # <<>> => Head(flashed) \in Events /\ Tail(flashed) \in Seq(Events)
    BY HeadTailProperties DEF WorkInv
  <2>3. flashed' \in Seq(Events)
    <3>1. ASSUME NEW e \in {"EV_FW_SUCCESS", "EV_FAILURE", "EV_DUMP_SUCCESS"},
                 flashed' = Append(flashed, e)
          PROVE  flashed' \in Seq(Events)
      <4>1. e \in Events /\ flashed \in Seq(Events)
        BY ReportTypes DEF WorkInv
      <4> QED BY <3>1, <4>1, AppendProperties
    <3> QED BY <2>1, <2>2, <3>1 DEF WorkInv
  <2>4. ctrlQ' \in Seq(Events)
    BY <2>1, <2>2, EventsSent DEF CtrlInv
  <2> QED BY <2>1, <2>3, <2>4, OthersKeep DEF WorkInv
<1>2. CASE CustoThread
  <2>1. /\ UNCHANGED <<cstate, ctl, flashed, dumped>>
        /\ \/ UNCHANGED <<applied, ctrlQ>>
           \/ /\ UNCHANGED ctrlQ
              /\ \E e \in {"EV_FW_SUCCESS", "EV_FAILURE"} : applied' = Append(applied, e)
           \/ /\ applied # <<>> /\ applied' = Tail(applied)
              /\ ctrlQ' = Send(ctrlQ, <<Head(applied)>>)
    BY <1>2 DEF CustoThread, Custo!TlvBegin, Custo!TlvEnd, Custo!TlvNotify,
                Custo!TlvNodeFails, Custo!Send, Custo!Fits, Send, Fits, uploadVars, dumpVars
  <2>2. applied # <<>> => Head(applied) \in Events /\ Tail(applied) \in Seq(Events)
    BY HeadTailProperties DEF WorkInv
  <2>3. applied' \in Seq(Events)
    <3>1. ASSUME NEW e \in {"EV_FW_SUCCESS", "EV_FAILURE", "EV_DUMP_SUCCESS"},
                 applied' = Append(applied, e)
          PROVE  applied' \in Seq(Events)
      <4>1. e \in Events /\ applied \in Seq(Events)
        BY ReportTypes DEF WorkInv
      <4> QED BY <3>1, <4>1, AppendProperties
    <3> QED BY <2>1, <2>2, <3>1 DEF WorkInv
  <2>4. ctrlQ' \in Seq(Events)
    BY <2>1, <2>2, EventsSent DEF CtrlInv
  <2> QED BY <2>1, <2>3, <2>4, OthersKeep DEF WorkInv
<1>3. CASE DumpThread
  <2>1. /\ UNCHANGED <<cstate, ctl, flashed, applied>>
        /\ \/ UNCHANGED <<dumped, ctrlQ>>
           \/ /\ UNCHANGED ctrlQ
              /\ \E e \in {"EV_DUMP_SUCCESS", "EV_FAILURE"} : dumped' = Append(dumped, e)
           \/ /\ dumped # <<>> /\ dumped' = Tail(dumped)
              /\ ctrlQ' = Send(ctrlQ, <<Head(dumped)>>)
    BY <1>3 DEF DumpThread, Dmp!DumpBegin, Dmp!DumpNodeFails, Dmp!DumpEnd,
                Dmp!DumpNotify, Dmp!Send, Dmp!Fits, Send, Fits, uploadVars, custoVars
  <2>2. dumped # <<>> => Head(dumped) \in Events /\ Tail(dumped) \in Seq(Events)
    BY HeadTailProperties DEF WorkInv
  <2>3. dumped' \in Seq(Events)
    <3>1. ASSUME NEW e \in {"EV_FW_SUCCESS", "EV_FAILURE", "EV_DUMP_SUCCESS"},
                 dumped' = Append(dumped, e)
          PROVE  dumped' \in Seq(Events)
      <4>1. e \in Events /\ dumped \in Seq(Events)
        BY ReportTypes DEF WorkInv
      <4> QED BY <3>1, <4>1, AppendProperties
    <3> QED BY <2>1, <2>2, <3>1 DEF WorkInv
  <2>4. ctrlQ' \in Seq(Events)
    BY <2>1, <2>2, EventsSent DEF CtrlInv
  <2> QED BY <2>1, <2>3, <2>4, OthersKeep DEF WorkInv
<1> QED BY <1>1, <1>2, <1>3 DEF Workers

-----------------------------------------------------------------------------
\* The invariant holds in every reachable state.
LEMMA Invariance == ESpec => [](CtrlInv /\ WorkInv)
<1>1. EInit => CtrlInv /\ WorkInv
  BY DEF EInit, Init, Cleared, CtrlInv, WorkInv, States, CtlType, TimerHasRequest,
         DownIsAnswered, RendezvousMet, Upload!Init, Custo!Init, Dmp!Init
<1>2. CtrlInv /\ WorkInv /\ [ENext]_evars => (CtrlInv /\ WorkInv)'
  <2> SUFFICES ASSUME CtrlInv, WorkInv, [ENext]_evars
               PROVE  CtrlInv' /\ WorkInv'
    OBVIOUS
  <2>1. CASE Handle \/ WatchdogExpires
    BY <2>1, HandleKeeps DEF WorkInv
  <2>2. CASE Workers
    BY <2>2, WorkersKeep
  <2>3. CASE Reads \/ UNCHANGED evars
    <3>1. UNCHANGED <<cstate, ctl, flashed, applied, dumped, ctrlQ>>
      BY <2>3 DEF Reads, evars, vars, queues, uploadVars, custoVars, dumpVars
    <3> QED BY <3>1, OthersKeep DEF CtrlInv, WorkInv
  <2>4. ASSUME NEW e \in Incoming, Arrives(e)
        PROVE  CtrlInv' /\ WorkInv'
    <3>1. e \in Events
      BY DEF Incoming, Events, g_fsm_array
    <3>2. /\ UNCHANGED <<cstate, ctl, flashed, applied, dumped>>
          /\ ctrlQ' = Send(ctrlQ, <<e>>)
      BY <2>4 DEF Arrives, uploadVars, custoVars, dumpVars
    <3>3. ctrlQ' \in Seq(Events)
      BY <3>1, <3>2, EventsSent
    <3> QED BY <3>2, <3>3, OthersKeep DEF WorkInv
  <2> QED BY <2>1, <2>2, <2>3, <2>4 DEF ENext
<1> QED BY <1>1, <1>2, PTL DEF ESpec

(***************************************************************************)
(* The context of control and its queue keep their types: no handler takes *)
(* an event, a state or a request the table does not know.                 *)
(***************************************************************************)
THEOREM TypeCorrect == ESpec => []TypeOK
<1>1. CtrlInv /\ WorkInv => TypeOK
  BY DEF CtrlInv, WorkInv, TypeOK
<1> QED BY <1>1, Invariance, PTL

(***************************************************************************)
(* state_trans and the handlers disarm the timer of a delayed RESET: it    *)
(* runs only in UP, for a RESET that is not answered, whatever the events. *)
(***************************************************************************)
THEOREM TimerIsOwned == ESpec => []TimerHasRequest
<1>1. CtrlInv => TimerHasRequest
  BY DEF CtrlInv
<1> QED BY <1>1, Invariance, PTL

(***************************************************************************)
(* No handler comes to rest in DOWN without answering the request it       *)
(* serves, whatever the events and however the recovery was decided.       *)
(***************************************************************************)
THEOREM DownAnswers == ESpec => []DownIsAnswered
<1>1. CtrlInv => DownIsAnswered
  BY DEF CtrlInv
<1> QED BY <1>1, Invariance, PTL

(***************************************************************************)
(* mdm_flash and mdm_cfg leave neither rendezvous half done, in whichever  *)
(* order the two parties arrive.                                           *)
(***************************************************************************)
THEOREM RendezvousComplete == ESpec => []RendezvousMet
<1>1. CtrlInv => RendezvousMet
  BY DEF CtrlInv
<1> QED BY <1>1, Invariance, PTL
=============================================================================
