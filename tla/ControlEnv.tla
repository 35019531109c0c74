----------------------------- MODULE ControlEnv -----------------------------
(***************************************************************************)
(* The control thread and the worker threads it starts, with clients and a *)
(* HAL that may send any event at any time: what control keeps whatever    *)
(* its environment does.                                                   *)
(***************************************************************************)
EXTENDS Control

CONSTANTS MaxEvents,   \* bound on the events CLA and the HAL send
          MaxUnread,   \* bound on unread messages when one is sent
          MaxPending   \* bound on finished workers that have not reported

ASSUME EnvAssumption == MaxEvents \in Nat /\ MaxUnread \in Nat
                        /\ MaxPending \in Nat

VARIABLE arrived   \* events sent so far
evars == <<vars, arrived>>

Events == DOMAIN g_fsm_array \cup {"EV_CLI_RESET_DBG"}

\* What CLA and the HAL send: workers and the timer are modelled.
Incoming == {"EV_CLI_START", "EV_CLI_STOP", "EV_CLI_RESET", "EV_CLI_RESET_DBG",
             "EV_CLI_UPDATE", "EV_CLI_NVM_BACKUP", "EV_HAL_MDM_OFF",
             "EV_HAL_MDM_RUN", "EV_HAL_MDM_BUSY", "EV_HAL_MDM_NEED_RESET",
             "EV_HAL_MDM_FLASH", "EV_HAL_MDM_DUMP", "EV_HAL_MDM_UNRESPONSIVE"}

Arrives(e) == /\ abort = <<>> /\ arrived < MaxEvents
              /\ Len(ctrlQ) + Len(claQ) + Len(halQ) < MaxUnread
              /\ ctrlQ' = Send(ctrlQ, <<e>>) /\ arrived' = arrived + 1
              /\ UNCHANGED <<cstate, ctl, escVars, uploadVars, custoVars, dumpVars,
                             claQ, halQ, abort>>

\* CLA and the HAL read what control has sent.
Reads == /\ abort = <<>> /\ claQ \o halQ # <<>>
         /\ claQ' = <<>> /\ halQ' = <<>>
         /\ UNCHANGED <<cstate, ctl, escVars, uploadVars, custoVars, dumpVars,
                        ctrlQ, abort>>

UploadThread ==
    /\ abort = <<>> /\ (Len(flashed) < MaxPending \/ flasher # "writing")
    /\ \/ Upload!FlashBegin
       \/ Upload!FlashEnd("EV_FW_SUCCESS") \/ Upload!FlashEnd("EV_FAILURE")
       \/ Upload!FlashNotify
    /\ UNCHANGED <<cstate, ctl, escVars, custoVars, dumpVars, claQ, halQ, abort>>

CustoThread ==
    /\ abort = <<>> /\ (Len(applied) < MaxPending \/ applier # "writing")
    /\ \/ Custo!TlvBegin \/ Custo!TlvNodeFails
       \/ Custo!TlvEnd("EV_FW_SUCCESS") \/ Custo!TlvEnd("EV_FAILURE")
       \/ Custo!TlvNotify
    /\ UNCHANGED <<cstate, ctl, escVars, uploadVars, dumpVars, halQ>>

DumpThread ==
    /\ abort = <<>> /\ (Len(dumped) < MaxPending \/ dumper # "reading")
    /\ \/ Dmp!DumpBegin \/ Dmp!DumpNodeFails
       \/ Dmp!DumpEnd("EV_DUMP_SUCCESS") \/ Dmp!DumpEnd("EV_FAILURE")
       \/ Dmp!DumpNotify
    /\ UNCHANGED <<cstate, ctl, escVars, uploadVars, custoVars, halQ>>

Workers == UploadThread \/ CustoThread \/ DumpThread

ENext == \/ \E e \in Incoming : Arrives(e)
         \/ (Handle \/ Reads \/ Workers \/ WatchdogExpires) /\ UNCHANGED arrived

EInit == Init /\ arrived = 0

ESpec == EInit /\ [][ENext]_evars

-----------------------------------------------------------------------------
\* The values of the context of control, and the events in its queue.
TypeOK == /\ cstate \in States /\ ctl \in CtlType
          /\ ctrlQ \in Seq(Events)
          /\ flashed \in Seq(Events) /\ applied \in Seq(Events)
          /\ dumped \in Seq(Events)

(***************************************************************************)
(* The timer of a delayed RESET (request_reset_timer) runs only while the  *)
(* modem is UP and the RESET is unanswered: whatever makes control leave   *)
(* UP also disarms it, so that EV_TIMEOUT never meets another state.       *)
(***************************************************************************)
TimerHasRequest ==
    ctl.timer_armed => cstate = "UP" /\ ctl.client_request = "RESET"

(***************************************************************************)
(* No request is left behind in DOWN: every handler that comes to rest     *)
(* there has answered it.                                                  *)
(***************************************************************************)
DownIsAnswered == cstate = "DOWN" => ctl.client_request = "NONE"

(***************************************************************************)
(* The two rendezvous of control: whichever of the HAL's FLASH event and   *)
(* the firmware comes last starts the flashing, and whichever of the end   *)
(* of the flashing and the RUN event comes last ends it.                   *)
(***************************************************************************)
RendezvousMet == /\ ~(ctl.hal_evt /\ ctl.fw_ready)
                 /\ ~(ctl.flash_done /\ ctl.run_ipc)
=============================================================================
