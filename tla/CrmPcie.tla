------------------------------ MODULE CrmPcie ------------------------------
(***************************************************************************)
(* CRM on the PCIe platforms: the thread of control, the thread of the     *)
(* HAL, the processes that flash the modem and read its dump, and the      *)
(* platform.  CLA is reduced to what control can see of it: it reads what  *)
(* control tells it and makes one request at a time, which suits the state *)
(* of the modem it was told last.                                          *)
(***************************************************************************)
EXTENDS Ipc, FiniteSets

CONSTANTS WarmReset, ColdReset, Reboot, Stored,         \* Escalation
          DumpDisabled, Faults, MaxFaults, MaxNet,      \* HalPcie
          Requests,      \* requests CLA may make
          MaxRequests    \* bound on those that are not about a busy modem

VARIABLES
    cstate, ctl, cfg_idx, counter, reboot_counter, expired,
    escalation_disabled, step, fw_path, flasher, flashed, tlv_pending,
    applier, applied, dumper, dumped,
    hal, modem, netQ, nvm, nvmQ, conns, faults,
    cla,   \* seen: the state of the modem last read; pending: a request is
           \* in progress; made: requests so far
    ctrlQ, claQ, halQ, abort

Control == INSTANCE Control
Hal     == INSTANCE HalPcie

ASSUME PlatformAssumption ==
    /\ DumpDisabled \in BOOLEAN /\ Faults \subseteq Hal!FaultKinds
    /\ MaxFaults \in Nat /\ MaxNet \in Nat \ {0} /\ MaxRequests \in Nat

ctlVars    == <<cstate, ctl>>
escVars    == <<cfg_idx, counter, reboot_counter, expired,
                escalation_disabled, step>>
uploadVars == <<fw_path, flasher, flashed>>
custoVars  == <<tlv_pending, applier, applied>>
dumpVars   == <<dumper, dumped>>
halVars    == <<hal, modem, netQ, nvm, nvmQ, conns>>
vars       == <<faults, ctlVars, escVars, uploadVars, custoVars, dumpVars, halVars,
                cla, ctrlQ, claQ, halQ, abort>>

\* crm_hal_pcie_fsm announces that the modem is off.
Init == /\ Control!Init /\ Hal!Init
        /\ cla = [seen |-> "UNKNOWN", pending |-> FALSE, made |-> 0]
Announce == /\ abort = <<>> /\ cstate = "INITIAL" /\ ctrlQ = <<>>
            /\ ctrlQ' = <<"EV_HAL_MDM_OFF">>
            /\ UNCHANGED <<ctlVars, escVars, uploadVars, custoVars, dumpVars, halVars,
                           cla, claQ, halQ, abort, faults>>

-----------------------------------------------------------------------------
(***************************************************************************)
(* flash() and read_dump() create the process before they return: nothing  *)
(* else happens while one of the plugins is "spawned".                     *)
(***************************************************************************)
Running == abort = <<>> /\ flasher # "spawned" /\ dumper # "spawned"

ControlThread == Running /\ Control!Handle /\ UNCHANGED <<halVars, cla, faults>>

HalThread == /\ Running /\ (Hal!Handle \/ Hal!handle_poll)
             /\ UNCHANGED <<ctlVars, escVars, uploadVars, custoVars, dumpVars, cla>>

ConfigThread == /\ Running /\ Hal!Configure
                /\ UNCHANGED <<ctlVars, escVars, uploadVars, custoVars, dumpVars, cla>>

(***************************************************************************)
(* CLA reads one message, and requests what suits the state of the modem.  *)
(* A success is followed by the state it has led to, and CLA awaits that.  *)
(***************************************************************************)
Read(msg) == CASE msg = "SUCCESS"  -> [cla EXCEPT !.pending = FALSE, !.seen = "UNKNOWN"]
               [] msg = "FAILURE"  -> [cla EXCEPT !.pending = FALSE]
               [] msg = "DBG_INFO" -> cla
               [] OTHER            -> [cla EXCEPT !.seen = msg]

ClaReads ==
    /\ Running /\ claQ # <<>> /\ claQ' = Tail(claQ) /\ cla' = Read(Head(claQ))
    /\ UNCHANGED <<ctlVars, escVars, uploadVars, custoVars, dumpVars, halVars,
                   ctrlQ, halQ, abort, faults>>

Suits(e) == CASE cla.seen = "OFF"   -> e = "EV_CLI_START"
              [] cla.seen = "READY" -> e # "EV_CLI_START"
              [] cla.seen = "BUSY"  -> e \notin {"EV_CLI_START", "EV_CLI_NVM_BACKUP"}
              [] OTHER              -> FALSE

ClaAsks(e) ==
    /\ Running /\ ~cla.pending /\ Suits(e)
    /\ cla.made < MaxRequests \/ cla.seen = "BUSY"
    /\ cla' = [cla EXCEPT !.pending = TRUE,
                          !.made = IF cla.seen = "BUSY" THEN @ ELSE @ + 1]
    /\ ctrlQ' = Send(ctrlQ, <<e>>)
    /\ UNCHANGED <<ctlVars, escVars, uploadVars, custoVars, dumpVars, halVars,
                   claQ, halQ, abort, faults>>

-----------------------------------------------------------------------------
(***************************************************************************)
(* fw_upload.c: the process writes the firmware, and the thread that waits *)
(* for it reports.  A process that cannot be created is reported at once,  *)
(* and the firmware stays packaged.                                        *)
(***************************************************************************)
FlashCreated == Control!Upload!FlashBegin /\ UNCHANGED faults
FlashNotCreated == /\ flasher = "spawned" /\ Hal!Fault("flash")
                   /\ flasher' = "idle" /\ flashed' = Append(flashed, "EV_FAILURE")
                   /\ UNCHANGED <<fw_path, ctrlQ>>
FlashSucceeds == /\ modem \in {"loaded", "run"}
                 /\ Control!Upload!FlashEnd("EV_FW_SUCCESS") /\ UNCHANGED faults
FlashFails == /\ IF modem \in {"rom", "loaded", "run"} THEN Hal!Fault("flash")
                 ELSE UNCHANGED faults
              /\ Control!Upload!FlashEnd("EV_FAILURE")

UploadThread ==
    /\ abort = <<>>
    /\ \/ FlashCreated \/ FlashNotCreated \/ FlashSucceeds \/ FlashFails
       \/ Control!Upload!FlashNotify /\ UNCHANGED faults
    /\ UNCHANGED <<ctlVars, escVars, custoVars, dumpVars, halVars, cla, claQ,
                   halQ, abort>>

\* The modem takes the firmware that the process writes.
ModemLoads == /\ Running /\ flasher = "writing" /\ Hal!ModemLoads
              /\ UNCHANGED <<ctlVars, escVars, uploadVars, custoVars, dumpVars, cla,
                             faults>>

(***************************************************************************)
(* dump.c, likewise.  Only a dump that succeeds is announced to clients.   *)
(***************************************************************************)
DumpSucceeds == modem = "dump" /\ Control!Dmp!DumpEnd("EV_DUMP_SUCCESS")
                /\ UNCHANGED faults
DumpFails == /\ dumper = "reading"
             /\ IF modem = "dump" THEN Hal!Fault("dump") ELSE UNCHANGED faults
             /\ dumper' = "idle" /\ dumped' = Append(dumped, "EV_FAILURE")
             /\ UNCHANGED <<ctrlQ, claQ, abort>>

DumpThread ==
    /\ abort = <<>>
    /\ \/ Control!Dmp!DumpBegin /\ UNCHANGED faults
       \/ DumpSucceeds \/ DumpFails
       \/ Control!Dmp!DumpNotify /\ UNCHANGED faults
    /\ UNCHANGED <<ctlVars, escVars, uploadVars, custoVars, halVars, cla, halQ>>

Platform == /\ Running /\ (Hal!Obey \/ Hal!Misbehave)
            /\ UNCHANGED <<ctlVars, escVars, uploadVars, custoVars, dumpVars, cla>>

-----------------------------------------------------------------------------
\* When each of them has something to do.
HalReady      == abort = <<>> /\ Hal!Source # "none"
ConfigReady   == abort = <<>> /\ hal.cfg \in {"ping", "mounting", "pinging"}
UploadReady   == abort = <<>> /\ (flasher # "idle" \/ flashed # <<>>)
DumpReady     == abort = <<>> /\ (dumper # "idle" \/ dumped # <<>>)
ClaReady      == abort = <<>> /\ claQ # <<>>
AnnounceReady == abort = <<>> /\ cstate = "INITIAL" /\ ctrlQ = <<>>
ObeyReady     == /\ abort = <<>>
                 /\ \/ nvm \in {"starting", "told", "told to leave", "leaving"}
                    \/ /\ modem \notin {"off", "rom", "run", "trap", "dump"}
                       /\ Len(netQ) < MaxNet
Quiet == /\ ~AnnounceReady /\ ~Control!Ready /\ ~HalReady /\ ~ConfigReady
         /\ ~UploadReady /\ ~DumpReady /\ ~ClaReady /\ ~ObeyReady

(***************************************************************************)
(* The timer of the HAL is longer than what it waits for, and the watchdog *)
(* of control longer still: each expires only when all the rest is still.  *)
(***************************************************************************)
TimerReady == abort = <<>> /\ Quiet /\ hal.timer
HalTimer == /\ TimerReady /\ Hal!Expire
            /\ UNCHANGED <<ctlVars, escVars, uploadVars, custoVars, dumpVars, cla>>

\* Mutant: a thread that waits for the HAL is not watched.
WatchdogReady_NotWaiting ==
    /\ abort = <<>> /\ cstate \notin {"UP", "DOWN", "WAITING"} /\ Quiet /\ ~hal.timer

WatchdogReady == /\ abort = <<>> /\ cstate \notin {"UP", "DOWN"} /\ Quiet /\ ~hal.timer
WatchdogThread == /\ WatchdogReady /\ Control!WatchdogExpires
                  /\ UNCHANGED <<halVars, cla, faults>>

(***************************************************************************)
(* CRM is started again after an ASSERT, or with the platform: see         *)
(* CrmSofia.  crm_hal_init_modem has stopped the modem.                    *)
(***************************************************************************)
RestartReady == abort # <<>> \/ step = Control!Esc!IDX_REBOOT
CrmRestart ==
    /\ RestartReady
    /\ cstate' = "INITIAL" /\ ctl' = Control!Cleared
    /\ UNCHANGED <<escalation_disabled, tlv_pending>> /\ Control!Esc!EscRestart
    /\ fw_path' = FALSE /\ flasher' = "idle" /\ flashed' = <<>>
    /\ applier' = "idle" /\ applied' = <<>>
    /\ dumper' = "idle" /\ dumped' = <<>>
    /\ hal' = Hal!crm_hal_init /\ modem' = "off" /\ netQ' = <<>>
    /\ nvm' = "starting" /\ nvmQ' = <<>> /\ conns' = <<>>
    /\ cla' = [cla EXCEPT !.seen = "UNKNOWN", !.pending = FALSE]
    /\ ctrlQ' = <<>> /\ claQ' = <<>> /\ halQ' = <<>> /\ abort' = <<>>
    /\ UNCHANGED faults

Next == \/ Announce \/ ControlThread \/ HalThread \/ ConfigThread \/ HalTimer
        \/ ClaReads \/ (\E e \in Requests : ClaAsks(e))
        \/ UploadThread \/ ModemLoads \/ DumpThread \/ Platform
        \/ WatchdogThread \/ CrmRestart

Spec == Init /\ [][Next]_vars

(***************************************************************************)
(* The scheduling: no thread is starved, the modem and the NVM manager do  *)
(* what they are told, clients want a busy modem restarted or stopped.     *)
(***************************************************************************)
Obeying == (Platform /\ ~(Hal!Misbehave)) \/ ModemLoads
Repairs == \E e \in Requests : ClaAsks(e)
RepairReady == Running /\ ~cla.pending /\ cla.seen = "BUSY"
ModemReady == ObeyReady \/ (Running /\ flasher = "writing" /\ modem = "rom")

Fairness ==
    /\ []<>(~AnnounceReady) \/ []<><<Announce>>_vars
    /\ []<>(~(Running /\ Control!Ready)) \/ []<><<ControlThread>>_vars
    /\ []<>(~(Running /\ HalReady)) \/ []<><<HalThread>>_vars
    /\ []<>(~(Running /\ ConfigReady)) \/ []<><<ConfigThread>>_vars
    /\ []<>(~TimerReady) \/ []<><<HalTimer>>_vars
    /\ []<>(~(Running /\ ClaReady)) \/ []<><<ClaReads>>_vars
    /\ []<>(~RepairReady) \/ []<><<Repairs>>_vars
    /\ []<>(~UploadReady) \/ []<><<UploadThread>>_vars
    /\ []<>(~DumpReady) \/ []<><<DumpThread>>_vars
    /\ []<>(~ModemReady) \/ []<><<Obeying>>_vars
    /\ []<>(~WatchdogReady) \/ []<><<WatchdogThread>>_vars
    /\ []<>(~RestartReady) \/ []<><<CrmRestart>>_vars

-----------------------------------------------------------------------------
HalEvents == {"EV_HAL_MDM_OFF", "EV_HAL_MDM_RUN", "EV_HAL_MDM_BUSY",
              "EV_HAL_MDM_NEED_RESET", "EV_HAL_MDM_FLASH", "EV_HAL_MDM_DUMP",
              "EV_HAL_MDM_UNRESPONSIVE"}
NoNews == \A i \in DOMAIN ctrlQ : ctrlQ[i] \notin HalEvents

(***************************************************************************)
(* As long as nothing fails outside CRM, no ASSERT of CRM fails and no     *)
(* thread waits for another until the watchdog expires.                    *)
(***************************************************************************)
AssertsHold == faults = 0 => abort = <<>>

(***************************************************************************)
(* A HAL in RUN has all it needs and nothing left to wait for: the MUX, an *)
(* NVM manager that keeps the modem's NVM, no configuring thread, no timer *)
(* and no request.                                                         *)
(***************************************************************************)
RunIsWhole ==
    hal.st = "RUN" => /\ hal.mux # "closed" /\ hal.nvm_syncing /\ hal.socket
                      /\ hal.cfg = "none" /\ ~hal.timer /\ hal.request = "NONE"

(***************************************************************************)
(* Control is UP only with a HAL in RUN, once what the two have sent to    *)
(* each other has been read.                                               *)
(***************************************************************************)
UpIsTrue == (abort = <<>> /\ cstate = "UP" /\ NoNews /\ halQ = <<>>) => hal.st = "RUN"

(***************************************************************************)
(* A running modem is not cut off from the NVM manager: once that has told *)
(* the HAL that it keeps the modem's NVM, the modem is stopped or reset    *)
(* only after it has left or has been killed.                              *)
(***************************************************************************)
Keeping == nvm \in {"started", "leaving"} /\ \A i \in DOMAIN nvmQ : nvmQ[i] # "SUCCESS"
NvmIsSafe == [][Keeping /\ modem = "run" => modem' \notin {"stopping", "resetting"}]_vars

(***************************************************************************)
(* A request is always answered, or CRM starts again.                      *)
(***************************************************************************)
Answered == cla.pending ~> ~cla.pending
=============================================================================
