------------------------------ MODULE CrmSofia ------------------------------
(***************************************************************************)
(* CRM on SoFIA: the threads of the client abstraction, of control and of  *)
(* the HAL, the worker threads of the plugins, and the platform.  Threads  *)
(* meet in the three queues only; a failing ASSERT of any of them (abort)  *)
(* ends the process and Android starts it again.                           *)
(***************************************************************************)
EXTENDS Ipc, FiniteSets

CONSTANTS WarmReset, ColdReset, Reboot, Stored,         \* Escalation
          DumpEnabled, Faults, MaxFaults, MaxUevents, MaxRpc,  \* HalSofia
          EnableFmmo, MaxClients, Bitmaps, Requests, SendsFail  \* ClientAbstraction

VARIABLES
    cstate, ctl, cfg_idx, counter, reboot_counter, expired,
    escalation_disabled, step, fw_path, flasher, flashed, tlv_pending,
    applier, applied, dumper, dumped,
    hstate, mdm_state, stopping, htimer, ping, rpcd_running, rpcQ, rpcd,
    modem, uevents, faults,
    cla,
    ctrlQ, claQ, halQ, abort

Control == INSTANCE Control
Hal     == INSTANCE HalSofia
Cla     == INSTANCE ClientAbstraction

ASSUME PlatformAssumption ==
    /\ DumpEnabled \in BOOLEAN /\ Faults \subseteq Hal!FaultKinds
    /\ MaxFaults \in Nat /\ MaxUevents \in Nat /\ MaxRpc \in Nat

ctlVars    == <<cstate, ctl>>
escVars    == <<cfg_idx, counter, reboot_counter, expired,
                escalation_disabled, step>>
uploadVars == <<fw_path, flasher, flashed>>
custoVars  == <<tlv_pending, applier, applied>>
dumpVars   == <<dumper, dumped>>
halVars    == <<hstate, mdm_state, stopping, htimer, ping, rpcd_running, rpcQ,
                rpcd, modem, uevents>>
vars       == <<faults, ctlVars, escVars, uploadVars, custoVars, dumpVars, halVars,
                cla, ctrlQ, claQ, halQ, abort>>

Init == Control!Init /\ Hal!Init /\ Cla!Init

-----------------------------------------------------------------------------
\* The threads.
ControlThread == Control!Handle /\ UNCHANGED <<halVars, cla, faults>>

ClaThread == /\ Cla!Handle
             /\ UNCHANGED <<ctlVars, escVars, uploadVars, custoVars, dumpVars,
                            halVars, halQ, faults>>

HalThread == /\ Hal!Handle
             /\ UNCHANGED <<ctlVars, escVars, uploadVars, custoVars, dumpVars,
                            cla, claQ>>

\* A worker thread succeeds, or fails for a reason outside CRM.
Outcome(End(_), success, fault) ==
    \/ End(success) /\ UNCHANGED faults
    \/ End("EV_FAILURE") /\ Hal!Fault(fault)

UploadThread ==
    /\ abort = <<>>
    /\ \/ Control!Upload!FlashBegin /\ UNCHANGED faults
       \/ Outcome(Control!Upload!FlashEnd, "EV_FW_SUCCESS", "flash")
       \/ Control!Upload!FlashNotify /\ UNCHANGED faults
    /\ UNCHANGED <<ctlVars, escVars, custoVars, dumpVars, halVars, cla, claQ,
                   halQ, abort>>

CustoThread ==
    /\ abort = <<>>
    /\ \/ Control!Custo!TlvBegin /\ UNCHANGED faults
       \/ Control!Custo!TlvNodeFails /\ Hal!Fault("tlv")
       \/ Outcome(Control!Custo!TlvEnd, "EV_FW_SUCCESS", "tlv")
       \/ Control!Custo!TlvNotify /\ UNCHANGED faults
    /\ UNCHANGED <<ctlVars, escVars, uploadVars, dumpVars, halVars, cla, halQ>>

DumpThread ==
    /\ abort = <<>>
    /\ \/ Control!Dmp!DumpBegin /\ UNCHANGED faults
       \/ Control!Dmp!DumpNodeFails /\ Hal!Fault("dump")
       \/ Outcome(Control!Dmp!DumpEnd, "EV_DUMP_SUCCESS", "dump")
       \/ Control!Dmp!DumpNotify /\ UNCHANGED faults
    /\ UNCHANGED <<ctlVars, escVars, uploadVars, custoVars, halVars, cla, halQ>>

\* The world outside CRM.
Platform == /\ Hal!Platform
            /\ UNCHANGED <<ctlVars, escVars, uploadVars, custoVars, dumpVars,
                           cla, claQ>>

Elapse == /\ abort = <<>> /\ "elapse" \in Faults /\ Control!Esc!Elapse
          /\ UNCHANGED <<ctlVars, uploadVars, custoVars, dumpVars, halVars, cla,
                         ctrlQ, claQ, halQ, abort, faults>>

-----------------------------------------------------------------------------
(***************************************************************************)
(* When each thread has something to do, and when the modem, the ping and  *)
(* the RPC daemon have: what ENABLED says of their actions.                *)
(***************************************************************************)
HalReady    == abort = <<>> /\ Hal!Source # "none"
UploadReady == abort = <<>> /\ (flasher # "idle" \/ flashed # <<>>)
CustoReady  == abort = <<>> /\ (applier # "idle" \/ applied # <<>>)
DumpReady   == abort = <<>> /\ (dumper # "idle" \/ dumped # <<>>)
ClaReady    == /\ abort = <<>>
               /\ \/ cla.drain # <<>>
                  \/ /\ cla.pos = 0
                     /\ claQ # <<>> \/ cla.timer_boot_armed \/ Cla!Waiting(cla)
ObeyReady   == /\ abort = <<>>
               /\ \/ ping = "running"
                  \/ modem \in {"turning_on", "shutting_down"} /\ uevents < MaxUevents
                  \/ rpcd \in {"starting", "killed", "restarting"} /\ Len(rpcQ) < MaxRpc

\* Mutant: the watchdog does not cover FLASHING.
WatchdogReady_NotFlashing ==
    /\ abort = <<>> /\ cstate \notin {"UP", "DOWN", "FLASHING"}
    /\ ~Control!Ready /\ ~HalReady /\ ~UploadReady /\ ~CustoReady
    /\ ~DumpReady /\ ~ClaReady /\ ~ObeyReady

(***************************************************************************)
(* The watchdog's time is longer than any other delay of the system: it    *)
(* expires only when everything else has stopped.                          *)
(***************************************************************************)
WatchdogReady == /\ abort = <<>> /\ cstate \notin {"UP", "DOWN"}
                 /\ ~Control!Ready /\ ~HalReady /\ ~UploadReady /\ ~CustoReady
                 /\ ~DumpReady /\ ~ClaReady /\ ~ObeyReady

WatchdogThread == /\ WatchdogReady /\ Control!WatchdogExpires
                  /\ UNCHANGED <<halVars, cla, faults>>

(***************************************************************************)
(* The process is started again after an ASSERT, or with the platform.     *)
(* Properties survive: the reboots counted and the TLVs applied.  The HAL  *)
(* stops the modem first, unless the platform itself has been rebooted:    *)
(* the property that tells a first start does not survive that.            *)
(***************************************************************************)
RestartReady == abort # <<>> \/ step = Control!Esc!IDX_REBOOT

CrmRestart ==
    /\ RestartReady
    /\ cstate' = "INITIAL" /\ ctl' = Control!Cleared
    /\ UNCHANGED <<escalation_disabled, tlv_pending>> /\ Control!Esc!EscRestart
    /\ fw_path' = FALSE /\ flasher' = "idle" /\ flashed' = <<>>
    /\ applier' = "idle" /\ applied' = <<>>
    /\ dumper' = "idle" /\ dumped' = <<>>
    /\ hstate' = "INITIAL" /\ stopping' = FALSE
    /\ mdm_state' \in {"EV_MDM_OFF"} \cup (IF abort = <<>> THEN {"EV_MDM_ON"} ELSE {})
    /\ modem' = (IF mdm_state' = "EV_MDM_ON" THEN "on" ELSE "off")
    /\ htimer' = FALSE /\ ping' = "none" /\ rpcd_running' = FALSE
    /\ rpcQ' = <<>> /\ rpcd' = "stopped" /\ uevents' = 0
    /\ cla' = Cla!Initial
    /\ ctrlQ' = <<>> /\ claQ' = <<>> /\ halQ' = <<>> /\ abort' = <<>>
    /\ UNCHANGED faults

Next == \/ ControlThread \/ ClaThread \/ HalThread \/ UploadThread
        \/ CustoThread \/ DumpThread \/ WatchdogThread
        \/ Platform \/ Elapse \/ CrmRestart

Spec == Init /\ [][Next]_vars

-----------------------------------------------------------------------------
(***************************************************************************)
(* The scheduling.  No thread is starved and no timer is forgotten; the    *)
(* modem and the RPC daemon obey a command; Android restarts the process.  *)
(* Clients are free to do nothing, but a round of CLA that has begun goes  *)
(* on to the descriptors poll has reported.                                *)
(***************************************************************************)
ClaWork ==
    /\ Cla!ControlMessage \/ Cla!Drained \/ Cla!BootTimeout \/ Cla!AckTimeout
    /\ UNCHANGED <<ctlVars, escVars, uploadVars, custoVars, dumpVars, halVars,
                   halQ, faults>>

Obeys == /\ \/ Hal!PingEnds("EV_MDM_RUN") \/ Hal!PingEnds("EV_TIMEOUT")
            \/ Hal!ModemStarts \/ Hal!ModemStops
            \/ Hal!RpcdStarts \/ Hal!RpcdEnds
         /\ UNCHANGED <<ctlVars, escVars, uploadVars, custoVars, dumpVars, cla,
                        claQ>>

Fairness ==
    /\ []<>(~Control!Ready) \/ []<><<ControlThread>>_vars
    /\ []<>(~HalReady) \/ []<><<HalThread>>_vars
    /\ []<>(~UploadReady) \/ []<><<UploadThread>>_vars
    /\ []<>(~CustoReady) \/ []<><<CustoThread>>_vars
    /\ []<>(~DumpReady) \/ []<><<DumpThread>>_vars
    /\ []<>(~ClaReady) \/ []<><<ClaWork>>_vars
    /\ []<>(cla.pos = 0 \/ abort # <<>>) \/ []<><<ClaThread>>_vars
    /\ []<>(~ObeyReady) \/ []<><<Obeys>>_vars
    /\ []<>(~WatchdogReady) \/ []<><<WatchdogThread>>_vars
    /\ []<>(~RestartReady) \/ []<><<CrmRestart>>_vars

-----------------------------------------------------------------------------
Count(q, S) == Cardinality({i \in DOMAIN q : q[i] \in S})

(***************************************************************************)
(* No ASSERT fails: no thread meets an event its state/event table says it *)
(* cannot meet in that state, and no asserted send finds its queue full.   *)
(***************************************************************************)
AssertsHold == abort = <<>>

CliEvents == {"EV_CLI_START", "EV_CLI_STOP", "EV_CLI_RESET", "EV_CLI_RESET_DBG",
              "EV_CLI_UPDATE", "EV_CLI_NVM_BACKUP"}
HalEvents == {"EV_HAL_MDM_OFF", "EV_HAL_MDM_RUN", "EV_HAL_MDM_BUSY",
              "EV_HAL_MDM_NEED_RESET", "EV_HAL_MDM_FLASH", "EV_HAL_MDM_DUMP",
              "EV_HAL_MDM_UNRESPONSIVE"}
StateMsgs == {"OFF", "UNRESP", "PLATFORM_REBOOT", "BUSY", "READY"}

(***************************************************************************)
(* CLA and control agree on the request being served: while CLA has one in *)
(* progress it is in exactly one place, on its way to control, with it, or *)
(* on its way back as a result; otherwise it is nowhere.  No request is    *)
(* lost, answered twice or answered without having been made.              *)
(***************************************************************************)
OneRequest ==
    abort = <<>> =>
        Count(ctrlQ, CliEvents) + Count(claQ, {"SUCCESS", "FAILURE"})
            + (IF ctl.client_request # "NONE" THEN 1 ELSE 0)
          = IF cla.request_in_progress THEN 1 ELSE 0

IsRequest(e) == e \in CliEvents

\* The modem's state as control has last announced it to CLA.
Announced == LET S == {i \in DOMAIN claQ : claQ[i] \in StateMsgs}
             IN  IF S = {} THEN cla.real_modem_state
                 ELSE claQ[CHOOSE i \in S : \A j \in S : j <= i]

(***************************************************************************)
(* All of CRM behind CLA keeps the contract CLA is written against.        *)
(***************************************************************************)
Contract ==
    INSTANCE ControlContract
      WITH serving   <- ctl.client_request,
           announced <- IF Announced = "PLATFORM_REBOOT" THEN "UNRESP" ELSE Announced,
           requests  <- SelectSeq(ctrlQ, IsRequest)
KeepsContract == Contract!Spec

(***************************************************************************)
(* A client that follows MDM_UP and MDM_DOWN and was last told MDM_UP can  *)
(* use the modem: once the messages about the modem have been read, which  *)
(* are on their way from the HAL through control to CLA, control is UP and *)
(* the HAL is in RUN.                                                      *)
(***************************************************************************)
UpIsTrue ==
    \A i \in DOMAIN cla.clients :
        (/\ abort = <<>> /\ cla.pos = 0
         /\ cla.clients[i].told = "MDM_UP"
         /\ {"MDM_UP", "MDM_DOWN"} \subseteq cla.clients[i].events_bitmap
         /\ Count(claQ, StateMsgs) = 0 /\ Count(ctrlQ, HalEvents) = 0)
        => cstate = "UP" /\ hstate = "RUN"

(***************************************************************************)
(* Between two rounds of CLA, a client that follows MDM_UP and MDM_DOWN    *)
(* has been told MDM_UP exactly while CLA shows the modem READY, which CLA *)
(* does only while control says so too.                                    *)
(***************************************************************************)
ClientsKnow ==
    (abort = <<>> /\ cla.pos = 0) =>
        /\ cla.modem_state = "READY" => cla.real_modem_state = "READY"
        /\ \A i \in DOMAIN cla.clients :
             {"MDM_UP", "MDM_DOWN"} \subseteq cla.clients[i].events_bitmap =>
                (cla.clients[i].told = "MDM_UP" <=> cla.modem_state = "READY")

(***************************************************************************)
(* The firmware is written only while the modem is off, its HAL included.  *)
(***************************************************************************)
FlashedWhileOff == flasher # "idle" => hstate = "OFF" /\ modem = "off"

(***************************************************************************)
(* While some client holds the modem, CLA eventually has it READY for its  *)
(* clients or has told them that it is out of service.                     *)
(***************************************************************************)
AcquiredGetsUp ==
    (cla.num_acquired > 0) ~>
        (cla.num_acquired = 0 \/ cla.modem_state \in {"READY", "UNRESP"})

(***************************************************************************)
(* A modem that nobody holds is eventually switched off.                   *)
(***************************************************************************)
ReleasedGetsOff ==
    (cla.num_acquired = 0) ~>
        (cla.num_acquired > 0 \/ modem \in {"off", "verify-fail"})

(***************************************************************************)
(* Whatever the clients restart or update, the modem is READY for them     *)
(* again and again, or out of service.                                     *)
(***************************************************************************)
ServiceReturns == []<>(cla.modem_state \in {"READY", "UNRESP"})

(***************************************************************************)
(* Whatever fails outside CRM, control always comes back to UP or DOWN: on *)
(* its own, or through an ASSERT, the watchdog's included, that makes      *)
(* Android start CRM again.                                                *)
(***************************************************************************)
Settles == []<>(abort = <<>> /\ cstate \in {"UP", "DOWN"})
=============================================================================
