------------------------------ MODULE MCSofia ------------------------------
(***************************************************************************)
(* Model-checking instances of CRM on SoFIA.                               *)
(***************************************************************************)
EXTENDS CrmSofia

AllEvents == {"MDM_DOWN", "MDM_UP", "MDM_OOS", "MDM_COLD_RESET", "MDM_SHUTDOWN",
              "MDM_DBG_INFO"}
Followers == {AllEvents}
Mixed     == {AllEvents, {"MDM_DOWN", "MDM_UP"}}

\* CRM starts; if the modem is on, the hashes of the TLVs are not readable yet.
NominalInit == Init /\ (tlv_pending => modem = "off")
NominalSpec == NominalInit /\ [][Next]_vars /\ Fairness

(***************************************************************************)
(* One client has connected and registered before the first message of     *)
(* control, and the boot time of CLA is over.                              *)
(***************************************************************************)
Registered == [Cla!NewClient EXCEPT !.registered = TRUE,
                                    !.events_bitmap = AllEvents]
FaultInit == /\ Control!Init /\ Hal!Init
             /\ ~escalation_disabled
             /\ cla = [Cla!Initial EXCEPT !.timer_boot_armed = FALSE,
                                          !.wakelock = FALSE,
                                          !.clients = <<Registered>>]
FaultSpec == FaultInit /\ [][Next]_vars
FairFaultSpec == FaultSpec /\ Fairness

-----------------------------------------------------------------------------
(***************************************************************************)
(* What single ASSERTs of the code say cannot happen.                      *)
(***************************************************************************)

(***************************************************************************)
(* cla_fsm_array: a client's restart request is not met in STOPPING.  The  *)
(* request is accepted as long as real_modem_state is READY.               *)
(***************************************************************************)
NoRestartInStopping == abort # <<"cla", "EV_CLI_RESTART", "STOPPING">>

(***************************************************************************)
(* handle_client_unregister: the clients that leave have been counted.     *)
(***************************************************************************)
LeaversAreCounted == abort = <<>> \/ abort[2] # "unregister"
=============================================================================
