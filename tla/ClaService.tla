----------------------------- MODULE ClaService -----------------------------
(***************************************************************************)
(* CLA with its clients, in front of any control that keeps the contract.  *)
(***************************************************************************)
EXTENDS ClientAbstraction

CONSTANT MaxMsgs   \* bound on unread messages of control

VARIABLES serving, announced

Contract == INSTANCE ControlContract WITH requests <- ctrlQ

claVars == <<cla, ctrlQ, claQ, abort, serving, announced>>

SInit == Contract!Init /\ Init

ControlStep == /\ Contract!Continue \/ Contract!Take
               /\ Len(claQ') <= MaxMsgs
               /\ UNCHANGED cla

SNext == ControlStep \/ (Handle /\ UNCHANGED <<serving, announced>>)

SSpec == SInit /\ [][SNext]_claVars

-----------------------------------------------------------------------------
Clients == DOMAIN cla.clients

(***************************************************************************)
(* The counters CLA decides by are those of its list of clients, through   *)
(* lost connections, late acknowledgements and time-outs.                  *)
(***************************************************************************)
CountersExact ==
    /\ cla.num_acquired = Flagged(cla, Clients, "acquired")
                          + (IF EnableFmmo THEN 0 ELSE 1)
    /\ cla.num_waiting_cold_reset_ack
         = Flagged(cla, Clients, "waiting_cold_reset_ack")
    /\ cla.num_waiting_shutdown_ack
         = Flagged(cla, Clients, "waiting_shutdown_ack")

(***************************************************************************)
(* The wakelock is held as long as a timer runs: for the boot, or for the  *)
(* acknowledgements of the clients (the ASSERT of main_loop on a timeout). *)
(***************************************************************************)
AwakeWhileWaiting == (Waiting(cla) \/ cla.timer_boot_armed) => cla.wakelock

(***************************************************************************)
(* Between two rounds, acknowledgements are awaited only in the state made *)
(* for them: CLA moves on when the last client has answered, left or timed *)
(* out, and not before.                                                    *)
(***************************************************************************)
WaitsInAckStates ==
    (abort = <<>> /\ cla.pos = 0 /\ cla.drain = <<>>) =>
        /\ cla.num_waiting_cold_reset_ack > 0 => cla.fsm = "ACK_WAITING_COLD"
        /\ cla.num_waiting_shutdown_ack > 0 => cla.fsm = "ACK_WAITING_SHTDWN"
=============================================================================
