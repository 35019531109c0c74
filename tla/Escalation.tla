----------------------------- MODULE Escalation -----------------------------
(***************************************************************************)
(* The escalation plugin: which recovery the modem gets after a failure.   *)
(*                                                                         *)
(* Recoveries are ordered by level: warm reset, cold reset, platform       *)
(* reboot, out of service (OOS).  A level is granted as many times as its  *)
(* configuration entry allows, then the next level with a non-zero entry   *)
(* takes over.  A modem that stays up for the stability timeout brings the *)
(* escalation back to its lowest level.  The number of platform reboots is *)
(* kept in a persistent property, so that it survives the reboots.         *)
(***************************************************************************)
EXTENDS Integers

CONSTANTS
    WarmReset,   \* TCS key "warm_reset" (optional, 0 by default)
    ColdReset,   \* TCS key "cold_reset"
    Reboot,      \* TCS key "reboot"
    Stored       \* values the persistent property may hold when CRM starts

ASSUME ConfigAssumption == /\ WarmReset \in Nat /\ ColdReset \in Nat
                           /\ Reboot \in Nat /\ Stored \subseteq Nat

IDX_WARM   == 0
IDX_COLD   == 1
IDX_REBOOT == 2
IDX_OOS    == 3
Levels     == IDX_WARM .. IDX_OOS

VARIABLES
    cfg_idx,              \* current level
    counter,              \* recoveries left at this level
    reboot_counter,       \* property persist.sys.crm@.reboot
    expired,              \* the stability timer (timer_end) is in the past
    escalation_disabled,  \* debug property, read by the initialisation
    step                  \* level returned by the last call, -1 before any

escalationVars == <<cfg_idx, counter, reboot_counter, expired, escalation_disabled, step>>

\* The configuration array, which stays zero when the escalation is disabled.
cfg(i) == <<WarmReset, ColdReset, Reboot, 0>>[i + 1]

\* Levels go_next_step may stop at when it leaves level i.
Above(i) == {j \in Levels : j > i /\ (cfg(j) > 0 \/ j = IDX_OOS)}

\* The level go_next_step stops at. It is called neither in OOS nor disabled.
go_next_step(i) == CHOOSE j \in Above(i) : \A k \in Above(i) : j <= k

\* The level crm_escalation_init starts at.
InitLevel == IF WarmReset > 0 THEN IDX_WARM ELSE go_next_step(IDX_WARM)

\* crm_escalation_init, whatever the property holds.
EscInit == /\ reboot_counter \in Stored
           /\ escalation_disabled \in BOOLEAN
           /\ cfg_idx = (IF escalation_disabled THEN IDX_WARM ELSE InitLevel)
           /\ counter = (IF escalation_disabled THEN 0 ELSE cfg(cfg_idx))
           /\ expired = FALSE
           /\ step = -1

(***************************************************************************)
(* update_reboot_counter for a property holding r.                         *)
(***************************************************************************)
update_reboot_counter(r) ==
    IF r >= (IF escalation_disabled THEN 0 ELSE Reboot)
    THEN cfg_idx' = IDX_OOS    /\ reboot_counter' = r
    ELSE cfg_idx' = IDX_REBOOT /\ reboot_counter' = r + 1

\* get_next_step while the escalation is disabled: always a cold reset.
NextStepDisabled ==
    /\ escalation_disabled
    /\ step' = IDX_COLD
    /\ UNCHANGED <<cfg_idx, counter, reboot_counter, expired,
                   escalation_disabled>>

\* get_next_step once out of service: nothing changes any more.
NextStepOOS ==
    /\ ~escalation_disabled /\ cfg_idx = IDX_OOS
    /\ step' = IDX_OOS
    /\ UNCHANGED <<cfg_idx, counter, reboot_counter, expired,
                   escalation_disabled>>

\* Mutant: an exhausted level is granted once more.
NextStepCharged_OnceMore ==
    /\ ~escalation_disabled /\ cfg_idx \notin {IDX_REBOOT, IDX_OOS}
    /\ LET left == IF expired THEN cfg(IDX_WARM) ELSE counter
           from == IF expired THEN IDX_WARM ELSE cfg_idx
       IN  /\ cfg_idx' = IF left < 0 THEN go_next_step(from) ELSE from
           /\ counter' = (IF left < 0 THEN cfg(cfg_idx') ELSE left) - 1
    /\ step' = cfg_idx' /\ expired' = FALSE
    /\ UNCHANGED <<reboot_counter, escalation_disabled>>

(***************************************************************************)
(* get_next_step below OOS.  A stability timer in the past resets level,   *)
(* counter and property first; an exhausted level is left; then the        *)
(* recovery is charged to the counter, or to the property for a reboot.    *)
(***************************************************************************)
NextStepCharged ==
    /\ ~escalation_disabled /\ cfg_idx # IDX_OOS
    /\ LET idx0 == IF expired THEN IDX_WARM ELSE cfg_idx
           cnt0 == IF expired THEN cfg(IDX_WARM) ELSE counter
           r0   == IF expired THEN 0 ELSE reboot_counter
           idx1 == IF cnt0 <= 0 THEN go_next_step(idx0) ELSE idx0
           cnt1 == IF cnt0 <= 0 THEN cfg(idx1) ELSE cnt0
       IN  IF idx1 # IDX_REBOOT
           THEN /\ cfg_idx' = idx1 /\ counter' = cnt1 - 1
                /\ reboot_counter' = r0
           ELSE /\ update_reboot_counter(r0) /\ counter' = cnt1
    /\ step' = cfg_idx'
    /\ expired' = FALSE
    /\ UNCHANGED escalation_disabled

get_next_step == NextStepDisabled \/ NextStepOOS \/ NextStepCharged

\* get_last_step: reboot now if the budget allows it. The timer is left alone.
get_last_step ==
    /\ update_reboot_counter(reboot_counter)
    /\ step' = cfg_idx'
    /\ UNCHANGED <<counter, expired, escalation_disabled>>

\* The stability timeout elapses without a recovery.
Elapse ==
    /\ ~expired /\ expired' = TRUE
    /\ UNCHANGED <<cfg_idx, counter, reboot_counter, escalation_disabled,
                   step>>

\* Mutant: the property does not survive.
Restart_Forgets ==
    /\ escalation_disabled' \in BOOLEAN
    /\ cfg_idx' = (IF escalation_disabled' THEN IDX_WARM ELSE InitLevel)
    /\ counter' = (IF escalation_disabled' THEN 0 ELSE cfg(cfg_idx'))
    /\ expired' = FALSE /\ step' = -1 /\ reboot_counter' = 0

\* CRM starts again (crash or platform reboot): only the property survives.
EscRestart == /\ escalation_disabled' \in BOOLEAN
           /\ cfg_idx' = (IF escalation_disabled' THEN IDX_WARM ELSE InitLevel)
           /\ counter' = (IF escalation_disabled' THEN 0 ELSE cfg(cfg_idx'))
           /\ expired' = FALSE
           /\ step' = -1
           /\ UNCHANGED reboot_counter

Next == get_next_step \/ get_last_step \/ Elapse \/ EscRestart

Spec == EscInit /\ [][Next]_escalationVars
=============================================================================
