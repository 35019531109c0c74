-------------------------- MODULE EscalationBudget --------------------------
(***************************************************************************)
(* The escalation with the history its promises are about: how often each  *)
(* level was granted since the escalation last started from its bottom.    *)
(***************************************************************************)
EXTENDS Escalation

VARIABLES
    granted,  \* recoveries granted by get_next_step, by level
    forced    \* get_last_step was called

hvars == <<cfg_idx, counter, reboot_counter, expired, escalation_disabled,
           step, granted, forced>>

Resets == IDX_WARM .. IDX_REBOOT
Zero   == [i \in Resets |-> 0]

HInit == EscInit /\ granted = Zero /\ forced = FALSE

Granted(base) ==
    [i \in Resets |-> IF i = step' THEN base[i] + 1 ELSE base[i]]

HNext ==
    \/ /\ get_next_step
       /\ IF escalation_disabled
          THEN UNCHANGED <<granted, forced>>
          ELSE LET fresh == expired /\ cfg_idx # IDX_OOS
               IN  /\ granted' = Granted(IF fresh THEN Zero ELSE granted)
                   /\ forced' = (forced /\ ~fresh)
    \/ get_last_step /\ forced' = TRUE /\ UNCHANGED granted
    \/ Elapse /\ UNCHANGED <<granted, forced>>
    \/ EscRestart /\ granted' = Zero /\ forced' = FALSE

HSpec == HInit /\ [][HNext]_hvars

-----------------------------------------------------------------------------
(***************************************************************************)
(* The values each variable takes.  The counter of an exhausted level is   *)
(* left at zero, and at -1 once get_next_step has reached OOS.             *)
(***************************************************************************)
TypeOK ==
    /\ cfg_idx \in Levels
    /\ counter \in Int /\ counter >= -1
    /\ reboot_counter \in Nat
    /\ expired \in BOOLEAN /\ escalation_disabled \in BOOLEAN
    /\ step \in Levels \cup {-1}
    /\ granted \in [Resets -> Nat]
    /\ forced \in BOOLEAN

(***************************************************************************)
(* A platform reboot is only ever granted with the persistent count within *)
(* the configured number of reboots, whatever the property held when CRM   *)
(* started and however often CRM was restarted in between.                 *)
(***************************************************************************)
RebootBudget == step = IDX_REBOOT => reboot_counter \in 1 .. Reboot

(***************************************************************************)
(* Without a stable period or a restart of CRM, get_next_step grants no    *)
(* level more often than its configuration entry says.                     *)
(***************************************************************************)
ResetBudget == /\ granted[IDX_WARM] <= WarmReset
               /\ granted[IDX_COLD] <= ColdReset
               /\ granted[IDX_REBOOT] <= Reboot

(***************************************************************************)
(* get_next_step declares the modem out of service only when every reset   *)
(* and every reboot of the configuration has been used; get_last_step is   *)
(* the one way to skip the resets.                                         *)
(***************************************************************************)
OosIsLast ==
    (cfg_idx = IDX_OOS /\ ~escalation_disabled /\ ~forced) =>
        /\ granted[IDX_WARM] = WarmReset
        /\ granted[IDX_COLD] = ColdReset
        /\ reboot_counter >= Reboot

(***************************************************************************)
(* The level goes down only through a stable period below OOS, a restart   *)
(* of CRM or an explicit request for the last step; in particular OOS, as  *)
(* declared by get_next_step, is final.                                    *)
(***************************************************************************)
LevelClimbs ==
    [][cfg_idx' < cfg_idx =>
         (expired /\ cfg_idx # IDX_OOS) \/ step' = -1 \/ forced']_hvars

-----------------------------------------------------------------------------
(***************************************************************************)
(* A modem that never comes back: recoveries keep being requested, no      *)
(* stable period occurs, and a granted reboot restarts CRM.                *)
(***************************************************************************)
Failing == /\ HNext
           /\ \/ get_next_step /\ step # IDX_REBOOT
              \/ EscRestart /\ step = IDX_REBOOT

(***************************************************************************)
(* Whatever happened before, a modem that fails for ever from some point   *)
(* on, while the escalation is enabled, is eventually declared out of      *)
(* service, for good.                                                      *)
(***************************************************************************)
ReachesOOS ==
    <>[]~escalation_disabled /\ <>[][Failing]_hvars /\ WF_hvars(Failing)
        => <>[](step = IDX_OOS)
=============================================================================
