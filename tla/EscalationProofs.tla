-------------------------- MODULE EscalationProofs --------------------------
(***************************************************************************)
(* The promises of the escalation, for every configuration and every value *)
(* of the persistent property.                                             *)
(***************************************************************************)
EXTENDS EscalationBudget, TLAPS

\* The levels are numbers.
LEMMA LevelNumbers == /\ IDX_WARM = 0 /\ IDX_COLD = 1 /\ IDX_REBOOT = 2 /\ IDX_OOS = 3
                      /\ Levels = {0, 1, 2, 3} /\ Resets = {0, 1, 2}
BY DEF IDX_WARM, IDX_COLD, IDX_REBOOT, IDX_OOS, Levels, Resets

\* The entries of the configuration.
LEMMA Entries == /\ cfg(0) = WarmReset /\ cfg(1) = ColdReset
                 /\ cfg(2) = Reboot /\ cfg(3) = 0
BY LevelNumbers DEF cfg

\* The levels an enabled escalation may go to from level i.
LEMMA AboveLevels ==
    ASSUME NEW i \in {0, 1, 2}, NEW j
    PROVE  j \in Above(i) <=>
             /\ j \in {1, 2, 3} /\ j > i
             /\ j = 1 => ColdReset > 0
             /\ j = 2 => Reboot > 0
<1>1. j \in Above(i) <=>
        j \in {0, 1, 2, 3} /\ j > i /\ (cfg(j) > 0 \/ j = 3)
  BY LevelNumbers DEF Above
<1> QED BY <1>1, Entries

(***************************************************************************)
(* go_next_step stops at the first level above i that the configuration    *)
(* grants, or at OOS.                                                      *)
(***************************************************************************)
LEMMA NextLevel ==
    ASSUME NEW i \in {0, 1, 2}, NEW j, j = go_next_step(i)
    PROVE  /\ j \in {1, 2, 3} /\ j > i
           /\ j = 1 => ColdReset > 0
           /\ j = 2 => Reboot > 0 /\ (i = 0 => ColdReset = 0)
           /\ j = 3 => (i = 0 => ColdReset = 0) /\ (i <= 1 => Reboot = 0)
<1>1. \E m \in Above(i) : \A k \in Above(i) : m <= k
  <2>1. CASE 1 \in Above(i)
    BY <2>1, AboveLevels
  <2>2. CASE 1 \notin Above(i) /\ 2 \in Above(i)
    BY <2>2, AboveLevels
  <2>3. CASE 1 \notin Above(i) /\ 2 \notin Above(i)
    BY <2>3, AboveLevels
  <2> QED BY <2>1, <2>2, <2>3
<1>2. j \in Above(i) /\ \A k \in Above(i) : j <= k
  BY <1>1 DEF go_next_step
<1> QED BY <1>2, AboveLevels, ConfigAssumption

\* The level at which an enabled escalation starts.
LEMMA StartLevel ==
    ASSUME NEW l, l = InitLevel
    PROVE  /\ l \in {0, 1, 2, 3}
           /\ l = 1 => WarmReset = 0
           /\ l = 2 => WarmReset = 0 /\ ColdReset = 0 /\ Reboot > 0
           /\ l = 3 => WarmReset = 0 /\ ColdReset = 0 /\ Reboot = 0
<1>1. CASE WarmReset > 0
  BY <1>1, LevelNumbers DEF InitLevel
<1>2. CASE ~(WarmReset > 0)
  <2>1. WarmReset = 0
    BY <1>2, ConfigAssumption
  <2>2. l = go_next_step(0)
    BY <1>2, LevelNumbers DEF InitLevel
  <2> QED BY <2>1, <2>2, NextLevel, ConfigAssumption
<1> QED BY <1>1, <1>2

(***************************************************************************)
(* What each level owes to the ones below it: they have been used up.  A   *)
(* forced step leaves the counters behind, hence the exception.            *)
(***************************************************************************)
Spent ==
    /\ cfg_idx = IDX_WARM =>
         /\ counter >= 0 /\ granted[IDX_WARM] + counter = WarmReset
         /\ granted[IDX_COLD] = 0
    /\ cfg_idx = IDX_COLD =>
         /\ counter >= 0 /\ granted[IDX_COLD] + counter = ColdReset
         /\ granted[IDX_WARM] = WarmReset
    /\ (cfg_idx = IDX_REBOOT /\ ~forced) =>
         /\ counter > 0
         /\ granted[IDX_WARM] = WarmReset /\ granted[IDX_COLD] = ColdReset
    /\ (cfg_idx = IDX_OOS /\ ~forced) =>
         /\ reboot_counter >= Reboot
         /\ granted[IDX_WARM] = WarmReset /\ granted[IDX_COLD] = ColdReset

\* The two halves of TypeOK: numbers and flags are proved apart.
Numbers == /\ cfg_idx \in {0, 1, 2, 3}
           /\ counter \in Int /\ counter >= -1
           /\ reboot_counter \in Nat
           /\ step \in {-1, 0, 1, 2, 3}
           /\ granted \in [{0, 1, 2} -> Nat]
Flags == /\ expired \in BOOLEAN /\ escalation_disabled \in BOOLEAN
         /\ forced \in BOOLEAN

Inv == /\ TypeOK /\ RebootBudget /\ ResetBudget
       /\ granted[IDX_REBOOT] <= reboot_counter
       /\ forced => cfg_idx \in {IDX_REBOOT, IDX_OOS}
       /\ ~escalation_disabled => Spent

(***************************************************************************)
(* Inv holds when CRM starts, for the first time or again.                 *)
(***************************************************************************)
Starting ==
    /\ reboot_counter \in Nat /\ escalation_disabled \in BOOLEAN
    /\ expired = FALSE /\ step = -1 /\ granted = Zero /\ forced = FALSE
    /\ cfg_idx = (IF escalation_disabled THEN IDX_WARM ELSE InitLevel)
    /\ counter = (IF escalation_disabled THEN 0 ELSE cfg(cfg_idx))

LEMMA Starts == Starting => Inv
<1> SUFFICES ASSUME Starting PROVE Inv
  OBVIOUS
<1> USE LevelNumbers, ConfigAssumption
<1>1. granted = [i \in {0, 1, 2} |-> 0] /\ reboot_counter \in Nat /\ step = -1
  BY DEF Starting, Zero
<1>2. /\ cfg_idx \in {0, 1, 2, 3} /\ counter \in Nat
      /\ ~escalation_disabled =>
           /\ cfg_idx = 0 => counter = WarmReset
           /\ cfg_idx = 1 => counter = ColdReset /\ WarmReset = 0
           /\ cfg_idx = 2 => counter > 0 /\ WarmReset = 0 /\ ColdReset = 0
           /\ cfg_idx = 3 => WarmReset = 0 /\ ColdReset = 0 /\ Reboot = 0
  <2>1. CASE escalation_disabled
    BY <2>1 DEF Starting
  <2>2. CASE ~escalation_disabled
    <3>1. cfg_idx = InitLevel /\ counter = cfg(cfg_idx)
      BY <2>2 DEF Starting
    <3>2. /\ cfg_idx \in {0, 1, 2, 3}
          /\ cfg_idx = 1 => WarmReset = 0
          /\ cfg_idx = 2 => WarmReset = 0 /\ ColdReset = 0 /\ Reboot > 0
          /\ cfg_idx = 3 => WarmReset = 0 /\ ColdReset = 0 /\ Reboot = 0
      BY <3>1, StartLevel
    <3> QED BY <3>1, <3>2, Entries
  <2> QED BY <2>1, <2>2
<1>3. TypeOK
  <2>1. Numbers
    BY <1>1, <1>2 DEF Numbers
  <2>2. Flags
    BY DEF Flags, Starting
  <2> QED BY <2>1, <2>2 DEF TypeOK, Numbers, Flags
<1>4. RebootBudget /\ ResetBudget /\ granted[IDX_REBOOT] <= reboot_counter
  BY <1>1 DEF RebootBudget, ResetBudget
<1>5. ASSUME ~escalation_disabled PROVE Spent
  BY <1>1, <1>2, <1>5 DEF Spent
<1> QED BY <1>3, <1>4, <1>5 DEF Inv, Starting

(***************************************************************************)
(* get_next_step below OOS: a stable period starts the accounts afresh, an *)
(* exhausted level hands over to the next one, and the step is charged.    *)
(***************************************************************************)
LEMMA Charged ==
    ASSUME Inv, NextStepCharged, forced' = (forced /\ ~expired),
           granted' = Granted(IF expired THEN Zero ELSE granted)
    PROVE  Inv'
<1> USE LevelNumbers, ConfigAssumption
<1> DEFINE idx0 == IF expired THEN IDX_WARM ELSE cfg_idx
           cnt0 == IF expired THEN cfg(IDX_WARM) ELSE counter
           r0   == IF expired THEN 0 ELSE reboot_counter
           g0   == IF expired THEN Zero ELSE granted
           idx1 == IF cnt0 <= 0 THEN go_next_step(idx0) ELSE idx0
           cnt1 == IF cnt0 <= 0 THEN cfg(idx1) ELSE cnt0
<1>1. Numbers /\ Flags
  BY DEF Inv, TypeOK, Numbers, Flags
<1>2. /\ ~escalation_disabled /\ cfg_idx # 3
      /\ IF idx1 # 2
         THEN cfg_idx' = idx1 /\ counter' = cnt1 - 1 /\ reboot_counter' = r0
         ELSE /\ counter' = cnt1
              /\ IF r0 >= Reboot THEN cfg_idx' = 3 /\ reboot_counter' = r0
                 ELSE cfg_idx' = 2 /\ reboot_counter' = r0 + 1
      /\ step' = cfg_idx' /\ expired' = FALSE
      /\ escalation_disabled' = escalation_disabled
      /\ granted' = [i \in {0, 1, 2} |-> IF i = cfg_idx' THEN g0[i] + 1 ELSE g0[i]]
  BY DEF NextStepCharged, update_reboot_counter, Granted
<1>3. /\ idx0 \in {0, 1, 2} /\ cnt0 \in Int /\ cnt0 >= -1 /\ r0 \in Nat
      /\ g0 \in [{0, 1, 2} -> Nat]
      /\ g0[0] <= WarmReset /\ g0[1] <= ColdReset /\ g0[2] <= Reboot
      /\ g0[2] <= r0
      /\ idx0 = 0 => cnt0 >= 0 /\ g0[0] + cnt0 = WarmReset /\ g0[1] = 0
      /\ idx0 = 1 => cnt0 >= 0 /\ g0[1] + cnt0 = ColdReset /\ g0[0] = WarmReset
      /\ (idx0 = 2 /\ ~forced') => cnt0 > 0 /\ g0[0] = WarmReset /\ g0[1] = ColdReset
      /\ forced' => idx0 = 2
  <2>1. CASE expired
    <3>1. /\ idx0 = 0 /\ cnt0 = WarmReset /\ r0 = 0 /\ ~forced'
          /\ g0 = [i \in {0, 1, 2} |-> 0]
      BY <2>1, Entries DEF Zero
    <3> QED BY <3>1
  <2>2. CASE ~expired
    <3>1. /\ idx0 = cfg_idx /\ cnt0 = counter /\ r0 = reboot_counter
          /\ g0 = granted /\ (forced' <=> forced)
      BY <2>2, <1>1 DEF Flags
    <3>2. Spent
      BY <1>2 DEF Inv
    <3> QED BY <3>1, <3>2, <1>1, <1>2 DEF Numbers, Inv, ResetBudget, Spent
  <2> QED BY <2>1, <2>2
<1>4. /\ idx1 \in {0, 1, 2, 3} /\ cnt1 \in Nat
      /\ idx1 = 0 => cnt1 > 0 /\ g0[0] + cnt1 = WarmReset /\ g0[1] = 0
      /\ idx1 = 1 => cnt1 > 0 /\ g0[1] + cnt1 = ColdReset /\ g0[0] = WarmReset
      /\ (idx1 = 2 /\ ~forced') => cnt1 > 0 /\ g0[0] = WarmReset /\ g0[1] = ColdReset
      /\ (idx1 = 3 /\ ~forced') => Reboot = 0 /\ g0[0] = WarmReset /\ g0[1] = ColdReset
      /\ forced' => idx1 \in {2, 3}
  <2> HIDE DEF idx0, cnt0, r0, g0
  <2>1. CASE cnt0 <= 0
    <3>1. idx1 = go_next_step(idx0) /\ cnt1 = cfg(idx1)
      BY <2>1
    <3> HIDE DEF idx1, cnt1
    <3>2. /\ idx1 \in {1, 2, 3} /\ idx1 > idx0
          /\ idx1 = 1 => ColdReset > 0
          /\ idx1 = 2 => Reboot > 0 /\ (idx0 = 0 => ColdReset = 0)
          /\ idx1 = 3 => (idx0 = 0 => ColdReset = 0) /\ (idx0 <= 1 => Reboot = 0)
      BY <3>1, <1>3, NextLevel
    <3>3. /\ idx1 = 1 => cnt1 = ColdReset
          /\ idx1 = 2 => cnt1 = Reboot
          /\ idx1 = 3 => cnt1 = 0
      BY <3>1, Entries
    <3> QED BY <2>1, <3>2, <3>3, <1>3
  <2>2. CASE ~(cnt0 <= 0)
    <3>1. idx1 = idx0 /\ cnt1 = cnt0
      BY <2>2
    <3> HIDE DEF idx1, cnt1
    <3> QED BY <2>2, <3>1, <1>3
  <2> QED BY <2>1, <2>2
<1> HIDE DEF idx0, cnt0, r0, g0, idx1, cnt1
<1>5. Numbers'
  <2>1. /\ cfg_idx' \in {0, 1, 2, 3} /\ counter' \in Int /\ counter' >= -1
        /\ reboot_counter' \in Nat
    BY <1>2, <1>3, <1>4
  <2>2. granted' \in [{0, 1, 2} -> Nat]
    <3>1. \A i \in {0, 1, 2} :
            (IF i = cfg_idx' THEN g0[i] + 1 ELSE g0[i]) \in Nat
      BY <1>3
    <3> QED BY <1>2, <3>1
  <2> QED BY <2>1, <2>2, <1>2 DEF Numbers
<1>6. Flags'
  BY <1>1, <1>2 DEF Flags
<1>7. /\ granted'[0] = (IF cfg_idx' = 0 THEN g0[0] + 1 ELSE g0[0])
      /\ granted'[1] = (IF cfg_idx' = 1 THEN g0[1] + 1 ELSE g0[1])
      /\ granted'[2] = (IF cfg_idx' = 2 THEN g0[2] + 1 ELSE g0[2])
  BY <1>2
<1>8. (RebootBudget /\ ResetBudget /\ granted[IDX_REBOOT] <= reboot_counter)'
  BY <1>2, <1>3, <1>4, <1>7 DEF RebootBudget, ResetBudget
<1>9. forced' => cfg_idx' \in {2, 3}
  BY <1>2, <1>4
<1>10. Spent'
  BY <1>2, <1>3, <1>4, <1>7 DEF Spent
<1> QED BY <1>5, <1>6, <1>8, <1>9, <1>10 DEF Inv, TypeOK, Numbers, Flags

(***************************************************************************)
(* get_last_step: the forced step leaves Spent behind.                     *)
(***************************************************************************)
LEMMA Forced ==
    ASSUME Inv, get_last_step, forced' = TRUE, granted' = granted
    PROVE  Inv'
<1> USE LevelNumbers, ConfigAssumption
<1>1. Numbers /\ Flags
  BY DEF Inv, TypeOK, Numbers, Flags
<1>2. /\ \/ cfg_idx' = 3 /\ reboot_counter' = reboot_counter
         \/ /\ cfg_idx' = 2 /\ reboot_counter' = reboot_counter + 1
            /\ reboot_counter < Reboot
      /\ step' = cfg_idx' /\ counter' = counter
  <2>1. CASE escalation_disabled
    BY <1>1, <2>1 DEF get_last_step, update_reboot_counter, Numbers
  <2>2. CASE ~escalation_disabled
    BY <1>1, <2>2 DEF get_last_step, update_reboot_counter, Numbers
  <2> QED BY <2>1, <2>2
<1>3. Numbers'
  BY <1>1, <1>2 DEF Numbers
<1>4. Flags' 
  BY <1>1 DEF Flags, get_last_step
<1>5. (RebootBudget /\ ResetBudget /\ granted[IDX_REBOOT] <= reboot_counter)'
  BY <1>1, <1>2 DEF Inv, Numbers, RebootBudget, ResetBudget
<1>6. Spent'
  BY <1>2 DEF Spent
<1> QED BY <1>2, <1>3, <1>4, <1>5, <1>6 DEF Inv, TypeOK, Numbers, Flags

(***************************************************************************)
(* Inv is preserved by every step of the escalation.                       *)
(***************************************************************************)
LEMMA Preserved == Inv /\ [HNext]_hvars => Inv'
<1> SUFFICES ASSUME Inv, [HNext]_hvars PROVE Inv'
  OBVIOUS
<1> USE LevelNumbers, ConfigAssumption
<1>1. CASE get_next_step /\ escalation_disabled /\ UNCHANGED <<granted, forced>>
  BY <1>1 DEF get_next_step, NextStepDisabled, NextStepOOS, NextStepCharged, Inv,
              TypeOK, RebootBudget, ResetBudget
<1>2. CASE /\ get_next_step /\ ~escalation_disabled /\ cfg_idx = IDX_OOS
           /\ granted' = Granted(granted) /\ forced' = forced
  <2>1. NextStepOOS
    BY <1>2 DEF get_next_step, NextStepDisabled, NextStepCharged
  <2>2. granted' = granted
    BY <1>2, <2>1 DEF NextStepOOS, Granted, Inv, TypeOK
  <2> QED BY <1>2, <2>1, <2>2 DEF NextStepOOS, Inv, TypeOK, RebootBudget,
                                  ResetBudget, Spent
<1>3. CASE /\ get_next_step /\ ~escalation_disabled /\ cfg_idx # IDX_OOS
           /\ granted' = Granted(IF expired THEN Zero ELSE granted)
           /\ forced' = (forced /\ ~expired)
  <2>1. NextStepCharged
    BY <1>3 DEF get_next_step, NextStepDisabled, NextStepOOS
  <2> QED BY <1>3, <2>1, Charged
<1>4. CASE get_last_step /\ forced' = TRUE /\ UNCHANGED granted
  BY <1>4, Forced
<1>5. CASE Elapse /\ UNCHANGED <<granted, forced>>
  BY <1>5 DEF Elapse, Inv, TypeOK, RebootBudget, ResetBudget, Spent
<1>6. CASE EscRestart /\ granted' = Zero /\ forced' = FALSE
  <2>1. Starting'
    BY <1>6 DEF EscRestart, Starting, Inv, TypeOK
  <2> QED BY <2>1, Starts, PTL
<1>7. CASE UNCHANGED hvars
  BY <1>7 DEF hvars, Inv, TypeOK, RebootBudget, ResetBudget, Spent
<1>8. CASE HNext
  <2>1. ASSUME get_next_step, ~escalation_disabled, cfg_idx = IDX_OOS,
               forced' = (forced /\ ~(expired /\ cfg_idx # IDX_OOS))
        PROVE  forced' = forced
    BY <2>1 DEF Inv, TypeOK
  <2> QED BY <1>1, <1>2, <1>3, <1>4, <1>5, <1>6, <1>8, <2>1 DEF HNext
<1> QED BY <1>7, <1>8

\* Inv holds in every reachable state.
LEMMA Invariance == HSpec => []Inv
<1>1. HInit => Inv
  <2>1. HInit => Starting
    BY ConfigAssumption DEF HInit, EscInit, Starting
  <2> QED BY <2>1, Starts
<1> QED BY <1>1, Preserved, PTL DEF HSpec

-----------------------------------------------------------------------------
(***************************************************************************)
(* Level, counters and history keep their types for every configuration;   *)
(* in particular the counter of a level never goes below -1.               *)
(***************************************************************************)
THEOREM TypeCorrect == HSpec => []TypeOK
<1>1. Inv => TypeOK
  BY DEF Inv
<1> QED BY <1>1, Invariance, PTL

(***************************************************************************)
(* update_reboot_counter bounds the platform reboots for every             *)
(* configuration, every stored value and any number of restarts of CRM.    *)
(***************************************************************************)
THEOREM RebootsAreBounded == HSpec => []RebootBudget
<1>1. Inv => RebootBudget
  BY DEF Inv
<1> QED BY <1>1, Invariance, PTL

(***************************************************************************)
(* get_next_step grants no level more often than its entry says, between   *)
(* two stable periods or restarts of CRM, for every configuration.         *)
(***************************************************************************)
THEOREM ResetsAreBounded == HSpec => []ResetBudget
<1>1. Inv => ResetBudget
  BY DEF Inv
<1> QED BY <1>1, Invariance, PTL

(***************************************************************************)
(* get_next_step declares the modem out of service only when warm resets,  *)
(* cold resets and reboots are all used up, for every configuration.       *)
(***************************************************************************)
THEOREM OosComesLast == HSpec => []OosIsLast
<1>1. Inv => OosIsLast
  BY LevelNumbers DEF Inv, OosIsLast, Spent
<1> QED BY <1>1, Invariance, PTL

(***************************************************************************)
(* The level never goes down without a stable period, a restart of CRM or  *)
(* get_last_step.                                                          *)
(***************************************************************************)
THEOREM LevelsClimb == HSpec => LevelClimbs
<1> USE LevelNumbers, ConfigAssumption
<1>1. ASSUME Inv, [HNext]_hvars, cfg_idx' < cfg_idx
      PROVE  (expired /\ cfg_idx # IDX_OOS) \/ step' = -1 \/ forced'
  <2>1. cfg_idx \in {0, 1, 2, 3}
    BY <1>1 DEF Inv, TypeOK
  <2>2. CASE NextStepCharged /\ ~expired
    <3> DEFINE idx == IF counter <= 0 THEN go_next_step(cfg_idx) ELSE cfg_idx
    <3>1. cfg_idx \in {0, 1, 2} /\ idx >= cfg_idx /\ idx \in {0, 1, 2, 3}
      BY <2>1, <2>2, NextLevel DEF NextStepCharged
    <3>2. cfg_idx' = idx \/ (idx = 2 /\ cfg_idx' = 3)
      BY <2>2 DEF NextStepCharged, update_reboot_counter
    <3> HIDE DEF idx
    <3> QED BY <1>1, <3>1, <3>2
  <2>3. CASE get_next_step /\ ~(NextStepCharged /\ ~expired)
    BY <1>1, <2>1, <2>3 DEF get_next_step, NextStepDisabled, NextStepOOS,
                            NextStepCharged
  <2>4. CASE ~get_next_step
    BY <1>1, <2>1, <2>4 DEF HNext, hvars, Elapse, EscRestart
  <2> QED BY <2>2, <2>3, <2>4
<1>2. Inv /\ [HNext]_hvars =>
        [cfg_idx' < cfg_idx =>
           (expired /\ cfg_idx # IDX_OOS) \/ step' = -1 \/ forced']_hvars
  BY <1>1
<1> QED BY <1>2, Invariance, PTL DEF HSpec, LevelClimbs
=============================================================================
