--------------------------- MODULE WakelockProofs ---------------------------
(***************************************************************************)
(* The safety properties of the wakelock of the Android build, for any     *)
(* modules and any number of acquisitions.                                 *)
(***************************************************************************)
EXTENDS WakelockAndroid, TLAPS

AType == /\ counterMap \in [Modules -> Nat]
         /\ toAcquire \in BOOLEAN /\ connecting \in BOOLEAN /\ token \in BOOLEAN
         /\ powerManager \in {"NULL", "live", "dead"}
         /\ connector \in {"none", "checks", "found"}
         /\ pm \in BOOLEAN /\ lock \in BOOLEAN /\ obituary \in BOOLEAN
         /\ fault \in {""} \cup AFaults

(***************************************************************************)
(* What the two properties rest on: a wakelock that is asked for and not   *)
(* held is sought by the connecting thread; that thread runs only without  *)
(* a power manager; and a token is only kept with a live one.              *)
(***************************************************************************)
Sound == /\ abort = "" /\ ~obituary
         /\ toAcquire <=> isHeld(counterMap)
         /\ token <=> lock
         /\ token => toAcquire /\ powerManager = "live"
         /\ powerManager \in {"NULL", "live"} /\ (powerManager = "live" => pm)
         /\ connecting <=> connector # "none"
         /\ connecting => powerManager = "NULL"
         /\ connector = "found" => pm
         /\ toAcquire /\ ~token => connecting

AInv == AType /\ (fault \in {"", "refuse"} => Sound)

-----------------------------------------------------------------------------
LEMMA AInitially == AInit => AInv
<1> SUFFICES ASSUME AInit PROVE AInv
  OBVIOUS
<1>1. counterMap \in [Modules -> Nat] /\ ~isHeld(counterMap)
  <2>1. counterMap = [m \in Modules |-> 0]
    BY DEF AInit
  <2>2. \A m \in Modules : counterMap[m] = 0
    BY <2>1
  <2>3. ~isHeld(counterMap)
    BY <2>2 DEF isHeld
  <2> QED BY <2>1, <2>3
<1> QED BY <1>1 DEF AInit, AInv, AType, Sound

\* acquire() of the mux: only the first acquisition reaches the service.
LEMMA AcquireKeeps ==
    ASSUME AInv, NEW m \in Modules, acquire(m)
    PROVE  AInv'
<1>1. counterMap' \in [Modules -> Nat] /\ isHeld(counterMap')
  <2>1. counterMap \in [Modules -> Nat] /\ counterMap[m] \in Nat
    BY DEF AInv, AType
  <2>2. counterMap' = [counterMap EXCEPT ![m] = counterMap[m] + 1]
    BY DEF acquire
  <2>3. counterMap' \in [Modules -> Nat] /\ counterMap'[m] > 0
    BY <2>1, <2>2
  <2> QED BY <2>3 DEF isHeld
<1>2. CASE isHeld(counterMap)
  BY <1>1, <1>2 DEF acquire, service, AInv, AType, Sound, Runs, AFaults
<1>3. CASE ~isHeld(counterMap)
  <2>1. CASE fault \notin {"", "refuse"}
    BY <1>1, <1>3, <2>1 DEF acquire, service_acquire, acquireWakelockWithLock,
       startConnectThreadWithLock, Aborts, Fails, service, AInv, AType, AFaults
  <2>2. CASE fault \in {"", "refuse"}
    BY <1>1, <1>3, <2>2 DEF acquire, service_acquire, acquireWakelockWithLock,
       startConnectThreadWithLock, Aborts, Fails, service, AInv, AType, Sound, AFaults
  <2> QED BY <2>1, <2>2
<1> QED BY <1>2, <1>3

\* release() of the mux: only the last one reaches the service.
LEMMA ReleaseKeeps ==
    ASSUME AInv, NEW m \in Modules, release(m)
    PROVE  AInv'
<1>1. counterMap' \in [Modules -> Nat] /\ isHeld(counterMap)
  <2>1. counterMap \in [Modules -> Nat] /\ counterMap[m] \in Nat
    BY DEF AInv, AType
  <2>2. counterMap' = [counterMap EXCEPT ![m] = counterMap[m] - 1] /\ counterMap[m] > 0
    BY DEF release
  <2>3. counterMap' \in [Modules -> Nat]
    BY <2>1, <2>2
  <2> QED BY <2>2, <2>3 DEF isHeld
<1>2. CASE isHeld(counterMap')
  BY <1>1, <1>2 DEF release, service, AInv, AType, Sound, Runs, AFaults
<1>3. CASE ~isHeld(counterMap')
  BY <1>1, <1>3 DEF release, releaseWakelockWithLock, Aborts, service, AInv, AType,
     Sound, AFaults
<1> QED BY <1>2, <1>3

\* The thread that looks for the power manager.
LEMMA ConnectorKeeps ==
    ASSUME AInv, Checks \/ GivesUp \/ connectAndAcquire
    PROVE  AInv'
<1>1. CASE Checks
  BY <1>1 DEF Checks, AInv, AType, Sound, AFaults, isHeld
<1>2. CASE GivesUp
  BY <1>2 DEF GivesUp, Fails, service, AInv, AType, AFaults
<1>3. CASE connectAndAcquire
  BY <1>3 DEF connectAndAcquire, acquireWakelockWithLock, startConnectThreadWithLock,
     Fails, Handle, AInv, AType, Sound, AFaults, isHeld
<1> QED BY <1>1, <1>2, <1>3

\* The power manager, its obituary and the destructor: faults, except its start.
LEMMA OutsideKeeps ==
    ASSUME AInv, clearPowerManager \/ Dispose \/ PmStarts \/ PmDies
    PROVE  AInv'
<1>1. CASE clearPowerManager
  BY <1>1 DEF clearPowerManager, releaseWakelockWithLock, Aborts, service, AInv, AType,
     Sound, AFaults
<1>2. CASE Dispose
  BY <1>2 DEF Dispose, releaseWakelockWithLock, Aborts, Fails, service, AInv, AType, AFaults
<1>3. CASE PmStarts
  BY <1>3 DEF PmStarts, service, AInv, AType, Sound, AFaults, isHeld
<1>4. CASE PmDies
  BY <1>4 DEF PmDies, Fails, AInv, AType, AFaults
<1> QED BY <1>1, <1>2, <1>3, <1>4

LEMMA AInvariance == ASpec => []AInv
<1>1. AInit => AInv
  BY AInitially
<1>2. AInv /\ [ANext]_avars => AInv'
  <2> SUFFICES ASSUME AInv, [ANext]_avars PROVE AInv'
    OBVIOUS
  <2>1. CASE \E m \in Modules : acquire(m) \/ release(m)
    BY <2>1, AcquireKeeps, ReleaseKeeps
  <2>2. CASE Checks \/ GivesUp \/ connectAndAcquire
    BY <2>2, ConnectorKeeps
  <2>3. CASE clearPowerManager \/ Dispose \/ PmStarts \/ PmDies
    BY <2>3, OutsideKeeps
  <2>4. CASE UNCHANGED avars
    BY <2>4 DEF avars, service, AInv, AType, Sound, isHeld
  <2> QED BY <2>1, <2>2, <2>3, <2>4 DEF ANext
<1> QED BY <1>1, <1>2, PTL DEF ASpec

(***************************************************************************)
(* For any modules: no assertion of CrmWakelockServiceAndroid fails as     *)
(* long as the power manager does not die, appears in time and the         *)
(* wakelock is not disposed of.                                            *)
(***************************************************************************)
THEOREM AssertionsHold == ASpec => []AndroidAsserts
<1>1. AInv => AndroidAsserts
  BY DEF AInv, Sound, AndroidAsserts
<1> QED BY <1>1, AInvariance, PTL

(***************************************************************************)
(* For any modules: CRM asks the power manager for the wakelock exactly    *)
(* while a module holds it, and has it when it has a token.                *)
(***************************************************************************)
THEOREM HeldIsAsked == ASpec => []AskedIsHeld
<1>1. AInv => AskedIsHeld
  BY DEF AInv, AType, Sound, AskedIsHeld, isHeld
<1> QED BY <1>1, AInvariance, PTL
=============================================================================
