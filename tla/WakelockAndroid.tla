-------------------------- MODULE WakelockAndroid --------------------------
(***************************************************************************)
(* The wakelock of CRM in the build that calls the power manager itself.   *)
(* CrmWakelockMux counts the acquisitions of each module under its mutex,  *)
(* and asks CrmWakelockServiceAndroid for the wakelock of the platform     *)
(* when the first module needs it; that class finds the power manager in a *)
(* thread of its own, and is told of its death by a thread of the binder.  *)
(* The power manager is external.                                          *)
(***************************************************************************)
EXTENDS Integers, FiniteSets

CONSTANTS
    Modules,    \* users of the wakelock in CRM
    MaxCount    \* bound on the acquisitions of a module

VARIABLES
    counterMap,    \* _counterMap, with 0 for a module it does not hold
    toAcquire,     \* _toAcquire
    connecting,    \* _connecting
    powerManager,  \* _powerManager: "NULL", "live" or, once it has died, "dead"
    token,         \* _suspendBlockToken # NULL
    connector,     \* connectAndAcquire: "none", "checks" or "found" it
    pm,            \* the power manager runs
    lock,          \* it holds the wakelock for CRM
    obituary,      \* binderDied() is still to be called
    fault,         \* what has gone wrong, or ""
    abort          \* the assertion that has failed, or ""

service == <<toAcquire, connecting, powerManager, token, connector>>
avars   == <<counterMap, service, pm, lock, obituary, fault, abort>>

AFaults == {"refuse",    \* acquireWakeLock() fails
            "death",     \* the power manager dies
            "missing",   \* no power manager in 200 attempts
            "dispose"}   \* the wakelock is disposed of

AInit == /\ counterMap = [m \in Modules |-> 0]
         /\ toAcquire = FALSE /\ connecting = FALSE /\ powerManager = "NULL"
         /\ token = FALSE /\ connector = "none"
         /\ pm \in BOOLEAN /\ lock = FALSE /\ obituary = FALSE
         /\ fault = "" /\ abort = ""

Fails(kind) == fault = "" /\ fault' = kind
Runs        == abort = "" /\ fault # "dispose"
isHeld(map) == \E m \in Modules : map[m] > 0

\* ASSERT()
Aborts(what) == abort' = what /\ UNCHANGED <<service, lock>>

-----------------------------------------------------------------------------
\* startConnectThreadWithLock(), after an attempt that has failed or not.
startConnectThreadWithLock ==
    /\ connecting' = TRUE /\ connector' = "checks" /\ powerManager' = "NULL"
    /\ UNCHANGED <<token, lock>>

\* acquireWakelockWithLock(), of a power manager in this state.
acquireWakelockWithLock(handle) ==
    \/ /\ handle = "live" /\ powerManager' = handle
       /\ token' = TRUE /\ lock' = TRUE
       /\ connecting' = FALSE /\ connector' = "none" /\ UNCHANGED fault
    \/ /\ IF handle = "live" THEN Fails("refuse") ELSE UNCHANGED fault
       /\ startConnectThreadWithLock

\* CrmWakelockServiceAndroid::acquire()
service_acquire ==
    IF token \/ toAcquire THEN Aborts("acquire") /\ UNCHANGED fault
    ELSE /\ toAcquire' = TRUE /\ UNCHANGED abort
         /\ IF powerManager # "NULL" THEN acquireWakelockWithLock(powerManager)
            ELSE IF ~connecting THEN startConnectThreadWithLock /\ UNCHANGED fault
            ELSE UNCHANGED <<connecting, powerManager, token, connector, lock, fault>>

\* releaseWakelockWithLock(), and the power manager that is left after it.
releaseWakelockWithLock(handle) ==
    IF ~toAcquire THEN Aborts("release")
    ELSE IF token /\ powerManager = "NULL" THEN Aborts("power manager")
    ELSE /\ toAcquire' = FALSE /\ token' = FALSE
         /\ lock' = (lock /\ ~token) /\ powerManager' = handle
         /\ UNCHANGED <<connecting, connector, abort>>

-----------------------------------------------------------------------------
\* CrmWakelockMux::acquire() and release().
acquire(m) ==
    /\ Runs /\ counterMap[m] < MaxCount
    /\ counterMap' = [counterMap EXCEPT ![m] = @ + 1]
    /\ IF ~isHeld(counterMap) THEN service_acquire
       ELSE UNCHANGED <<service, lock, fault, abort>>
    /\ UNCHANGED <<pm, obituary>>

release(m) ==
    /\ Runs /\ counterMap[m] > 0
    /\ counterMap' = [counterMap EXCEPT ![m] = @ - 1]
    /\ IF ~isHeld(counterMap') THEN releaseWakelockWithLock(powerManager)
       ELSE UNCHANGED <<service, lock, abort>>
    /\ UNCHANGED <<pm, obituary, fault>>

\* connectAndAcquire(): up to 200 looks for the service, half a second apart,
\* and then what is done under the lock.
Checks == /\ Runs /\ connector = "checks" /\ pm
          /\ IF powerManager = "NULL"
             THEN connector' = "found" /\ UNCHANGED abort
             ELSE abort' = "connect" /\ UNCHANGED connector
          /\ UNCHANGED <<counterMap, toAcquire, connecting, powerManager, token, pm,
                         lock, obituary, fault>>

GivesUp == /\ Runs /\ connector = "checks" /\ ~pm /\ Fails("missing")
           /\ abort' = "binder"
           /\ UNCHANGED <<counterMap, service, pm, lock, obituary>>

Handle == IF pm THEN "live" ELSE "dead"

connectAndAcquire_Forgets ==   \* mutant
    /\ Runs /\ connector = "found"
    /\ powerManager' = Handle /\ connecting' = FALSE /\ connector' = "none"
    /\ UNCHANGED <<token, lock, fault, counterMap, toAcquire, pm, obituary, abort>>

connectAndAcquire ==
    /\ Runs /\ connector = "found"
    /\ IF toAcquire THEN acquireWakelockWithLock(Handle)
       ELSE /\ powerManager' = Handle /\ connecting' = FALSE /\ connector' = "none"
            /\ UNCHANGED <<token, lock, fault>>
    /\ UNCHANGED <<counterMap, toAcquire, pm, obituary, abort>>

\* clearPowerManager(), called by PMDeathRecipient::binderDied().
clearPowerManager ==
    /\ Runs /\ obituary /\ obituary' = FALSE
    /\ IF toAcquire THEN releaseWakelockWithLock("NULL")
       ELSE powerManager' = "NULL"
            /\ UNCHANGED <<toAcquire, connecting, token, connector, lock, abort>>
    /\ UNCHANGED <<counterMap, pm, fault>>

\* The destructor: it releases the wakelock, whether it is held or not.
Dispose ==
    /\ Runs /\ Fails("dispose")
    /\ IF powerManager = "NULL" THEN Aborts("power manager")
       ELSE releaseWakelockWithLock("NULL")
    /\ counterMap' = [m \in Modules |-> 0]
    /\ UNCHANGED <<pm, obituary>>

\* The power manager starts, and may die: its wakelocks go with it.  (There is
\* at most one fault, so that _powerManager is the only one linked to.)
PmStarts == /\ ~pm /\ pm' = TRUE
            /\ UNCHANGED <<counterMap, service, lock, obituary, fault, abort>>

PmDies == /\ pm /\ Fails("death") /\ pm' = FALSE /\ lock' = FALSE
          /\ obituary' = (powerManager = "live")
          /\ powerManager' = IF powerManager = "live" THEN "dead" ELSE powerManager
          /\ UNCHANGED <<counterMap, toAcquire, connecting, token, connector, abort>>

ANext == \/ \E m \in Modules : acquire(m) \/ release(m)
         \/ Checks \/ GivesUp \/ connectAndAcquire \/ clearPowerManager
         \/ Dispose \/ PmStarts \/ PmDies

ASpec == AInit /\ [][ANext]_avars

-----------------------------------------------------------------------------
(***************************************************************************)
(* No assertion of the two classes fails as long as the power manager does *)
(* not die, appears in time and the wakelock is not disposed of; a refusal *)
(* of the power manager does not matter.                                   *)
(***************************************************************************)
AndroidAsserts == abort # "" => fault \notin {"", "refuse"}

(***************************************************************************)
(* The class asks for the wakelock exactly while a module holds it, and a  *)
(* token stands for a wakelock that the power manager holds for CRM.       *)
(***************************************************************************)
AskedIsHeld == fault \in {"", "refuse"} => /\ toAcquire = isHeld(counterMap)
                                           /\ token = lock /\ (token => toAcquire)

(***************************************************************************)
(* The platform follows CRM, unless the power manager dies: a power        *)
(* manager that starts late or refuses once only delays it.                *)
(***************************************************************************)
Excused == fault \notin {"", "refuse"}

AndroidLockFollows ==
    /\ isHeld(counterMap) ~> (lock \/ ~isHeld(counterMap) \/ Excused)
    /\ ~isHeld(counterMap) ~> (~lock \/ isHeld(counterMap) \/ Excused)
=============================================================================
