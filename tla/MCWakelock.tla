----------------------------- MODULE MCWakelock -----------------------------
(***************************************************************************)
(* Instances of the wakelock and the bridge.  A behaviour is one of five:  *)
(* one module and every fault; an intent of any size and every fault; two  *)
(* intents, one connection cut or the application gone; two modules at     *)
(* once; and a module beside an intent that the application never finishes *)
(* reading.  Two models that share nothing with it are checked beside it:  *)
(* the other build of the wakelock, and the escalation.  build says which  *)
(* of the three a behaviour is about.                                      *)
(***************************************************************************)
EXTENDS Wakelock, EscalationBudget

VARIABLES build, counterMap, toAcquire, connecting, powerManager, token, connector,
          pm, lock, obituary, fault, abort

A == INSTANCE WakelockAndroid

android == <<counterMap, toAcquire, connecting, powerManager, token, connector,
             pm, lock, obituary, fault, abort>>
all == <<build, vars, android, hvars>>

MCScenarios ==
    {[modules |-> {1}, sizes |-> {}, intents |-> 0, faults |-> BridgeFaults],
     [modules |-> {}, sizes |-> Intents, intents |-> 1, faults |-> BridgeFaults],
     [modules |-> {}, sizes |-> {"short"}, intents |-> 2, faults |-> {"java", "partial"}],
     [modules |-> Modules, sizes |-> {}, intents |-> 0, faults |-> {}],
     [modules |-> {1}, sizes |-> {"long"}, intents |-> 1, faults |-> {}]}

BuildInit == /\ build \in {"java", "android", "escalation"}
             /\ WInit /\ A!AInit /\ HInit
             /\ build # "java" => scenario.modules = Modules
             /\ build # "android" => pm
             /\ build # "escalation" => reboot_counter = 0 /\ escalation_disabled

BuildNext == \/ build = "java" /\ WNext /\ UNCHANGED <<build, android, hvars>>
             \/ build = "android" /\ A!ANext /\ UNCHANGED <<build, vars, hvars>>
             \/ build = "escalation" /\ HNext /\ UNCHANGED <<build, vars, android>>

\* The daemon, the application, the thread and a module between its two steps
\* go on; the daemon serves every descriptor that is ready in each turn of its
\* loop.  It looks at its timeouts only in a turn in which none is ready: its
\* clients are not so busy that this never happens after the five seconds.  In
\* the other build the power manager starts, and the threads that connect to it
\* and hear of its death go on.
InJava    == build = "java" /\ UNCHANGED <<build, wakeVars, android, hvars>>
InAndroid == build = "android" /\ UNCHANGED <<build, vars, hvars>>

BuildSpec ==
    /\ BuildInit /\ [][BuildNext]_all
    /\ WF_all(handle_c_client_conn /\ InJava) /\ WF_all(handle_java_bridge_conn /\ InJava)
    /\ \A i \in Slots : WF_all(handle_c_client_event(i) /\ InJava)
    /\ WF_all(handle_java_bridge_event /\ InJava) /\ WF_all(Restart /\ InJava)
    /\ WF_all(JavaStep /\ InJava) /\ SF_all(TimeoutJava /\ InJava)
    /\ WF_all(build = "java" /\ ThreadStep /\ UNCHANGED <<build, android, hvars>>)
    /\ \A m \in Modules : WF_all(build = "java" /\ Tell(m) /\ UNCHANGED <<build, android, hvars>>)
    /\ WF_all(A!Checks /\ InAndroid) /\ WF_all(A!connectAndAcquire /\ InAndroid)
    /\ WF_all(A!clearPowerManager /\ InAndroid) /\ WF_all(A!PmStarts /\ InAndroid)

-----------------------------------------------------------------------------
(***************************************************************************)
(* The platform follows CRM in the other build (see WakelockAndroid): a    *)
(* power manager that starts late or refuses once only delays it.          *)
(***************************************************************************)
AndroidLockFollows == A!AndroidLockFollows
=============================================================================
