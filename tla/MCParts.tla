------------------------------ MODULE MCParts ------------------------------
(***************************************************************************)
(* Model-checking instance of five parts that do not interact in these     *)
(* models: the watchdog, the ring of a thread's queue, the timers, AT      *)
(* commands, and CLA with its clients.  A behaviour is one of a single     *)
(* part; the others stay in their first state.                             *)
(***************************************************************************)
EXTENDS Watchdog, IpcRing, Time, MCAt, ClaService

VARIABLE part

PartsInit ==
    /\ part \in {"watchdog", "ring", "time", "at", "cla"}
    /\ WatchdogInit /\ RingInit /\ TimeInit /\ AtInit /\ SInit

PartsNext ==
    /\ UNCHANGED part
    /\ \/ /\ part = "watchdog" /\ WatchdogNext
          /\ UNCHANGED <<ring, timeVars, atVars, claVars>>
       \/ /\ part = "ring" /\ RingNext
          /\ UNCHANGED <<watchdogVars, timeVars, atVars, claVars>>
       \/ /\ part = "time" /\ TimeNext
          /\ UNCHANGED <<watchdogVars, ring, atVars, claVars>>
       \/ /\ part = "at" /\ AtNext
          /\ UNCHANGED <<watchdogVars, ring, timeVars, claVars>>
       \/ /\ part = "cla" /\ SNext
          /\ UNCHANGED <<watchdogVars, ring, timeVars, atVars>>

all == <<part, watchdogVars, ring, timeVars, atVars, claVars>>

PartsSpec == PartsInit /\ [][PartsNext]_all

Followers == {ClientEvents}
=============================================================================
