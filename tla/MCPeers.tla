------------------------------ MODULE MCPeers ------------------------------
(***************************************************************************)
(* Model-checking instance of the two protocols of CRM with the processes  *)
(* around it: with its clients, through the client library, and with the   *)
(* process factory and the processes of the PCIe plugins.  A behaviour is  *)
(* one of the two; nothing moves in the other.                             *)
(*                                                                         *)
(* The client library has four instances: CRM dies twice, and the          *)
(* application acquires, releases and leaves; CRM asks for                 *)
(* acknowledgements, given by the callbacks or later, and may die; a CRM   *)
(* in sanity test mode, or a client that is; and messages of every shape.  *)
(***************************************************************************)
EXTENDS Mdmcli

CONSTANTS Sizes, MaxPids, Faults, MaxFaults

VARIABLES processes, procs, ipc_ctrl, ipc_evt, c2p, sigchld, factory, stopping,
          parent, died, faults, plugins,
          part

Processes == INSTANCE PcieProcesses

Debugs == {<<>>} \cup {<<<<1, 2, 3, 4>>, data>> :
            data \in UNION {[1..n -> {<<>>, <<7>>}] : n \in 0..MDM_CLI_MAX_NB_DATA}}

Shapes == {[Message(id) EXCEPT !.debug = d] : id \in {CRM_REQ_RESTART, CRM_REQ_NOTIFY_DBG},
                                              d \in Debugs}
          \cup {Message(CRM_REQ_SHUTDOWN), Message(CRM_REQ_NVM_BACKUP)}

Quiet == [calls |-> 0, deaths |-> 0, changes |-> 0, asks |-> 0, async |-> FALSE,
          requests |-> {}, sanity |-> FALSE, id |-> CRM_REQ_REGISTER]

DyingTwice == [Quiet EXCEPT !.calls = 4, !.deaths = 2, !.changes = 1]

MCScenarios ==
    {DyingTwice}
    \cup {[Quiet EXCEPT !.calls = 1, !.deaths = 1, !.changes = 3, !.asks = 2, !.async = a] :
            a \in BOOLEAN}
    \cup {[Quiet EXCEPT !.calls = 2, !.deaths = 1, !.changes = 1, !.sanity = s, !.id = r] :
            s \in BOOLEAN, r \in REGISTERS}
    \cup {[Quiet EXCEPT !.calls = 3, !.requests = Shapes]}

-----------------------------------------------------------------------------
PeersInit ==
    /\ part \in {"mdmcli", "processes"}
    /\ Init /\ Processes!ProcessesInit
    /\ part # "mdmcli" => up /\ scenario = DyingTwice
    /\ part # "processes" => Processes!Slots = {0}

processVars == <<processes, procs, ipc_ctrl, ipc_evt, c2p, sigchld, factory, stopping,
                 parent, died, faults, plugins>>

PeersNext ==
    /\ UNCHANGED part
    /\ \/ part = "mdmcli" /\ Next /\ UNCHANGED processVars
       \/ part = "processes" /\ Processes!Next /\ UNCHANGED vars

\* Nothing that is fair is enabled in the part that does not move.
PeersSpec == /\ PeersInit /\ [][PeersNext]_<<part, vars, processVars>>
             /\ Fairness /\ Processes!Fairness

-----------------------------------------------------------------------------
(***************************************************************************)
(* The properties of the processes (see PcieProcesses): the factory kills  *)
(* CRM only when CRM ends, unless a process fails or is late,              *)
(***************************************************************************)
FactoryAsserts == Processes!AssertsHold

(***************************************************************************)
(* a plugin reads the status of its own process and no other,              *)
(***************************************************************************)
StatusIsOwn == Processes!StatusIsOwn

(***************************************************************************)
(* an operation of a plugin ends in a report, unless CRM ends,             *)
(***************************************************************************)
Reported == Processes!Reported

(***************************************************************************)
(* and once CRM is gone, the processes and the factory end.                *)
(***************************************************************************)
NoOrphans == Processes!NoOrphans
=============================================================================
