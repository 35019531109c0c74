--------------------------- MODULE PcieProcesses ---------------------------
(***************************************************************************)
(* The firmware upload and dump plugins of PCIe with the process factory.  *)
(* Control, in one thread, has a plugin start an operation: it creates a   *)
(* process and a detached thread, which waits for what the process tells,  *)
(* has the factory clean up after it and reports to control.               *)
(***************************************************************************)
EXTENDS ProcessFactory

VARIABLES plugins   \* of each plugin: the step it is at, process_id, and
                    \* the process whose status it has read (0: none)

vars == <<factoryVars, plugins, faults>>

Plugins == {"fw_upload", "dump"}
Idle == [st |-> "idle", process_id |-> -1, read |-> 0, child |-> 0]

ProcessesInit == Init /\ plugins = [p \in Plugins |-> Idle]

At(p, st) == Running /\ plugins[p].st = st
Goes(p, st) == plugins' = [plugins EXCEPT ![p].st = st]
Orders(order) == ipc_ctrl' = Append(ipc_ctrl, order)
Creating == \E p \in Plugins : plugins[p].st \in {"creates", "awaits"}
OthersSame == UNCHANGED <<processes, procs, ipc_evt, c2p, sigchld, factory, stopping,
                          parent, died>>

(***************************************************************************)
(* flash() and read_dump(), called by control: create() writes the header  *)
(* and the data of its order and waits for the answer.                     *)
(***************************************************************************)
operation(p) ==
    /\ parent = "runs" /\ At(p, "idle") /\ ~Creating /\ Unborn # {}
    /\ IF \E i \in Slots : processes[i].pid # -1 THEN Fault("overlap") ELSE UNCHANGED faults
    /\ Orders(<<"CREATE", 0>>) /\ Goes(p, "creates") /\ OthersSame

create(p) == /\ At(p, "creates") /\ Orders(<<"DATA", 0>>) /\ Goes(p, "awaits")
             /\ OthersSame /\ UNCHANGED faults

\* A process that is not created is reported as a failure.
Created(p) ==
    LET i == Head(ipc_evt) IN
    /\ At(p, "awaits") /\ ipc_evt # <<>> /\ ipc_evt' = Tail(ipc_evt)
    /\ plugins' = [plugins EXCEPT
                     ![p] = IF i = -1 THEN [Idle EXCEPT !.st = "reports"]
                            ELSE [st |-> "waits", process_id |-> i, read |-> 0,
                                  child |-> processes[i].pid]]
    /\ UNCHANGED <<processes, procs, ipc_ctrl, c2p, sigchld, factory, stopping, parent,
                   died, faults>>

(***************************************************************************)
(* control_flash_process() and control_dump_process(): the status, or a    *)
(* timeout and the kill; then the clean and the report.                    *)
(***************************************************************************)
\* Mutant: the status stays in the pipe.
get_msg_Peeks(p) ==
    LET i == plugins[p].process_id IN
    /\ At(p, "waits") /\ c2p[i] # <<>>
    /\ plugins' = [plugins EXCEPT ![p].st = "cleans", ![p].read = Head(c2p[i])]
    /\ UNCHANGED <<factoryVars, faults>>

get_msg(p) ==
    LET i == plugins[p].process_id IN
    /\ At(p, "waits") /\ c2p[i] # <<>>
    /\ c2p' = [c2p EXCEPT ![i] = Tail(@)]
    /\ plugins' = [plugins EXCEPT ![p].st = "cleans", ![p].read = Head(c2p[i])]
    /\ UNCHANGED <<processes, procs, ipc_ctrl, ipc_evt, sigchld, factory, stopping, parent,
                   died, faults>>

timeout(p) ==
    /\ At(p, "waits") /\ c2p[plugins[p].process_id] = <<>>
    /\ ~(\E q \in Plugins : plugins[q].st = "creates") /\ Fault("late")
    /\ Orders(<<"KILL", plugins[p].process_id>>) /\ Goes(p, "cleans") /\ OthersSame

clean(p) ==
    /\ At(p, "cleans") /\ ~(\E q \in Plugins : plugins[q].st = "creates")
    /\ Orders(<<"CLEAN", plugins[p].process_id>>)
    /\ plugins' = [plugins EXCEPT ![p].st = "reports", ![p].process_id = -1]
    /\ OthersSame /\ UNCHANGED faults

report(p) == /\ At(p, "reports") /\ plugins' = [plugins EXCEPT ![p] = Idle]
             /\ UNCHANGED <<factoryVars, faults>>

Plugin(p) == \/ create(p) \/ Created(p) \/ get_msg(p) \/ timeout(p)
             \/ clean(p) \/ report(p)

-----------------------------------------------------------------------------
FactoryStep == (forked_handle_events \/ TimesOut \/ sig_handler) /\ UNCHANGED plugins
ProcessStep == (\E c \in Pids : Process(c)) /\ UNCHANGED plugins
ParentStep  == /\ ~(\E q \in Plugins : plugins[q].st = "creates")
               /\ (Dispose \/ DisposeReturns) /\ UNCHANGED plugins

Next == \/ (\E p \in Plugins : operation(p)) \/ (\E p \in Plugins : Plugin(p))
        \/ FactoryStep \/ ProcessStep \/ ParentStep

(***************************************************************************)
(* The scheduling: threads and processes go on, and a process ends its     *)
(* work, however late.                                                     *)
(***************************************************************************)
Fairness ==
    /\ \A p \in Plugins : WF_vars(Plugin(p) /\ ~timeout(p))
    /\ WF_vars(forked_handle_events /\ UNCHANGED plugins)
    /\ WF_vars(sig_handler /\ UNCHANGED plugins)
    /\ WF_vars(TimesOut /\ UNCHANGED plugins)
    /\ WF_vars(DisposeReturns /\ UNCHANGED plugins)
    /\ \A c \in Pids : WF_vars((start_process(c) \/ exits(c))
                               /\ UNCHANGED plugins)

Spec == ProcessesInit /\ [][Next]_vars
FairSpec == Spec /\ Fairness

-----------------------------------------------------------------------------
(***************************************************************************)
(* As long as processes neither fail nor are late and follow one another,  *)
(* the factory kills CRM only when CRM ends: no ASSERT fails, no order is  *)
(* misread.                                                                *)
(***************************************************************************)
AssertsHold == faults = 0 => died = "" \/ (died = "signaled" /\ stopping)

(***************************************************************************)
(* The status a plugin reports is that of the process it has created, and  *)
(* not what another process of the same slot has left in the pipe.         *)
(***************************************************************************)
StatusIsOwn == \A p \in Plugins : plugins[p].read \in {0, plugins[p].child}

(***************************************************************************)
(* An operation of a plugin ends in a report, unless CRM ends.             *)
(***************************************************************************)
Reported == \A p \in Plugins : plugins[p].st # "idle"
                                 ~> (plugins[p].st = "idle" \/ ~Running)

(***************************************************************************)
(* Once CRM is gone, its processes and the factory end as well.            *)
(***************************************************************************)
NoOrphans == ~Running ~> (factory = "ended" /\ \A c \in Pids : ~Alive(c))
=============================================================================
