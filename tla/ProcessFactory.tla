--------------------------- MODULE ProcessFactory ---------------------------
(***************************************************************************)
(* The process factory: CRM forks it first thing, and it forks, reaps and  *)
(* kills the processes that the plugins ask for.  Its orders come through  *)
(* the pipe ipc_ctrl, which its own handler of SIGCHLD writes to as well;  *)
(* a lock keeps the threads of CRM apart, but not CRM and the factory.     *)
(* An order to CREATE is a header and data, in two writes.                 *)
(***************************************************************************)
EXTENDS Integers, Sequences, FiniteSets, FiniteSetsExt

CONSTANTS
    Sizes,      \* numbers of slots to consider (crm_main.c: 1)
    MaxPids,    \* bound on the processes of a behaviour
    Faults,     \* what may go wrong, see FaultKinds
    MaxFaults   \* bound on the number of faults of a behaviour

FaultKinds == {"signal",   \* a process is killed by a signal
               "assert",   \* an ASSERT of a process fails
               "delay",    \* CRM needs 500 ms for a clean
               "late",     \* a process needs longer than its plugin waits
               "overlap"}  \* a process is created before the last has ended

VARIABLES
    processes,  \* factory->processes: pid and events of each slot
    procs,      \* the processes, as the kernel knows them
    ipc_ctrl, ipc_evt,   \* the pipes to and from the factory
    c2p,        \* the pipe from the process of each slot
    sigchld,    \* a SIGCHLD is pending
    factory,    \* "polls", "reads" (the data of a CREATE) or "ended"
    stopping,
    parent,     \* CRM: "runs", "disposes", "returned" (from dispose), "killed"
    died,       \* why the factory has killed all, or ""
    faults      \* number of faults so far

kernelVars  == <<procs, sigchld>>
factoryVars == <<processes, procs, ipc_ctrl, ipc_evt, c2p, sigchld, factory,
                 stopping, parent, died>>

Pids    == 1 .. MaxPids
Slots   == DOMAIN processes
Free    == [pid |-> -1, events |-> {}]
Alive(c)  == procs[c] \in {"runs", "told"}
Zombie(c) == procs[c] \in {"exited", "signaled"}
Unborn  == {c \in Pids : procs[c] = "unborn"}
Running == parent \in {"runs", "disposes"}

Fault(kind) == kind \in Faults /\ faults < MaxFaults /\ faults' = faults + 1

Init == /\ \E nb \in Sizes : /\ processes = [i \in 0 .. nb - 1 |-> Free]
                             /\ c2p = [i \in 0 .. nb - 1 |-> <<>>]
        /\ procs = [c \in Pids |-> "unborn"]
        /\ ipc_ctrl = <<>> /\ ipc_evt = <<>> /\ sigchld = FALSE
        /\ factory = "polls" /\ stopping = FALSE
        /\ parent = "runs" /\ died = "" /\ faults = 0

-----------------------------------------------------------------------------
(***************************************************************************)
(* kill_all(), which also follows a failed ASSERT, by SIGABRT.             *)
(***************************************************************************)
kill_all(why) ==
    /\ procs' = [c \in Pids |-> IF Alive(c) /\ \E i \in Slots : processes[i].pid = c
                                THEN "reaped" ELSE procs[c]]
    /\ parent' = "killed" /\ factory' = "ended" /\ died' = why
    /\ UNCHANGED <<processes, ipc_ctrl, ipc_evt, c2p, sigchld, stopping>>

\* The end of a turn of the loop, with these slots: forked_handle_events
\* leaves it when it is stopping and has no process left.
Turn(slots, stop) ==
    /\ processes' = slots /\ stopping' = stop
    /\ factory' = IF stop /\ \A i \in Slots : slots[i].pid = -1 THEN "ended"
                  ELSE "polls"
    /\ UNCHANGED <<parent, died>>

\* forked_flush_ipcs(): what it may flush, and the slots it leaves empty.
Flushable(i) == c2p[i] = <<>> \/ "KILL" \in processes[i].events
Flushed_Nothing(S) == c2p   \* mutant
Flushed(S) == [i \in Slots |-> IF i \in S THEN <<>> ELSE c2p[i]]
Freed(S)   == [i \in Slots |-> IF i \in S THEN [processes[i] EXCEPT !.pid = -1]
                               ELSE processes[i]]
Mark(i, event) == [processes EXCEPT ![i].events = @ \cup {event}]

\* Mutant: an order that cannot be carried out is not answered.
forked_create_process_Silent ==
    LET free == {i \in Slots : processes[i].pid = -1}
    IN  /\ UNCHANGED <<c2p, sigchld>>
        /\ IF free = {}
           THEN Turn(processes, stopping) /\ UNCHANGED <<ipc_evt, procs>>
           ELSE /\ Turn([processes EXCEPT ![Min(free)] = [pid |-> Min(Unborn), events |-> {}]],
                        stopping)
                /\ ipc_evt' = Append(ipc_evt, Min(free))
                /\ procs' = [procs EXCEPT ![Min(Unborn)] = "runs"]

\* forked_create_process(), and the answer.
forked_create_process ==
    LET free == {i \in Slots : processes[i].pid = -1}
        i == Min(free)
        c == Min(Unborn)
    IN  /\ UNCHANGED <<c2p, sigchld>>
        /\ IF free = {}
           THEN Turn(processes, stopping) /\ ipc_evt' = Append(ipc_evt, -1) /\ UNCHANGED procs
           ELSE /\ Turn([processes EXCEPT ![i] = [pid |-> c, events |-> {}]], stopping)
                /\ ipc_evt' = Append(ipc_evt, i)
                /\ procs' = [procs EXCEPT ![c] = "runs"]

(***************************************************************************)
(* The orders of the pipe.  A DEAD between the header and the data of a    *)
(* CREATE is taken for the data.                                           *)
(***************************************************************************)
HandleCreate ==
    CASE Len(ipc_ctrl) = 1 ->
            /\ factory' = "reads" /\ ipc_ctrl' = <<>>
            /\ UNCHANGED <<processes, procs, ipc_evt, c2p, sigchld, stopping, parent, died>>
      [] Len(ipc_ctrl) > 1 /\ ipc_ctrl[2][1] = "DATA" ->
            ipc_ctrl' = Tail(Tail(ipc_ctrl)) /\ forked_create_process
      [] OTHER -> kill_all("data")

HandleData == ipc_ctrl' = Tail(ipc_ctrl) /\ forked_create_process

HandleDispose ==
    /\ ipc_ctrl' = Tail(ipc_ctrl)
    /\ procs' = [c \in Pids |-> IF Alive(c) /\ \E i \in Slots : processes[i].pid = c
                                THEN "signaled" ELSE procs[c]]
    /\ sigchld' = (sigchld \/ \E c \in Pids : procs'[c] # procs[c])
    /\ Turn(processes, TRUE) /\ UNCHANGED <<ipc_evt, c2p>>

\* DEAD: waitpid() until there is no zombie left.
Reaped(i) == processes[i].pid \in Pids /\ Zombie(processes[i].pid)
Awaited(i) == processes[i].events \cap {"KILL", "CLEAN"} # {}

HandleDead ==
    LET over == {i \in Slots : Reaped(i) /\ Awaited(i)}
        lost == {i \in Slots : Reaped(i) /\ ~Awaited(i)}
    IN  IF \E i \in over : ~Flushable(i) THEN kill_all("flush")
        ELSE IF \E i \in lost : procs[processes[i].pid] = "signaled"
        THEN kill_all("signaled")
        ELSE /\ ipc_ctrl' = Tail(ipc_ctrl) /\ c2p' = Flushed(over)
             /\ Turn([i \in Slots |-> IF i \in lost
                                      THEN [processes[i] EXCEPT !.events = @ \cup {"DEAD"}]
                                      ELSE Freed(over)[i]], stopping)
             /\ procs' = [c \in Pids |-> IF Zombie(c) THEN "reaped" ELSE procs[c]]
             /\ UNCHANGED <<ipc_evt, sigchld>>

\* A CLEAN or KILL of a process that has ended frees its slot.
Forget(i) == IF Flushable(i)
             THEN /\ Turn(Freed({i}), stopping) /\ c2p' = Flushed({i}) /\ ipc_ctrl' = Tail(ipc_ctrl)
                  /\ UNCHANGED <<procs, ipc_evt, sigchld>>
             ELSE kill_all("flush")

HandleClean(i) ==
    IF processes[i].pid = -1 THEN kill_all("clean")
    ELSE IF "DEAD" \in processes[i].events THEN Forget(i)
    ELSE /\ Turn(Mark(i, "CLEAN"), stopping) /\ ipc_ctrl' = Tail(ipc_ctrl)
         /\ UNCHANGED <<procs, ipc_evt, c2p, sigchld>>

HandleKill(i) ==
    IF "DEAD" \in processes[i].events /\ processes[i].pid # -1 THEN Forget(i)
    ELSE /\ ipc_ctrl' = Tail(ipc_ctrl) /\ UNCHANGED <<ipc_evt, c2p>>
         /\ IF processes[i].pid = -1 THEN Turn(processes, stopping) /\ UNCHANGED kernelVars
            ELSE LET c == processes[i].pid IN
                 /\ Turn(Mark(i, "KILL"), stopping)
                 /\ procs' = [procs EXCEPT ![c] = IF Alive(c) THEN "signaled" ELSE @]
                 /\ sigchld' = (sigchld \/ Alive(c))

\* forked_handle_events(): one turn of the loop.
Order == Head(ipc_ctrl)
forked_handle_events ==
    /\ factory # "ended" /\ ipc_ctrl # <<>> /\ UNCHANGED faults
    /\ IF factory = "reads" THEN HandleData
       ELSE \/ Order[1] = "CREATE" /\ HandleCreate
            \/ Order[1] = "DISPOSE" /\ HandleDispose
            \/ Order[1] = "DEAD" /\ HandleDead
            \/ Order[1] = "CLEAN" /\ HandleClean(Order[2])
            \/ Order[1] = "KILL" /\ HandleKill(Order[2])

\* Its poll() times out: a process that has ended is not cleaned in time.
NotCleaned_Ever == FALSE   \* mutant
NotCleaned == /\ factory = "polls" /\ ipc_ctrl = <<>>
              /\ \E i \in Slots : processes[i].pid # -1 /\ "DEAD" \in processes[i].events
TimesOut == /\ NotCleaned /\ kill_all("not cleaned")
            /\ IF Running THEN Fault("delay") ELSE UNCHANGED faults

\* sig_handler(): a SIGCHLD interrupts the read of the data.
sig_handler ==
    /\ factory # "ended" /\ sigchld /\ UNCHANGED faults
    /\ IF factory = "reads" THEN kill_all("interrupted")
       ELSE /\ ipc_ctrl' = Append(ipc_ctrl, <<"DEAD", 0>>) /\ sigchld' = FALSE
            /\ UNCHANGED <<processes, procs, ipc_evt, c2p, factory, stopping, parent, died>>

-----------------------------------------------------------------------------
(***************************************************************************)
(* start_process(): a process does its work, tells how it went, and exits. *)
(* Its SIGABRT handler is that of the factory: it kills the processes that *)
(* were there before it, and CRM.                                          *)
(***************************************************************************)
SlotOf(c) == CHOOSE i \in Slots : processes[i].pid = c

start_process(c) ==
    /\ procs[c] = "runs" /\ procs' = [procs EXCEPT ![c] = "told"]
    /\ c2p' = [c2p EXCEPT ![SlotOf(c)] = Append(@, c)]
    /\ UNCHANGED <<processes, ipc_ctrl, ipc_evt, sigchld, factory, stopping, parent, died,
                   faults>>

Ends(c, how) ==
    /\ Alive(c) /\ procs' = [procs EXCEPT ![c] = how] /\ sigchld' = TRUE
    /\ UNCHANGED <<processes, ipc_ctrl, ipc_evt, c2p, factory, stopping, parent, died>>

exits(c) == procs[c] = "told" /\ Ends(c, "exited") /\ UNCHANGED faults

Aborts(c) ==
    /\ procs[c] = "runs"
    /\ procs' = [d \in Pids |-> IF d = c THEN "exited"
                                ELSE IF d < c /\ Alive(d) THEN "signaled" ELSE procs[d]]
    /\ sigchld' = TRUE /\ parent' = "killed" /\ died' = "process"
    /\ UNCHANGED <<processes, ipc_ctrl, ipc_evt, c2p, factory, stopping>>

Process(c) == \/ start_process(c)
              \/ exits(c)
              \/ Ends(c, "signaled") /\ Fault("signal")
              \/ Aborts(c) /\ Fault("assert")

-----------------------------------------------------------------------------
\* dispose(): CRM waits until the factory has ended.
Dispose == /\ parent = "runs" /\ parent' = "disposes"
           /\ ipc_ctrl' = Append(ipc_ctrl, <<"DISPOSE", 0>>)
           /\ UNCHANGED <<processes, procs, ipc_evt, c2p, sigchld, factory, stopping, died,
                          faults>>
DisposeReturns == /\ parent = "disposes" /\ factory = "ended" /\ parent' = "returned"
                  /\ UNCHANGED <<processes, procs, ipc_ctrl, ipc_evt, c2p, sigchld, factory,
                                 stopping, died, faults>>
=============================================================================
