-------------------------------- MODULE Dump --------------------------------
(***************************************************************************)
(* The core dump plugin of SoFIA: a detached thread reads the dump through *)
(* the vdump node, tells the clients how it went and reports to control.   *)
(***************************************************************************)
EXTENDS Ipc

VARIABLES
    dumper,       \* the thread: "idle", "spawned" (vdump_path # NULL) or
                  \* "reading" (op_ongoing as well)
    dumped,       \* statuses of finished dumps, not yet notified
    ctrlQ, claQ,  \* queues of control and of the client abstraction
    abort         \* the ASSERT that ended the process

dumpVars == <<dumper, dumped>>

Init == dumper = "idle" /\ dumped = <<>>

\* read_dump(), called by control, and its ASSERTs.
ReadFails == dumper # "idle"
read_dump == dumper' = "spawned" /\ UNCHANGED dumped

\* dump_thread: the thread runs.
DumpBegin == /\ dumper = "spawned" /\ dumper' = "reading"
             /\ UNCHANGED <<dumped, ctrlQ, claQ, abort>>

\* dump_thread ASSERTs on every failure of the node: open, command, poll.
DumpNodeFails == /\ dumper = "reading" /\ abort' = <<"dump", "node", "failed">>
                 /\ UNCHANGED <<dumper, dumped, ctrlQ, claQ>>

\* dump_thread: both files are stored, or reading or storing one failed.
DumpEnd(status) ==
    /\ dumper = "reading"
    /\ IF Fits(claQ, <<"DBG_INFO">>)
       THEN /\ claQ' = Append(claQ, "DBG_INFO")
            /\ dumper' = "idle" /\ dumped' = Append(dumped, status)
            /\ UNCHANGED <<ctrlQ, abort>>
       ELSE /\ abort' = <<"cla", "queue", "full">>
            /\ UNCHANGED <<dumper, dumped, ctrlQ, claQ>>

\* dump_thread: notify_dump_status.
DumpNotify == /\ dumped # <<>>
              /\ ctrlQ' = Send(ctrlQ, <<Head(dumped)>>)
              /\ dumped' = Tail(dumped)
              /\ UNCHANGED <<dumper, claQ, abort>>
=============================================================================
