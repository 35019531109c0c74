------------------------------ MODULE IpcFifo ------------------------------
(***************************************************************************)
(* What the message queue of a thread promises: messages are delivered in  *)
(* the order they were accepted, each once, until the queue is disposed    *)
(* of; a message for which there is no room is dropped.  The messages are  *)
(* numbered as they are accepted.  Ipc has the operators.                  *)
(***************************************************************************)
EXTENDS Ipc

VARIABLES
    q,       \* the messages that are not yet delivered
    sent,    \* number of messages accepted
    state    \* "open" or "disposed"

Init == q = <<>> /\ sent = 0 /\ state = "open"

Accept == /\ state = "open" /\ Fits(q, <<sent + 1>>)
          /\ q' = Send(q, <<sent + 1>>) /\ sent' = sent + 1
          /\ UNCHANGED state

Deliver == /\ state = "open" /\ q # <<>>
           /\ q' = Tail(q) /\ UNCHANGED <<sent, state>>

\* What is left is freed, in order.
Dispose == state = "open" /\ state' = "disposed" /\ UNCHANGED <<q, sent>>
Free    == state = "disposed" /\ q # <<>> /\ q' = Tail(q) /\ UNCHANGED <<sent, state>>

Next == Accept \/ Deliver \/ Dispose \/ Free

Spec == Init /\ [][Next]_<<q, sent, state>>
=============================================================================
