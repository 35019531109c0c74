-------------------------------- MODULE Ipc --------------------------------
(***************************************************************************)
(* The in-process message queues: a ring of QSize slots, seen as a FIFO.   *)
(* send_msg returns false when the ring is full and the message is then    *)
(* gone.  Some callers ASSERT the result, the others ignore it.            *)
(***************************************************************************)
EXTENDS Integers, Sequences

CONSTANT QSize   \* MSG_QUEUE_SIZE

ASSUME QSizeAssumption == QSize \in Nat \ {0}

\* Every message of ms finds a free slot in q.
Fits(q, ms) == Len(q) + Len(ms) <= QSize

\* send_msg for the messages of ms in turn, the result being ignored.
Send(q, ms) == IF Fits(q, ms) THEN q \o ms ELSE SubSeq(q \o ms, 1, QSize)
=============================================================================
