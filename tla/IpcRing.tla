------------------------------ MODULE IpcRing ------------------------------
(***************************************************************************)
(* The message queue of a thread as ipc.c has it: a ring of MSG_QUEUE_SIZE *)
(* slots under a lock, and a pipe that holds a byte for each message, so   *)
(* that the reader can poll() it.  The messages are numbered as they are   *)
(* accepted, to tell them apart.                                           *)
(***************************************************************************)
EXTENDS Ipc

CONSTANT MaxSent   \* bound on the number of messages accepted, or -1

VARIABLES
    msg_queue, num_msgs_in_queue, msg_r_idx, msg_w_idx,
    pipe,     \* number of bytes in the pipe
    sent,     \* number of messages accepted
    fds       \* "open", or "disposed" once the descriptors are closed

ring == <<msg_queue, num_msgs_in_queue, msg_r_idx, msg_w_idx, pipe, sent, fds>>

\* crm_ipc_init()
RingInit == /\ msg_queue = [i \in 0 .. QSize - 1 |-> 0]
            /\ num_msgs_in_queue = 0 /\ msg_r_idx = 0 /\ msg_w_idx = 0
            /\ pipe = 0 /\ sent = 0 /\ fds = "open"

Wrap(i) == IF i + 1 = QSize THEN 0 ELSE i + 1

\* send_msg_thread(), which gives false when the ring is full.
send_msg_thread ==
    /\ fds = "open" /\ sent # MaxSent
    /\ num_msgs_in_queue < QSize
    /\ msg_queue' = [msg_queue EXCEPT ![msg_w_idx] = sent + 1]
    /\ pipe' = pipe + 1
    /\ num_msgs_in_queue' = num_msgs_in_queue + 1
    /\ msg_w_idx' = Wrap(msg_w_idx)
    /\ sent' = sent + 1
    /\ UNCHANGED <<msg_r_idx, fds>>

\* Mutant: a reader that finds more messages takes two.
get_msg_thread_Two ==
    /\ fds = "open"
    /\ num_msgs_in_queue > 1
    /\ pipe' = pipe - 2
    /\ num_msgs_in_queue' = num_msgs_in_queue - 2
    /\ msg_r_idx' = Wrap(Wrap(msg_r_idx))
    /\ UNCHANGED <<msg_queue, msg_w_idx, sent, fds>>

\* get_msg_thread(), which gives false when the ring is empty.  The read of the
\* byte blocks when there is none.
get_msg_thread ==
    /\ fds = "open"
    /\ num_msgs_in_queue > 0
    /\ pipe > 0 /\ pipe' = pipe - 1
    /\ num_msgs_in_queue' = num_msgs_in_queue - 1
    /\ msg_r_idx' = Wrap(msg_r_idx)
    /\ UNCHANGED <<msg_queue, msg_w_idx, sent, fds>>

\* dispose(): the descriptors are closed, and what is left is given to
\* free_routine one by one.
dispose == /\ fds = "open" /\ fds' = "disposed" /\ pipe' = 0
           /\ UNCHANGED <<msg_queue, num_msgs_in_queue, msg_r_idx, msg_w_idx, sent>>

free_routine == /\ fds = "disposed" /\ num_msgs_in_queue > 0
                /\ msg_r_idx' = Wrap(msg_r_idx)
                /\ num_msgs_in_queue' = num_msgs_in_queue - 1
                /\ UNCHANGED <<msg_queue, msg_w_idx, pipe, sent, fds>>

RingNext == send_msg_thread \/ get_msg_thread \/ dispose \/ free_routine

RingSpec == RingInit /\ [][RingNext]_ring

-----------------------------------------------------------------------------
RingTypeOK == /\ msg_queue \in [0 .. QSize - 1 -> Nat]
              /\ num_msgs_in_queue \in 0 .. QSize
              /\ msg_r_idx \in 0 .. QSize - 1 /\ msg_w_idx \in 0 .. QSize - 1
              /\ pipe \in Nat /\ sent \in Nat /\ fds \in {"open", "disposed"}

\* The slot that is n places behind the one to be read next.
Slot(n) == IF msg_r_idx + n < QSize THEN msg_r_idx + n ELSE msg_r_idx + n - QSize

(***************************************************************************)
(* The ring is consistent: the place to write at is where the messages     *)
(* end, they are the last ones accepted in their order, and the pipe is    *)
(* readable exactly while there is a message, so that no reader is woken   *)
(* in vain, sleeps over a message, or blocks in the read.                  *)
(***************************************************************************)
RingHolds == /\ msg_w_idx = Slot(num_msgs_in_queue)
             /\ num_msgs_in_queue <= sent
             /\ \A n \in 0 .. num_msgs_in_queue - 1 :
                   msg_queue[Slot(n)] = sent - num_msgs_in_queue + n + 1
             /\ fds = "open" => pipe = num_msgs_in_queue

\* The ring as a queue.
Queue == [i \in 1 .. num_msgs_in_queue |-> msg_queue[Slot(i - 1)]]

(***************************************************************************)
(* The ring and its pipe implement a FIFO of QSize messages, which is what *)
(* the other modules take for the queue of a thread.                       *)
(***************************************************************************)
Fifo == INSTANCE IpcFifo WITH q <- Queue, state <- fds

ImplementsFifo == Fifo!Spec
=============================================================================
