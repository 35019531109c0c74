----------------------------- MODULE IpcProofs -----------------------------
(***************************************************************************)
(* Proofs about the message queue of the threads, for every size of the    *)
(* ring: it is consistent, and implements the FIFO that the other modules  *)
(* take it for.                                                            *)
(***************************************************************************)
EXTENDS IpcRing, SequenceTheorems, TLAPS

Inv == RingTypeOK /\ RingHolds

LEMMA InitHolds == RingInit => Inv
BY QSizeAssumption DEF RingInit, Inv, RingTypeOK, RingHolds, Slot

LEMMA SendHolds == Inv /\ send_msg_thread => Inv'
<1> SUFFICES ASSUME Inv, send_msg_thread PROVE Inv'
    OBVIOUS
<1> USE QSizeAssumption DEF Inv
<1>1. RingTypeOK'
  BY DEF RingTypeOK, send_msg_thread, Wrap
<1>2. msg_w_idx' = Slot(num_msgs_in_queue)'
  BY DEF RingTypeOK, RingHolds, send_msg_thread, Wrap, Slot
<1>3. ASSUME NEW n \in 0 .. num_msgs_in_queue' - 1
      PROVE  msg_queue'[Slot(n)'] = sent' - num_msgs_in_queue' + n + 1
  <2>1. CASE n = num_msgs_in_queue
    BY <2>1 DEF RingTypeOK, RingHolds, send_msg_thread, Slot
  <2>2. CASE n < num_msgs_in_queue
    <3>1. Slot(n)' = Slot(n) /\ Slot(n) # msg_w_idx /\ Slot(n) \in 0 .. QSize - 1
      BY <2>2 DEF RingTypeOK, RingHolds, send_msg_thread, Slot
    <3>2. msg_queue'[Slot(n)] = msg_queue[Slot(n)]
      BY <3>1 DEF RingTypeOK, send_msg_thread
    <3>3. msg_queue[Slot(n)] = sent - num_msgs_in_queue + n + 1
      BY <2>2, <1>3 DEF RingTypeOK, RingHolds, send_msg_thread
    <3>4. QED BY <3>1, <3>2, <3>3 DEF RingTypeOK, send_msg_thread
  <2>3. QED BY <2>1, <2>2 DEF RingTypeOK, send_msg_thread
<1>4. num_msgs_in_queue' <= sent' /\ (fds' = "open" => pipe' = num_msgs_in_queue')
  BY DEF RingTypeOK, RingHolds, send_msg_thread
<1>5. QED BY <1>1, <1>2, <1>3, <1>4 DEF RingHolds

\* A message is taken out of the ring, by get_msg_thread() or by dispose().
LEMMA TakeHolds == Inv /\ (get_msg_thread \/ free_routine) => Inv'
<1> SUFFICES ASSUME Inv, get_msg_thread \/ free_routine PROVE Inv'
    OBVIOUS
<1> USE QSizeAssumption DEF Inv
<1>1. /\ msg_r_idx' = Wrap(msg_r_idx) /\ num_msgs_in_queue' = num_msgs_in_queue - 1
      /\ num_msgs_in_queue > 0
      /\ UNCHANGED <<msg_queue, msg_w_idx, sent, fds>>
  BY DEF get_msg_thread, free_routine
<1>2. RingTypeOK'
  BY <1>1 DEF RingTypeOK, get_msg_thread, free_routine, Wrap
<1>3. \A n \in 0 .. num_msgs_in_queue' : Slot(n)' = Slot(n + 1)
  BY <1>1 DEF RingTypeOK, Wrap, Slot
<1>4. msg_w_idx' = Slot(num_msgs_in_queue)'
  BY <1>1, <1>3 DEF RingTypeOK, RingHolds, Wrap, Slot
<1>5. ASSUME NEW n \in 0 .. num_msgs_in_queue' - 1
      PROVE  msg_queue'[Slot(n)'] = sent' - num_msgs_in_queue' + n + 1
  <2>1. n + 1 \in 0 .. num_msgs_in_queue - 1
    BY <1>1 DEF RingTypeOK
  <2>2. msg_queue[Slot(n + 1)] = sent - num_msgs_in_queue + (n + 1) + 1
    BY <2>1 DEF RingHolds
  <2>3. Slot(n)' = Slot(n + 1)
    BY <1>1, <1>3 DEF RingTypeOK
  <2>4. QED BY <1>1, <2>2, <2>3 DEF RingTypeOK
<1>6. num_msgs_in_queue' <= sent' /\ (fds' = "open" => pipe' = num_msgs_in_queue')
  <2>1. num_msgs_in_queue' <= sent'
    BY <1>1 DEF RingTypeOK, RingHolds
  <2>2. CASE get_msg_thread
    BY <2>1, <2>2 DEF RingTypeOK, RingHolds, get_msg_thread
  <2>3. CASE free_routine
    BY <2>1, <2>3 DEF free_routine
  <2>4. QED BY <2>2, <2>3
<1>7. QED BY <1>2, <1>4, <1>5, <1>6 DEF RingHolds

LEMMA StepHolds == Inv /\ [RingNext]_ring => Inv'
<1> SUFFICES ASSUME Inv, [RingNext]_ring PROVE Inv'
    OBVIOUS
<1>1. CASE send_msg_thread
  BY <1>1, SendHolds
<1>2. CASE get_msg_thread \/ free_routine
  BY <1>2, TakeHolds
<1>3. CASE dispose
  BY <1>3 DEF Inv, RingTypeOK, RingHolds, Slot, dispose
<1>4. CASE UNCHANGED ring
  BY <1>4 DEF Inv, RingTypeOK, RingHolds, Slot, ring
<1>5. QED BY <1>1, <1>2, <1>3, <1>4 DEF RingNext

(***************************************************************************)
(* The ring of ipc.c is consistent, whatever its size: the indices, the    *)
(* count and the bytes of the pipe belong together, and the messages are   *)
(* the last ones accepted, in order.                                       *)
(***************************************************************************)
THEOREM RingIsConsistent == RingSpec => [](RingTypeOK /\ RingHolds)
<1>1. Inv /\ [RingNext]_ring => Inv'
  BY StepHolds
<1>2. QED BY InitHolds, <1>1, PTL DEF RingSpec, Inv

-----------------------------------------------------------------------------
QueueOK ==
    /\ Queue \in Seq(Nat) /\ Len(Queue) = num_msgs_in_queue
    /\ \A i \in 1 .. num_msgs_in_queue : Queue[i] = sent - num_msgs_in_queue + i

LEMMA QueueIs == Inv => QueueOK
<1> SUFFICES ASSUME Inv PROVE QueueOK
    OBVIOUS
<1> USE QSizeAssumption DEF Inv
<1>1. \A i \in 1 .. num_msgs_in_queue : msg_queue[Slot(i - 1)] \in Nat
  BY DEF RingTypeOK, Slot
<1>2. Queue \in Seq(Nat) /\ Len(Queue) = num_msgs_in_queue
  BY <1>1 DEF RingTypeOK, Queue
<1>3. \A i \in 1 .. num_msgs_in_queue : Queue[i] = sent - num_msgs_in_queue + i
  BY DEF Queue, RingHolds, RingTypeOK
<1>4. QED BY <1>2, <1>3 DEF QueueOK

LEMMA SendRefines == Inv /\ Inv' /\ send_msg_thread => Fifo!Accept
<1> SUFFICES ASSUME Inv, Inv', send_msg_thread PROVE Fifo!Accept
    OBVIOUS
<1> USE DEF Inv
<1>1. QueueOK /\ QueueOK'
  BY QueueIs, PTL
<1>2. Fifo!Fits(Queue, <<sent + 1>>)
  BY <1>1 DEF send_msg_thread, RingTypeOK, QueueOK, Fifo!Fits
<1>3. Queue' = Queue \o <<sent + 1>>
  <2>4. /\ Len(Queue \o <<sent + 1>>) = num_msgs_in_queue + 1
        /\ Queue \o <<sent + 1>> \in Seq(Nat)
        /\ \A i \in 1 .. num_msgs_in_queue + 1 :
              (Queue \o <<sent + 1>>)[i]
                  = IF i <= num_msgs_in_queue THEN Queue[i] ELSE sent + 1
    BY <1>1 DEF RingTypeOK, QueueOK
  <2>5. num_msgs_in_queue' = num_msgs_in_queue + 1 /\ sent' = sent + 1
    BY DEF send_msg_thread
  <2>6. \A i \in 1 .. num_msgs_in_queue + 1 : Queue'[i] = (Queue \o <<sent + 1>>)[i]
    <3>1. num_msgs_in_queue \in Nat /\ sent \in Nat
      BY QSizeAssumption DEF RingTypeOK
    <3>2. \A i \in 1 .. num_msgs_in_queue + 1 : Queue'[i] = sent - num_msgs_in_queue + i
      BY <1>1, <2>5, <3>1 DEF QueueOK
    <3>3. \A i \in 1 .. num_msgs_in_queue + 1 :
             (Queue \o <<sent + 1>>)[i] = sent - num_msgs_in_queue + i
      BY <1>1, <2>4, <3>1 DEF QueueOK
    <3>4. QED BY <3>2, <3>3
  <2>7. Queue' \in Seq(Nat) /\ Len(Queue') = num_msgs_in_queue + 1
    BY <1>1, <2>5 DEF QueueOK
  <2>8. QED BY <2>4, <2>6, <2>7, SeqEqual
<1>4. QED BY <1>2, <1>3 DEF send_msg_thread, Fifo!Accept, Fifo!Send

LEMMA TakeRefines ==
    Inv /\ Inv' /\ (get_msg_thread \/ free_routine) => Fifo!Deliver \/ Fifo!Free
<1> SUFFICES ASSUME Inv, Inv', get_msg_thread \/ free_routine
             PROVE  Fifo!Deliver \/ Fifo!Free
    OBVIOUS
<1> USE DEF Inv
<1>1. /\ num_msgs_in_queue' = num_msgs_in_queue - 1 /\ num_msgs_in_queue > 0
      /\ UNCHANGED <<sent, fds>>
  BY DEF get_msg_thread, free_routine
<1>2. QueueOK /\ QueueOK'
  BY QueueIs, PTL
<1>3. Queue # <<>>
  BY <1>1, <1>2, EmptySeq DEF RingTypeOK, QueueOK
<1>4. Queue' = Tail(Queue)
  <2>3. /\ Tail(Queue) \in Seq(Nat) /\ Len(Tail(Queue)) = num_msgs_in_queue - 1
        /\ \A i \in 1 .. num_msgs_in_queue - 1 : Tail(Queue)[i] = Queue[i + 1]
    BY <1>2, <1>3, HeadTailProperties DEF QueueOK
  <2>4. \A i \in 1 .. num_msgs_in_queue - 1 : Queue'[i] = Tail(Queue)[i]
    BY <1>1, <1>2, <2>3 DEF RingTypeOK, QueueOK
  <2>5. QED BY <1>1, <1>2, <2>3, <2>4, SeqEqual DEF QueueOK
<1>5. CASE get_msg_thread
  BY <1>1, <1>3, <1>4, <1>5 DEF get_msg_thread, Fifo!Deliver
<1>6. CASE free_routine
  BY <1>1, <1>3, <1>4, <1>6 DEF free_routine, Fifo!Free
<1>7. QED BY <1>5, <1>6

LEMMA StepRefines ==
    Inv /\ Inv' /\ [RingNext]_ring => [Fifo!Next]_<<Queue, sent, fds>>
<1> SUFFICES ASSUME Inv, Inv', [RingNext]_ring
             PROVE  [Fifo!Next]_<<Queue, sent, fds>>
    OBVIOUS
<1>1. CASE send_msg_thread
  BY <1>1, SendRefines DEF Fifo!Next
<1>2. CASE get_msg_thread \/ free_routine
  BY <1>2, TakeRefines DEF Fifo!Next
<1>3. CASE dispose
  BY <1>3 DEF dispose, Queue, Slot, Fifo!Next, Fifo!Dispose
<1>4. CASE UNCHANGED ring
  BY <1>4 DEF ring, Queue, Slot
<1>5. QED BY <1>1, <1>2, <1>3, <1>4 DEF RingNext

LEMMA InitRefines == RingInit => Fifo!Init
BY DEF RingInit, Fifo!Init, Queue

(***************************************************************************)
(* The ring and the pipe of ipc.c implement the FIFO which the other       *)
(* modules take for the queue of a thread: every message accepted comes    *)
(* out once, in its order, whatever the size of the ring and however often *)
(* the indices wrap.                                                       *)
(***************************************************************************)
THEOREM RingIsFifo == RingSpec => ImplementsFifo
<1>1. Inv /\ [RingNext]_ring => Inv'
  BY StepHolds
<1>2. Inv /\ Inv' /\ [RingNext]_ring => [Fifo!Next]_<<Queue, sent, fds>>
  BY StepRefines
<1>3. QED BY InitHolds, InitRefines, <1>1, <1>2, PTL DEF RingSpec, ImplementsFifo, Fifo!Spec
=============================================================================
