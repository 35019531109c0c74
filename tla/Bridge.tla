------------------------------- MODULE Bridge -------------------------------
(***************************************************************************)
(* The telephony Java bridge: a daemon that C clients ask for the wakelock *)
(* of the platform, or to broadcast an intent or start a service, and the  *)
(* Java application that does it.  The daemon polls its two listening      *)
(* sockets, the clients and the application; it counts the wakelock per    *)
(* client, queues the other messages, and sends one message at a time to   *)
(* the application, which must acknowledge it with its number.             *)
(*                                                                         *)
(* A socket is what the other end has written and whether that end is      *)
(* still open.  A message is a header and, for an intent, a body; "part"   *)
(* is a header that was cut short.  The application is external.           *)
(***************************************************************************)
EXTENDS Integers, Sequences, FiniteSets, FiniteSetsExt, Functions

CONSTANTS
    Clients,      \* names of the client connections
    MAX_CLIENTS,  \* slots of the daemon
    MAX_RETRIES,
    Byte, Ascii,  \* numbers a byte holds, and those that are ASCII (256, 128)
    Buffer,       \* messages that the socket of a client holds
    Scenarios     \* bounds: [modules, sizes, intents, faults], see scenario

BridgeFaults == {"java",     \* the application is killed, or throws
                 "slow",     \* the application takes longer than the daemon waits
                 "partial"}  \* a client is cut off in the middle of a message

VARIABLES
    c_listen, j_listen,   \* connections that wait for accept()
    client_ctx,     \* the slots of the daemon
    java_ctx,       \* its link with the application, and the queue for it
    wakelock_held,  \* a client of the daemon holds the wakelock
    daemon,         \* "runs", or why it is down
    sock,           \* each client's end: "none", "up" or "eof"
    java,           \* the application: its socket, what it reads, its wakelock
    queued,         \* number of intents queued so far
    intents,        \* number of intents broadcast so far
    delivered,      \* [last, times]: the intent last broadcast, and how often
    faults,         \* number of faults so far
    scenario        \* what may happen in this behaviour: the modules that use
                    \* the wakelock, the sizes and the number of the intents,
                    \* and the faults, of which there is at most one

daemonVars == <<client_ctx, java_ctx, wakelock_held, daemon, queued>>
netVars    == <<c_listen, j_listen, sock>>
javaVars   == <<java, delivered>>
bridgeVars == <<daemonVars, netVars, javaVars, intents, faults, scenario>>

Slots   == 1 .. MAX_CLIENTS
NoSock  == [from |-> "none", data |-> <<>>, live |-> FALSE]
NoClient == [fd |-> NoSock, msg_state |-> "NONE", wakelock_cnt |-> 0,
             msg_buffer |-> "null", msg |-> "none"]
NoJava  == [fd |-> "none", in_progress |-> FALSE, wait_ack |-> FALSE,
            msg |-> "stale", cmd |-> "RELEASE", number |-> 0, held |-> FALSE,
            ack |-> <<>>, count |-> 0, queue |-> <<>>]
Asleep  == [sock |-> "none", in |-> <<>>, lock |-> "released"]

Fault(kind) == kind \in scenario.faults /\ faults = 0 /\ faults' = 1

\* main(): msg of the Java context is not initialised, so it is no message of
\* the daemon's ("stale"), as it is once the message has been freed.
Init == /\ c_listen = <<>> /\ j_listen = <<>>
        /\ client_ctx = [i \in Slots |-> NoClient] /\ java_ctx = NoJava
        /\ wakelock_held = FALSE /\ daemon = "runs"
        /\ sock = [c \in Clients |-> "none"] /\ java = Asleep
        /\ queued = 0 /\ intents = 0 /\ delivered = [last |-> 0, times |-> 0] /\ faults = 0
        /\ scenario \in Scenarios

\* An assertion of the daemon fails, or a signal kills it.
dies(why) ==
    /\ daemon' = why
    /\ UNCHANGED <<client_ctx, java_ctx, wakelock_held, queued, netVars, java>>

\* init starts the daemon again; every socket of the old one is closed.
Restart ==
    /\ daemon # "runs"
    /\ daemon' = "runs" /\ wakelock_held' = FALSE
    /\ client_ctx' = [i \in Slots |-> NoClient] /\ java_ctx' = NoJava
    /\ c_listen' = <<>> /\ j_listen' = <<>>
    /\ sock' = [c \in Clients |-> IF sock[c] = "up" THEN "eof" ELSE sock[c]]
    /\ java' = [java EXCEPT !.sock = IF @ = "up" THEN "eof" ELSE @]
    /\ UNCHANGED <<queued, delivered, intents, faults, scenario>>

-----------------------------------------------------------------------------
(***************************************************************************)
(* The library, telbridgelib.c.  Each operation gives the connections that *)
(* wait, the slots and the client's end that follow.                       *)
(***************************************************************************)
Mine(c, s)   == s.from = c /\ s.live
Hung(c, s)   == IF Mine(c, s) THEN [s EXCEPT !.live = FALSE] ELSE s
Wrote(c, s, data) == IF Mine(c, s) THEN [s EXCEPT !.data = @ \o data] ELSE s

\* connect(): the kernel queues the connection until the daemon accepts it.
\* The bound: one connection waits at a time.
Connectable == daemon = "runs" /\ c_listen = <<>>

bridge_connect(c, data, live) ==
    /\ Connectable
    /\ c_listen' = Append(c_listen, [from |-> c, data |-> data, live |-> live])
    /\ UNCHANGED <<j_listen, client_ctx>>

bridge_disconnect(c) ==
    /\ sock' = [sock EXCEPT ![c] = "none"]
    /\ c_listen' = [i \in DOMAIN c_listen |-> Hung(c, c_listen[i])]
    /\ client_ctx' = [i \in Slots |->
                        [client_ctx[i] EXCEPT !.fd = Hung(c, client_ctx[i].fd)]]
    /\ UNCHANGED j_listen

\* What write() does in send_msg() once poll() has found room and no hang-up.
Room(c) == \A s \in Range(c_listen) \cup {client_ctx[i].fd : i \in Slots} :
              Mine(c, s) => Len(s.data) < Buffer

write(c, data) ==
    /\ sock[c] = "up"
    /\ c_listen' = [i \in DOMAIN c_listen |-> Wrote(c, c_listen[i], data)]
    /\ client_ctx' = [i \in Slots |->
                        [client_ctx[i] EXCEPT !.fd = Wrote(c, client_ctx[i].fd, data)]]
    /\ UNCHANGED <<j_listen, sock>>

\* tel_java_brige_broadcast_intent(): connect, send one message and dispose.
\* The library never leaves a message without content (params are not NULL);
\* the size of the content has only ASCII bytes ("short") or not ("long").
Intents == {"short", "long"}

broadcast_intent(c, m) ==
    /\ intents < scenario.intents /\ m \in scenario.sizes
    /\ intents' = intents + 1
    /\ bridge_connect(c, <<m, "body">>, FALSE)
    /\ UNCHANGED <<java_ctx, wakelock_held, daemon, sock, queued, javaVars, faults, scenario>>

\* send_msg() gives up after 500 ms with a part of the message written.
broadcast_cut(c, m) ==
    /\ intents < scenario.intents /\ m \in scenario.sizes
    /\ intents' = intents + 1 /\ Fault("partial")
    /\ bridge_connect(c, <<m>>, FALSE)
    /\ UNCHANGED <<java_ctx, wakelock_held, daemon, sock, queued, javaVars, scenario>>

-----------------------------------------------------------------------------
(***************************************************************************)
(* The daemon.  fill_pollfd() starts the next message to the application:  *)
(* the wakelock goes before the queue.                                     *)
(***************************************************************************)
Due(j) == j.fd # "none" /\ ~j.wait_ack /\ ~j.in_progress

fill_pollfd(j, held) ==
    IF ~Due(j) \/ (j.queue = <<>> /\ j.held = held) THEN j
    ELSE IF j.held # held
    THEN [j EXCEPT !.in_progress = TRUE, !.msg = "wakelock",
                   !.cmd = IF held THEN "ACQUIRE" ELSE "RELEASE",
                   !.number = j.count, !.count = (j.count + 1) % Byte]
    ELSE [j EXCEPT !.in_progress = TRUE, !.msg = "queued"]

\* What is asked for of the application is an acknowledgement, room for a
\* message or, when there is neither, only that it has not hung up.
JavaReady(j) ==
    /\ j.fd # "none"
    /\ IF j.wait_ack THEN j.ack # <<>> \/ j.fd = "dead"
       ELSE j.in_progress \/ j.fd = "dead"

Readable(s) == s # NoSock /\ (s.data # <<>> \/ ~s.live)

Readied == fill_pollfd(java_ctx, wakelock_held)

-----------------------------------------------------------------------------
(***************************************************************************)
(* The C clients.                                                          *)
(***************************************************************************)
handle_wakelock_change(slots) ==
    wakelock_held' = \E i \in Slots : slots[i].fd # NoSock /\ slots[i].wakelock_cnt > 0

\* handle_c_client_remove(): the buffer is freed but keeps its address, also
\* for the next client of the slot.  What accept() sets anew is left out.
Removed(x) == [NoClient EXCEPT !.msg_buffer =
                 IF x.msg_buffer = "null" THEN "null" ELSE "freed"]

Dropped(i) ==
    [c \in Clients |-> IF Mine(c, client_ctx[i].fd) THEN "eof" ELSE sock[c]]

handle_c_client_remove(i, x) ==
    IF x.msg_buffer = "freed" THEN dies("double free")
    ELSE /\ client_ctx' = [client_ctx EXCEPT ![i] = Removed(x)]
         /\ sock' = Dropped(i)
         /\ IF x.wakelock_cnt > 0 THEN handle_wakelock_change(client_ctx')
            ELSE UNCHANGED wakelock_held
         /\ UNCHANGED <<c_listen, j_listen, java_ctx, daemon, queued, java>>

\* accept(), into the first free slot or closed again.
FreeSlots == {i \in Slots : client_ctx[i].fd = NoSock}

AcceptC(s) ==
    IF FreeSlots # {}
    THEN /\ client_ctx' = [client_ctx EXCEPT ![Min(FreeSlots)] =
              [@ EXCEPT !.fd = s, !.msg_state = "NONE", !.wakelock_cnt = 0]]
         /\ UNCHANGED sock
    ELSE /\ sock' = [c \in Clients |-> IF Mine(c, s) THEN "eof" ELSE sock[c]]
         /\ UNCHANGED client_ctx

handle_c_client_conn ==
    /\ daemon = "runs" /\ c_listen # <<>>
    /\ AcceptC(Head(c_listen)) /\ c_listen' = Tail(c_listen)
    /\ UNCHANGED <<java_ctx, wakelock_held, daemon, queued, j_listen, javaVars, intents, faults, scenario>>

\* queue_msg()
queue_msg(m) == Append(java_ctx.queue, m)

\* A header or a body has been read from the client of slot i, and x is the
\* slot without it.
HeaderRead(i, x, unit) ==
    CASE unit = "part" ->   \* not the whole header
           /\ client_ctx' = [client_ctx EXCEPT ![i] = [x EXCEPT !.msg_state = "IN_HDR"]]
           /\ UNCHANGED <<java_ctx, wakelock_held, queued, netVars, daemon, java>>
      [] unit \in {"ACQUIRE", "RELEASE"} ->
           IF unit = "RELEASE" /\ x.wakelock_cnt = 0
           THEN handle_c_client_remove(i, [x EXCEPT !.wakelock_cnt = -1])
           ELSE /\ client_ctx' = [client_ctx EXCEPT ![i] =
                     [x EXCEPT !.wakelock_cnt = @ + IF unit = "ACQUIRE" THEN 1 ELSE -1,
                               !.msg_state = "NONE"]]
                /\ handle_wakelock_change(client_ctx')
                /\ UNCHANGED <<java_ctx, queued, netVars, daemon, java>>
      [] unit \in Intents ->
           /\ client_ctx' = [client_ctx EXCEPT ![i] =
                [x EXCEPT !.msg_state = "IN_MSG", !.msg_buffer = "alloc",
                          !.msg = [size |-> unit, number |-> java_ctx.count]]]
           /\ java_ctx' = [java_ctx EXCEPT !.count = (@ + 1) % Byte]
           /\ UNCHANGED <<wakelock_held, queued, netVars, daemon, java>>

BodyRead(i, x) ==
    /\ java_ctx' = [java_ctx EXCEPT !.queue =
         queue_msg([id |-> queued + 1, size |-> x.msg.size, number |-> x.msg.number,
                    retries |-> 0])]
    /\ client_ctx' = [client_ctx EXCEPT ![i] =
         [x EXCEPT !.msg_state = "NONE", !.msg_buffer = "null", !.msg = "none"]]
    /\ queued' = queued + 1
    /\ UNCHANGED <<wakelock_held, netVars, daemon, java>>

ClientRead(i, x) ==
    IF x.fd.data = <<>> THEN handle_c_client_remove(i, x)
    ELSE LET y == [x EXCEPT !.fd.data = Tail(@)] IN
         IF x.msg_state = "IN_MSG" THEN BodyRead(i, y) ELSE HeaderRead(i, y, Head(x.fd.data))

handle_c_client_event(i) ==
    /\ daemon = "runs" /\ Readable(client_ctx[i].fd)
    /\ ClientRead(i, client_ctx[i])
    /\ UNCHANGED <<delivered, intents, faults, scenario>>

-----------------------------------------------------------------------------
(***************************************************************************)
(* The Java application's side of the daemon.                              *)
(***************************************************************************)
\* handle_java_bridge_remove(): what it leaves of the queue.
Retried_OnceMore(q) == IF Head(q).retries >= MAX_RETRIES THEN Tail(q)   \* mutant
                       ELSE <<[Head(q) EXCEPT !.retries = @ + 1]>> \o Tail(q)

Retried(q) == IF Head(q).retries + 1 >= MAX_RETRIES THEN Tail(q)
              ELSE <<[Head(q) EXCEPT !.retries = @ + 1]>> \o Tail(q)

\* The link between two messages, without the values that are not used then.
Idle(j) == [j EXCEPT !.in_progress = FALSE, !.wait_ack = FALSE, !.ack = <<>>,
                     !.cmd = "RELEASE", !.number = 0]

handle_java_bridge_remove(j) ==
    IF j.msg # "wakelock" /\ j.queue = <<>>
    THEN dies("queue")   \* ASSERT(to_free)
    ELSE /\ java_ctx' = [Idle(j) EXCEPT !.fd = "none",
              !.queue = IF j.msg = "wakelock" THEN @ ELSE Retried(@)]
         /\ java' = [java EXCEPT !.sock = IF j.fd = "live" THEN "eof" ELSE @]
         /\ UNCHANGED <<client_ctx, wakelock_held, daemon, queued, netVars>>

\* A new application starts with nothing sent and no wakelock.
AcceptJ(s) ==
    IF java_ctx.fd = "none"
    THEN /\ java_ctx' = [Idle(java_ctx) EXCEPT !.fd = s, !.held = FALSE]
         /\ UNCHANGED java
    ELSE /\ java' = [java EXCEPT !.sock = IF s = "live" THEN "eof" ELSE @]
         /\ UNCHANGED java_ctx

handle_java_bridge_conn ==
    /\ daemon = "runs" /\ j_listen # <<>>
    /\ AcceptJ(Head(j_listen)) /\ j_listen' = Tail(j_listen)
    /\ UNCHANGED <<client_ctx, wakelock_held, daemon, queued, c_listen, sock,
                   delivered, intents, faults, scenario>>

\* The message that is under way to the application.
Current(j) == IF j.msg = "wakelock" THEN [cmd |-> j.cmd, number |-> j.number]
              ELSE [cmd |-> Head(j.queue).size, number |-> Head(j.queue).number,
                    id |-> Head(j.queue).id]

AckRead(j) ==
    IF j.ack = <<>> \/ Head(j.ack) # Current(j).number
    THEN handle_java_bridge_remove(j)
    ELSE /\ java_ctx' = [Idle(j) EXCEPT
              !.held = IF j.msg = "wakelock" THEN j.cmd = "ACQUIRE" ELSE @,
              !.msg = IF @ = "wakelock" THEN @ ELSE "stale",
              !.queue = IF j.msg = "wakelock" THEN @ ELSE Tail(@)]
         /\ UNCHANGED <<client_ctx, wakelock_held, daemon, queued, netVars, java>>

Written(j) ==
    /\ java_ctx' = [j EXCEPT !.wait_ack = TRUE, !.in_progress = FALSE, !.ack = <<>>]
    /\ java' = [java EXCEPT !.in = <<Current(j)>>]
    /\ UNCHANGED <<client_ctx, wakelock_held, daemon, queued, netVars>>

\* What the handler does: a write to an application that is gone raises
\* SIGPIPE, which main() does not ignore; under a parent that does, it fails.
JavaEvent(j) ==
    IF j.wait_ack THEN AckRead(j)
    ELSE IF ~j.in_progress THEN handle_java_bridge_remove(j)
    ELSE IF j.fd = "live" THEN Written(j)
    ELSE dies("SIGPIPE") \/ handle_java_bridge_remove(j)

handle_java_bridge_event ==
    /\ daemon = "runs" /\ JavaReady(Readied)
    /\ JavaEvent(Readied)
    /\ UNCHANGED <<delivered, intents, faults, scenario>>

-----------------------------------------------------------------------------
(***************************************************************************)
(* handle_timeout(): a client that is in the middle of a message, or the   *)
(* application, has not gone on in time.                                   *)
(***************************************************************************)
Quiet == daemon = "runs" /\ c_listen = <<>> /\ j_listen = <<>>

TimeoutClient(i) ==
    /\ Quiet /\ \A k \in Slots : ~Readable(client_ctx[k].fd)
    /\ ~JavaReady(fill_pollfd(java_ctx, wakelock_held))
    /\ client_ctx[i].fd # NoSock /\ client_ctx[i].msg_state # "NONE"
    /\ handle_c_client_remove(i, client_ctx[i])
    /\ UNCHANGED <<delivered, intents, faults, scenario>>

\* The application does not read, or reads for ever: the size of a "long"
\* message is not the one it takes it for.
Reads(m) == m # <<>> /\ Head(m).cmd # "long"

Expires(j) ==
    /\ j.fd # "none" /\ (j.in_progress \/ (j.wait_ack /\ j.ack = <<>>))
    /\ handle_java_bridge_remove(j)
    /\ UNCHANGED <<delivered, intents, scenario>>

Waits(j) == j.fd = "live" /\ j.wait_ack /\ ~Reads(java.in)

TimeoutJava ==
    /\ Quiet /\ \A k \in Slots : ~Readable(client_ctx[k].fd)
    /\ Waits(java_ctx) /\ Expires(java_ctx)
    /\ UNCHANGED faults

SlowJava ==
    /\ Quiet /\ \A k \in Slots : ~Readable(client_ctx[k].fd)
    /\ ~Waits(java_ctx) /\ Fault("slow")
    /\ Expires(fill_pollfd(java_ctx, wakelock_held))

-----------------------------------------------------------------------------
(***************************************************************************)
(* The application, DaemonSocket.run().  It reads and writes bytes through *)
(* readers and writers of text, so that a byte which is no ASCII character *)
(* is replaced by others: the acknowledgement of such a number is another  *)
(* one.                                                                    *)
(***************************************************************************)
Mangled(n) == IF n < Ascii THEN n ELSE Byte

\* getSocket()
JavaConnect ==
    /\ java.sock = "none" /\ daemon = "runs" /\ j_listen = <<>>
    /\ java' = [java EXCEPT !.sock = "up"]
    /\ j_listen' = <<"live">>
    /\ UNCHANGED <<daemonVars, c_listen, sock, delivered, intents, faults, scenario>>

\* The broadcast of an intent.
Deliver(m) == delivered' = [last |-> m.id,
                            times |-> IF m.id = delivered.last THEN delivered.times + 1
                                      ELSE 1]

\* A message is read and obeyed.  When the daemon has closed the socket the
\* acknowledgement cannot be written, and the wakelock goes with it.
JavaRead(m) ==
    /\ IF m.cmd \in {"ACQUIRE", "RELEASE"} THEN UNCHANGED delivered ELSE Deliver(m)
    /\ IF java.sock = "up"
       THEN /\ java' = [java EXCEPT !.in = <<>>,
                 !.lock = CASE m.cmd = "ACQUIRE" -> "held"
                             [] m.cmd = "RELEASE" -> "released"
                             [] OTHER -> @]
            /\ java_ctx' = [java_ctx EXCEPT !.ack = <<Mangled(m.number)>>]
       ELSE java' = Asleep /\ UNCHANGED java_ctx

JavaReads ==
    /\ Reads(java.in)
    /\ JavaRead(Head(java.in))
    /\ UNCHANGED <<client_ctx, wakelock_held, daemon, queued, netVars, intents, faults, scenario>>

\* wakelockAcquire() takes the wakelock for five minutes: when they have passed
\* the platform drops it, and tells neither the application nor the daemon.
LockExpires ==
    /\ java.lock = "held"
    /\ java' = [java EXCEPT !.lock = "expired"]
    /\ UNCHANGED <<daemonVars, netVars, delivered, intents, faults, scenario>>

\* The socket is at its end: disconnected() releases the wakelock.
JavaEnds_Holds ==   \* mutant
    /\ java.sock = "eof" /\ ~Reads(java.in)
    /\ java' = [java EXCEPT !.sock = "none", !.in = <<>>]
    /\ UNCHANGED <<daemonVars, netVars, delivered, intents, faults, scenario>>

JavaEnds ==
    /\ java.sock = "eof" /\ ~Reads(java.in)
    /\ java' = Asleep
    /\ UNCHANGED <<daemonVars, netVars, delivered, intents, faults, scenario>>

\* The application is killed, or throws out of a message it has read: its
\* socket is closed, and the system takes the wakelock back.
Hangup ==
    /\ java' = Asleep
    /\ java_ctx' = [java_ctx EXCEPT !.fd = IF @ = "live" THEN "dead" ELSE @]
    /\ j_listen' = [i \in DOMAIN j_listen |-> "dead"]
    /\ UNCHANGED <<client_ctx, wakelock_held, daemon, queued, intents, c_listen, sock, scenario>>

JavaDies == /\ Fault("java") /\ java.sock # "none"
            /\ Hangup
            /\ \/ UNCHANGED delivered
               \/ /\ Reads(java.in) /\ Head(java.in).cmd \in Intents
                  /\ Deliver(Head(java.in))

DaemonStep == \/ handle_c_client_conn \/ handle_java_bridge_conn
              \/ \E i \in Slots : handle_c_client_event(i)
              \/ handle_java_bridge_event
              \/ Restart
JavaStep   == JavaConnect \/ JavaReads \/ JavaEnds
=============================================================================
