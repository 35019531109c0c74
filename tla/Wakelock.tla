------------------------------ MODULE Wakelock ------------------------------
(***************************************************************************)
(* The wakelock of CRM in the build that goes through the Java bridge.     *)
(* The modules of CRM count their acquisitions under a lock, and then tell *)
(* a thread through a queue that something has changed; the thread holds   *)
(* the connection to the bridge and sends it what is asked for now.        *)
(* Beside it, CRM broadcasts intents, each through a connection of its     *)
(* own.                                                                    *)
(***************************************************************************)
EXTENDS Bridge, Ipc

CONSTANTS
    Modules,    \* users of the wakelock in CRM
    MaxCount    \* bound on the acquisitions of a module

VARIABLES
    count,      \* acquisitions, by module
    telling,    \* modules that have changed their count and not yet told it
    ipc,        \* the queue of the thread
    thread      \* the thread: where it is, and its local variables

wakeVars == <<count, telling, ipc, thread>>
vars     == <<bridgeVars, wakeVars>>

CRM == "crm"      \* the connection of the thread
CTL == "control"  \* the connections of the intents

WInit == /\ Init
         /\ count = [m \in Modules |-> 0] /\ telling = {} /\ ipc = <<>>
         /\ thread = [pc |-> "top", b_fd |-> FALSE, wakelock_acquired |-> FALSE,
                      to_update |-> FALSE, acquire |-> FALSE]

is_held == \E m \in Modules : count[m] > 0

-----------------------------------------------------------------------------
(***************************************************************************)
(* The modules: the count is changed under the lock, the message is sent   *)
(* after it, and is dropped when the queue is full.                        *)
(***************************************************************************)
Usable(m) == m \in scenario.modules /\ m \notin telling /\ thread.pc # "done" /\ -1 \notin telling

acquire(m) ==
    /\ Usable(m) /\ count[m] < MaxCount
    /\ count' = [count EXCEPT ![m] = @ + 1] /\ telling' = telling \cup {m}
    /\ UNCHANGED <<bridgeVars, ipc, thread>>

\* A release that was not preceded by an acquisition is ignored.
release(m) ==
    /\ Usable(m)
    /\ count' = [count EXCEPT ![m] = IF @ > 0 THEN @ - 1 ELSE @]
    /\ telling' = telling \cup {m}
    /\ UNCHANGED <<bridgeVars, ipc, thread>>

Tell(m) == /\ m \in telling
           /\ telling' = telling \ {m} /\ ipc' = Send(ipc, <<1>>)
           /\ UNCHANGED <<bridgeVars, count, thread>>

\* dispose(), once no module uses the wakelock any more.  The bound: only in a
\* behaviour without intents.
Dispose == /\ scenario.intents = 0 /\ thread.pc # "done" /\ telling = {}
           /\ telling' = {-1} /\ ipc' = Send(ipc, <<-1>>)
           /\ UNCHANGED <<bridgeVars, count, thread>>

-----------------------------------------------------------------------------
(***************************************************************************)
(* wakelock_thread().                                                      *)
(***************************************************************************)
\* The head of the loop, with the connection there is then: t is the thread
\* when the bridge has been tried.
Updates(t) ==
    thread' = IF ~t.to_update THEN [t EXCEPT !.pc = "poll"]
              ELSE IF is_held = t.wakelock_acquired
              THEN [t EXCEPT !.to_update = FALSE, !.pc = "poll"]
              ELSE [t EXCEPT !.to_update = FALSE, !.pc = "send", !.acquire = is_held]

Top_KeepsState ==   \* mutant
    /\ thread.pc = "top"
    /\ IF ~thread.b_fd /\ Connectable
       THEN /\ bridge_connect(CRM, <<>>, TRUE) /\ sock' = [sock EXCEPT ![CRM] = "up"]
            /\ Updates([thread EXCEPT !.b_fd = TRUE, !.to_update = TRUE])
       ELSE /\ UNCHANGED <<netVars, client_ctx>>
            /\ Updates(thread)
    /\ UNCHANGED <<java_ctx, wakelock_held, daemon, queued, javaVars, intents,
                   faults, scenario, count, telling, ipc>>

Top ==
    /\ thread.pc = "top"
    /\ IF ~thread.b_fd /\ Connectable
       THEN /\ bridge_connect(CRM, <<>>, TRUE) /\ sock' = [sock EXCEPT ![CRM] = "up"]
            /\ Updates([thread EXCEPT !.b_fd = TRUE, !.to_update = TRUE,
                                      !.wakelock_acquired = FALSE])
       ELSE /\ UNCHANGED <<netVars, client_ctx>>
            /\ Updates([thread EXCEPT !.wakelock_acquired = @ /\ thread.b_fd])
    /\ UNCHANGED <<java_ctx, wakelock_held, daemon, queued, javaVars, intents,
                   faults, scenario, count, telling, ipc>>

\* wakelock() fails: the thread disconnects.
Fails == /\ bridge_disconnect(CRM)
         /\ thread' = [thread EXCEPT !.pc = "poll", !.b_fd = FALSE, !.acquire = FALSE]

Sends ==
    /\ thread.pc = "send" /\ Room(CRM)
    /\ IF thread.b_fd /\ sock[CRM] = "up"
       THEN /\ write(CRM, <<IF thread.acquire THEN "ACQUIRE" ELSE "RELEASE">>)
            /\ thread' = [thread EXCEPT !.pc = "poll", !.acquire = FALSE,
                                      !.wakelock_acquired = thread.acquire]
       ELSE Fails
    /\ UNCHANGED <<java_ctx, wakelock_held, daemon, queued, javaVars, intents,
                   faults, scenario, count, telling, ipc>>

\* A part of the message is written, and there is no room for the rest.
Stalls ==
    /\ thread.pc = "send" /\ thread.b_fd /\ Fault("partial")
    /\ write(CRM, <<"part">>)
    /\ thread' = [thread EXCEPT !.pc = "stalled"]
    /\ UNCHANGED <<java_ctx, wakelock_held, daemon, queued, javaVars, intents,
                   scenario, count, telling, ipc>>

GivesUp ==
    /\ thread.pc = "stalled" /\ Fails
    /\ UNCHANGED <<java_ctx, wakelock_held, daemon, queued, javaVars, intents,
                   faults, scenario, count, telling, ipc>>

\* poll(): a message goes before a hang-up of the bridge, and without a
\* connection it lasts 500 ms.  At the end dispose() closes the connection.
Polls ==
    /\ thread.pc = "poll"
    /\ IF ipc # <<>>
       THEN /\ ipc' = Tail(ipc)
            /\ IF Head(ipc) = -1
               THEN thread' = [thread EXCEPT !.pc = "done"] /\ bridge_disconnect(CRM)
               ELSE /\ thread' = [thread EXCEPT !.pc = "top", !.to_update = TRUE]
                    /\ UNCHANGED <<netVars, client_ctx>>
       ELSE /\ ~thread.b_fd \/ sock[CRM] = "eof"
            /\ IF thread.b_fd
               THEN bridge_disconnect(CRM) ELSE UNCHANGED <<netVars, client_ctx>>
            /\ thread' = [thread EXCEPT !.pc = "top", !.b_fd = FALSE]
            /\ UNCHANGED ipc
    /\ UNCHANGED <<java_ctx, wakelock_held, daemon, queued, javaVars, intents,
                   faults, scenario, count, telling>>

ThreadStep == Top \/ Sends \/ GivesUp \/ Polls

-----------------------------------------------------------------------------
BridgeNext == DaemonStep \/ JavaStep \/ TimeoutJava \/ SlowJava \/ JavaDies
              \/ LockExpires \/ \E i \in Slots : TimeoutClient(i)

Broadcast == \E m \in Intents : broadcast_intent(CTL, m) \/ broadcast_cut(CTL, m)

WNext == \/ (BridgeNext \/ Broadcast) /\ UNCHANGED wakeVars
         \/ ThreadStep \/ Stalls
         \/ \E m \in Modules : acquire(m) \/ release(m) \/ Tell(m)
         \/ Dispose

WSpec == WInit /\ [][WNext]_vars

-----------------------------------------------------------------------------
(***************************************************************************)
(* The application never has the wakelock, and never had it until its time *)
(* limit, without the daemon knowing: the daemon counts it as held, or     *)
(* waits for the acknowledgement, or the application is about to find its  *)
(* connection closed and to release it.                                    *)
(***************************************************************************)
LockIsKnown ==
    java.lock # "released" /\ java.sock = "up" /\ daemon = "runs" =>
        /\ java_ctx.fd = "live"
        /\ \/ java_ctx.held
           \/ java_ctx.wait_ack /\ java_ctx.msg = "wakelock" /\ java_ctx.cmd = "ACQUIRE"

(***************************************************************************)
(* Intents are broadcast in the order in which they were queued, and none  *)
(* more often than MAX_RETRIES times, whatever becomes of the application. *)
(***************************************************************************)
InOrder == [][delivered'.last >= delivered.last /\ delivered'.times <= MAX_RETRIES]_vars

(***************************************************************************)
(* The application follows CRM: when a module holds the wakelock for good, *)
(* the application ends up having taken it, and from then on loses it by   *)
(* nothing but the time limit it put on it; when none does, or CRM has     *)
(* disposed of it, the application ends up having released it.  Lost       *)
(* connections, a restarted application or daemon, dropped messages of the *)
(* full queue and rejected acknowledgements only delay it.  Once the limit *)
(* has passed nothing renews the wakelock: the daemon sends a request only *)
(* when its own count changes.                                             *)
(***************************************************************************)
LockFollows ==
    /\ <>[](is_held /\ thread.pc # "done") => <>[](java.lock # "released")
    /\ <>[](~is_held \/ thread.pc = "done") => <>[](java.lock = "released")
=============================================================================
