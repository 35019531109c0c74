--------------------------- MODULE WatchdogProofs ---------------------------
(***************************************************************************)
(* The protocol between control and its watchdog, for every size of the    *)
(* queue and every MAX_REQ_ID.                                             *)
(*                                                                         *)
(* The requests of control alternate: STOP k follows START k, and START    *)
(* of the next id follows STOP k.  The inductive invariant says that the   *)
(* queue, read from the request the watchdog has handled last, is such a   *)
(* chain, that it ends with the request control has sent last, and that    *)
(* the PONGs interspersed in it are at most one.                           *)
(***************************************************************************)
EXTENDS Watchdog, SequenceTheorems, TLAPS

Reqs == {"START", "STOP"} \X (Ids \cup {-1})

\* Request n is what control sends after request m.
Follows(m, n) ==
    \/ m[1] = "START" /\ n = STOP(m[2])
    \/ m[1] = "STOP"  /\ n = START(watchdog_get_new_id(m[2]))

\* f[i] is the last request among a and the first i messages of q.
IsChain(f, q, a, b) ==
    /\ f[0] = a /\ f[Len(q)] = b
    /\ \A i \in 1 .. Len(q) :
         IF q[i][1] = "PONG" THEN f[i] = f[i - 1]
         ELSE f[i] = q[i] /\ Follows(f[i - 1], q[i])

Chained(q, a, b) == \E f \in [0 .. Len(q) -> Reqs] : IsChain(f, q, a, b)

Handled == <<IF req.armed THEN "START" ELSE "STOP", req.id>>
Sent    == <<IF outside THEN "START" ELSE "STOP", watch_id>>

(***************************************************************************)
(* The PING timer p, the PINGs pq and the PONGs in q belong together: the  *)
(* awaited answer is in at most one place.                                 *)
(***************************************************************************)
PongsOk(q, pq, p) ==
    /\ p.waiting_pong <=> p.wakelock
    /\ \A i \in 1 .. Len(q) : q[i][1] = "PONG" =>
         /\ q[i][2] = p.id /\ p.waiting_pong /\ pq = <<>>
         /\ \A j \in 1 .. Len(q) : q[j][1] = "PONG" => i = j
    /\ pq # <<>> => /\ pq = <<p.id>> /\ p.waiting_pong
                   /\ \A i \in 1 .. Len(q) : q[i][1] # "PONG"

Good == /\ Chained(reqQ, Handled, Sent) /\ PongsOk(reqQ, pingQ, ping)
        /\ req.armed <=> req.wakelock

Inv == /\ WatchdogTypeOK /\ ProtocolHolds /\ NoFalseAlarm
       /\ (~lost /\ ended = "no") => Good

-----------------------------------------------------------------------------
Msgs == {"START", "STOP", "PONG"} \X Ids

\* Ids stay ids through the wrap.
LEMMA NewId == ASSUME NEW id \in Ids \cup {-1} PROVE watchdog_get_new_id(id) \in Ids
BY IdAssumption DEF Ids, watchdog_get_new_id

(***************************************************************************)
(* A chain that loses its head, or gets one more message at its end.       *)
(***************************************************************************)
LEMMA EmptyChain == ASSUME NEW a \in Reqs, NEW b
                    PROVE  Chained(<<>>, a, b) <=> a = b
<1>1. ASSUME a = b PROVE Chained(<<>>, a, b)
  <2> DEFINE f == [i \in 0 .. 0 |-> a]
  <2>1. f \in [0 .. Len(<<>>) -> Reqs] /\ IsChain(f, <<>>, a, b)
    BY <1>1 DEF IsChain
  <2> QED BY <2>1 DEF Chained
<1>2. ASSUME Chained(<<>>, a, b) PROVE a = b
  BY <1>2 DEF Chained, IsChain
<1> QED BY <1>1, <1>2

LEMMA ChainEnd ==
    ASSUME NEW q \in Seq(Msgs), NEW a, NEW b, Chained(q, a, b),
           NEW m \in Msgs,
           NEW c \in Reqs, IF m[1] = "PONG" THEN c = b ELSE c = m /\ Follows(b, m)
    PROVE  Chained(Append(q, m), a, c)
<1>1. PICK f \in [0 .. Len(q) -> Reqs] : IsChain(f, q, a, b)
  BY DEF Chained
<1> DEFINE p == Append(q, m)
           n == Len(q)
           g == [i \in 0 .. n + 1 |-> IF i = n + 1 THEN c ELSE f[i]]
<1>2. /\ n \in Nat /\ Len(p) = n + 1 /\ p[n + 1] = m
      /\ \A i \in 1 .. n : p[i] = q[i]
  BY AppendProperties
<1>3. g \in [0 .. Len(p) -> Reqs] /\ g[0] = a /\ g[Len(p)] = c
  BY <1>1, <1>2 DEF IsChain
<1> HIDE DEF p
<1>4. ASSUME NEW i \in 1 .. n + 1
      PROVE  IF p[i][1] = "PONG" THEN g[i] = g[i - 1]
             ELSE g[i] = p[i] /\ Follows(g[i - 1], p[i])
  <2>1. CASE i = n + 1
    <3>1. g[i] = c /\ g[i - 1] = b
      BY <1>1, <1>2, <2>1 DEF IsChain
    <3> QED BY <1>2, <2>1, <3>1
  <2>2. CASE i \in 1 .. n
    <3>1. g[i] = f[i] /\ g[i - 1] = f[i - 1]
      BY <1>2, <2>2
    <3> QED BY <1>1, <1>2, <2>2, <3>1 DEF IsChain
  <2> QED BY <1>2, <2>1, <2>2
<1> HIDE DEF g
<1>5. IsChain(g, p, a, c)
  BY <1>2, <1>3, <1>4 DEF IsChain
<1> QED BY <1>3, <1>5 DEF Chained, p

LEMMA ChainHead ==
    ASSUME NEW q \in Seq(Msgs), q # <<>>, NEW a, NEW b, Chained(q, a, b)
    PROVE  IF Head(q)[1] = "PONG" THEN Chained(Tail(q), a, b)
           ELSE Follows(a, Head(q)) /\ Chained(Tail(q), Head(q), b)
<1>1. PICK f \in [0 .. Len(q) -> Reqs] : IsChain(f, q, a, b)
  BY DEF Chained
<1> DEFINE p == Tail(q)
           n == Len(q)
           g == [i \in 0 .. n - 1 |-> f[i + 1]]
<1>2. /\ n \in Nat /\ n > 0 /\ Len(p) = n - 1 /\ Head(q) = q[1]
      /\ \A i \in 1 .. n - 1 : p[i] = q[i + 1]
  BY HeadTailProperties
<1>3. g \in [0 .. Len(p) -> Reqs] /\ g[0] = f[1] /\ g[Len(p)] = b
  BY <1>1, <1>2 DEF IsChain
<1> HIDE DEF p
<1>4. ASSUME NEW i \in 1 .. n - 1
      PROVE  IF p[i][1] = "PONG" THEN g[i] = g[i - 1]
             ELSE g[i] = p[i] /\ Follows(g[i - 1], p[i])
  <2>1. g[i] = f[i + 1] /\ g[i - 1] = f[i] /\ p[i] = q[i + 1]
    BY <1>2
  <2>2. /\ i + 1 \in 1 .. n /\ (i + 1) - 1 = i
    BY <1>2
  <2>3. IF q[i + 1][1] = "PONG" THEN f[i + 1] = f[(i + 1) - 1]
        ELSE f[i + 1] = q[i + 1] /\ Follows(f[(i + 1) - 1], q[i + 1])
    BY <1>1, <2>2 DEF IsChain
  <2> QED BY <2>1, <2>2, <2>3
<1> HIDE DEF g
<1>5. IsChain(g, p, f[1], b)
  BY <1>2, <1>3, <1>4 DEF IsChain
<1>6. Chained(p, f[1], b)
  BY <1>3, <1>5 DEF Chained
<1>7. f[0] = a /\ IF q[1][1] = "PONG" THEN f[1] = f[0]
      ELSE f[1] = q[1] /\ Follows(f[0], q[1])
  BY <1>1, <1>2 DEF IsChain
<1> QED BY <1>2, <1>6, <1>7 DEF p

(***************************************************************************)
(* PONGs and PINGs as messages come and go.                                *)
(***************************************************************************)
LEMMA PongsAppend ==
    ASSUME NEW q \in Seq(Msgs), NEW pq, NEW p, PongsOk(q, pq, p),
           NEW m \in Msgs, m[1] # "PONG"
    PROVE  PongsOk(Append(q, m), pq, p)
<1> DEFINE r == Append(q, m)
<1>1. /\ Len(q) \in Nat /\ Len(r) = Len(q) + 1 /\ r[Len(q) + 1] = m
      /\ \A i \in 1 .. Len(q) : r[i] = q[i]
  BY AppendProperties
<1> HIDE DEF r
<1>2. \A i \in 1 .. Len(r) : r[i][1] = "PONG" => i \in 1 .. Len(q) /\ r[i] = q[i]
  BY <1>1
<1>3. PongsOk(r, pq, p)
  BY <1>2 DEF PongsOk
<1> QED BY <1>3 DEF r

LEMMA PongsTail ==
    ASSUME NEW q \in Seq(Msgs), q # <<>>, NEW pq, NEW p, PongsOk(q, pq, p)
    PROVE  /\ PongsOk(Tail(q), pq, p)
           /\ Head(q)[1] = "PONG" =>
                /\ Head(q)[2] = p.id /\ p.waiting_pong /\ p.wakelock /\ pq = <<>>
                /\ \A i \in 1 .. Len(Tail(q)) : Tail(q)[i][1] # "PONG"
<1> DEFINE r == Tail(q)
<1>1. /\ Len(q) \in Nat /\ Len(q) > 0 /\ Len(r) = Len(q) - 1 /\ Head(q) = q[1]
      /\ \A i \in 1 .. Len(r) : r[i] = q[i + 1]
  BY HeadTailProperties
<1> HIDE DEF r
<1>2. \A i \in 1 .. Len(r) : i + 1 \in 1 .. Len(q) /\ i + 1 # 1
  BY <1>1
<1>3. PongsOk(r, pq, p)
  <2>1. \A i, j \in 1 .. Len(r) : i + 1 = j + 1 => i = j
    BY <1>1
  <2> QED BY <1>1, <1>2, <2>1 DEF PongsOk
<1>4. 1 \in 1 .. Len(q)
  BY <1>1
<1>5. Head(q)[1] = "PONG" => \A i \in 1 .. Len(r) : r[i][1] # "PONG"
  BY <1>1, <1>2, <1>4 DEF PongsOk
<1>6. Head(q)[1] = "PONG" =>
        Head(q)[2] = p.id /\ p.waiting_pong /\ p.wakelock /\ pq = <<>>
  BY <1>1, <1>4 DEF PongsOk
<1> QED BY <1>3, <1>5, <1>6 DEF r

LEMMA PongSent ==
    ASSUME NEW q \in Seq(Msgs), NEW pq \in Seq(Ids), pq # <<>>, NEW p,
           PongsOk(q, pq, p)
    PROVE  PongsOk(Append(q, PONG(Head(pq))), Tail(pq), p)
<1> DEFINE m == PONG(Head(pq))
           r == Append(q, m)
<1>0. pq = <<p.id>> /\ p.waiting_pong /\ \A i \in 1 .. Len(q) : q[i][1] # "PONG"
  BY DEF PongsOk
<1>1. Head(pq) = p.id /\ Tail(pq) = <<>> /\ m[1] = "PONG" /\ m[2] = p.id
  BY <1>0 DEF PONG
<1>2. m \in Msgs
  BY <1>1, HeadTailProperties DEF PONG, Msgs
<1>3. /\ Len(q) \in Nat /\ Len(r) = Len(q) + 1 /\ r[Len(q) + 1] = m
      /\ \A i \in 1 .. Len(q) : r[i] = q[i]
  BY <1>2, AppendProperties
<1> HIDE DEF r
<1>4. \A i \in 1 .. Len(r) : r[i][1] = "PONG" => i = Len(q) + 1 /\ r[i] = m
  BY <1>0, <1>3
<1> HIDE DEF m
<1>5. PongsOk(r, <<>>, p)
  BY <1>0, <1>1, <1>4 DEF PongsOk
<1> QED BY <1>1, <1>5 DEF r, m

-----------------------------------------------------------------------------
LEMMA SendType ==
    ASSUME NEW S, NEW q \in Seq(S), NEW ms \in Seq(S)
    PROVE  Send(q, ms) \in Seq(S)
BY QSizeAssumption DEF Send, Fits

\* What a message of control does to the queue.
LEMMA SentType ==
    ASSUME reqQ \in Seq(Msgs), lost \in BOOLEAN, NEW ms \in Seq(Msgs), SendReq(ms)
    PROVE  /\ reqQ' \in Seq(Msgs) /\ lost' \in BOOLEAN
           /\ ~lost' => ~lost /\ reqQ' = reqQ \o ms
BY SendType DEF SendReq, Send

LEMMA TypeFacts ==
    ASSUME WatchdogTypeOK
    PROVE  /\ reqQ \in Seq(Msgs) /\ pingQ \in Seq(Ids) /\ watch_id \in Ids
           /\ Handled \in Reqs /\ Sent \in Reqs
           /\ req.id \in Ids \cup {-1} /\ ping.id \in Ids \cup {-1}
           /\ lost \in BOOLEAN /\ outside \in BOOLEAN
BY DEF WatchdogTypeOK, Msgs, Handled, Sent, Reqs

LEMMA LeaveKeeps == ASSUME Inv, Leave PROVE Inv'
<1> DEFINE m == START(watch_id')
<1>1. WatchdogTypeOK /\ ended = "no" /\ ended' = "no" /\ ~outside /\ outside' = TRUE
  BY DEF Inv, Leave
<1>2. watch_id' = watchdog_get_new_id(watch_id) /\ watch_id' \in Ids
  BY <1>1, NewId, TypeFacts DEF Leave
<1>3. m \in Msgs /\ <<m>> \in Seq(Msgs) /\ m[1] = "START" /\ m \in Reqs
  BY <1>2 DEF START, Msgs, Reqs
<1>4. /\ reqQ' \in Seq(Msgs) /\ lost' \in BOOLEAN
      /\ ~lost' => ~lost /\ reqQ' = reqQ \o <<m>>
  BY <1>1, <1>3, SentType, TypeFacts DEF Leave
<1>5. WatchdogTypeOK'
  BY <1>1, <1>2, <1>4 DEF WatchdogTypeOK, Leave, Msgs
<1>6. ASSUME ~lost' PROVE Good'
  <2>1. Good /\ reqQ' = Append(reqQ, m)
    BY <1>1, <1>3, <1>4, <1>6, TypeFacts DEF Inv, Good
  <2>2. Follows(Sent, m) /\ Sent' = m /\ Handled' = Handled
    BY <1>1, <1>2 DEF Follows, Sent, Handled, START, Leave
  <2>3. Chained(Append(reqQ, m), Handled, m)
    BY <1>1, <1>3, <2>1, <2>2, ChainEnd, TypeFacts DEF Good
  <2>4. PongsOk(Append(reqQ, m), pingQ, ping)
    BY <1>1, <1>3, <2>1, PongsAppend, TypeFacts DEF Good
  <2> QED BY <2>1, <2>2, <2>3, <2>4 DEF Good, Leave
<1> QED BY <1>1, <1>5, <1>6 DEF Inv, Good, ProtocolHolds, NoFalseAlarm

LEMMA EnterKeeps == ASSUME Inv, Enter PROVE Inv'
<1> DEFINE m == STOP(watch_id)
<1>1. WatchdogTypeOK /\ ended = "no" /\ ended' = "no" /\ outside /\ outside' = FALSE
  BY DEF Inv, Enter
<1>2. m \in Msgs /\ <<m>> \in Seq(Msgs) /\ m[1] = "STOP" /\ m \in Reqs
  BY <1>1, TypeFacts DEF STOP, Msgs, Reqs
<1>3. /\ reqQ' \in Seq(Msgs) /\ lost' \in BOOLEAN
      /\ ~lost' => ~lost /\ reqQ' = reqQ \o <<m>>
  BY <1>1, <1>2, SentType, TypeFacts DEF Enter
<1>4. WatchdogTypeOK'
  BY <1>1, <1>3 DEF WatchdogTypeOK, Enter, Msgs
<1>5. ASSUME ~lost' PROVE Good'
  <2>1. Good /\ reqQ' = Append(reqQ, m)
    BY <1>1, <1>2, <1>3, <1>5, TypeFacts DEF Inv, Good
  <2>2. Follows(Sent, m) /\ Sent' = m /\ Handled' = Handled
    BY <1>1 DEF Follows, Sent, Handled, STOP, Enter
  <2>3. Chained(Append(reqQ, m), Handled, m)
    BY <1>1, <1>2, <2>1, <2>2, ChainEnd, TypeFacts DEF Good
  <2>4. PongsOk(Append(reqQ, m), pingQ, ping)
    BY <1>1, <1>2, <2>1, PongsAppend, TypeFacts DEF Good
  <2> QED BY <2>1, <2>2, <2>3, <2>4 DEF Good, Enter
<1> QED BY <1>1, <1>4, <1>5 DEF Inv, Good, ProtocolHolds, NoFalseAlarm

LEMMA CrossKeeps == ASSUME Inv, Cross PROVE Inv'
<1> DEFINE m == START(watch_id')
           n == STOP(watch_id')
<1>1. WatchdogTypeOK /\ ended = "no" /\ ended' = "no" /\ ~outside /\ outside' = outside
  BY DEF Inv, Cross
<1>2. watch_id' = watchdog_get_new_id(watch_id) /\ watch_id' \in Ids
  BY <1>1, NewId, TypeFacts DEF Cross
<1>3. /\ m \in Msgs /\ m[1] = "START" /\ m \in Reqs
      /\ n \in Msgs /\ n[1] = "STOP" /\ n \in Reqs
      /\ <<m, n>> \in Seq(Msgs)
  BY <1>2 DEF START, STOP, Msgs, Reqs
<1>4. /\ reqQ' \in Seq(Msgs) /\ lost' \in BOOLEAN
      /\ ~lost' => ~lost /\ reqQ' = reqQ \o <<m, n>>
  BY <1>1, <1>3, SentType, TypeFacts DEF Cross
<1>5. WatchdogTypeOK'
  BY <1>1, <1>2, <1>4 DEF WatchdogTypeOK, Cross, Msgs
<1>6. ASSUME ~lost' PROVE Good'
  <2> DEFINE q == Append(reqQ, m)
  <2>1. Good /\ reqQ' = Append(q, n) /\ q \in Seq(Msgs)
    BY <1>1, <1>3, <1>4, <1>6, TypeFacts DEF Inv, Good
  <2>2. Follows(Sent, m) /\ Follows(m, n) /\ Sent' = n /\ Handled' = Handled
    BY <1>1, <1>2 DEF Follows, Sent, Handled, START, STOP, Cross
  <2>3. Chained(q, Handled, m)
    BY <1>1, <1>3, <2>1, <2>2, ChainEnd, TypeFacts DEF Good
  <2>4. PongsOk(q, pingQ, ping)
    BY <1>1, <1>3, <2>1, PongsAppend, TypeFacts DEF Good
  <2> HIDE DEF q
  <2>5. Chained(Append(q, n), Handled, n)
    BY <1>3, <2>1, <2>2, <2>3, ChainEnd
  <2>6. PongsOk(Append(q, n), pingQ, ping)
    BY <1>3, <2>1, <2>4, PongsAppend
  <2> QED BY <2>1, <2>2, <2>5, <2>6 DEF Good, Cross
<1> QED BY <1>1, <1>5, <1>6 DEF Inv, Good, ProtocolHolds, NoFalseAlarm

LEMMA AnswerKeeps == ASSUME Inv, Answer PROVE Inv'
<1> DEFINE m == PONG(Head(pingQ))
<1>1. WatchdogTypeOK /\ ended = "no" /\ ended' = "no" /\ pingQ # <<>>
  BY DEF Inv, Answer
<1>2. Head(pingQ) \in Ids /\ pingQ' \in Seq(Ids) /\ pingQ' = Tail(pingQ)
  BY <1>1, TypeFacts, HeadTailProperties DEF Answer
<1>3. m \in Msgs /\ <<m>> \in Seq(Msgs) /\ m[1] = "PONG"
  BY <1>2 DEF PONG, Msgs
<1>4. /\ reqQ' \in Seq(Msgs) /\ lost' \in BOOLEAN
      /\ ~lost' => ~lost /\ reqQ' = reqQ \o <<m>>
  BY <1>1, <1>3, SentType, TypeFacts DEF Answer
<1>5. WatchdogTypeOK'
  BY <1>1, <1>2, <1>4 DEF WatchdogTypeOK, Answer, Msgs, ctlVars
<1>6. ASSUME ~lost' PROVE Good'
  <2>1. Good /\ reqQ' = Append(reqQ, m)
    BY <1>1, <1>3, <1>4, <1>6, TypeFacts DEF Inv
  <2>2. Sent' = Sent /\ Handled' = Handled
    BY DEF Sent, Handled, Answer, ctlVars
  <2>3. Chained(Append(reqQ, m), Handled, Sent)
    BY <1>1, <1>3, <2>1, ChainEnd, TypeFacts DEF Good
  <2>4. PongsOk(Append(reqQ, m), Tail(pingQ), ping)
    BY <1>1, <2>1, PongSent, TypeFacts DEF Good
  <2> QED BY <1>2, <2>1, <2>2, <2>3, <2>4 DEF Good, Answer
<1> QED BY <1>1, <1>5, <1>6 DEF Inv, ProtocolHolds, NoFalseAlarm

-----------------------------------------------------------------------------
\* What the watchdog's reading of a message leaves to be shown.
LEMMA TakeFacts ==
    ASSUME WatchdogTypeOK, NEW kind, Received(kind), Take
    PROVE  /\ reqQ # <<>> /\ Head(reqQ) \in Msgs /\ Head(reqQ)[1] = kind
           /\ Head(reqQ) = <<kind, Id>> /\ Id \in Ids
           /\ reqQ' = Tail(reqQ) /\ reqQ' \in Seq(Msgs) /\ ended = "no"
           /\ UNCHANGED <<outside, watch_id, pingQ, lost>> /\ Sent' = Sent
<1>1. Head(reqQ) \in Msgs /\ Tail(reqQ) \in Seq(Msgs)
  BY TypeFacts, HeadTailProperties DEF Received
<1> QED BY <1>1 DEF Received, Take, ctlVars, Msgs, Id, Sent

LEMMA StartKeeps == ASSUME Inv, HandleStart PROVE Inv'
<1>1. WatchdogTypeOK /\ Received("START") /\ Take
  BY DEF Inv, HandleStart
<1>2. /\ req' = [id |-> Id, armed |-> TRUE, wakelock |-> TRUE] /\ ping' = ping
      /\ ended' \in {"no", "assert"}
  BY DEF HandleStart, Assert
<1>3. WatchdogTypeOK'
  BY <1>1, <1>2, TakeFacts DEF WatchdogTypeOK, Msgs
<1>4. ASSUME ~lost PROVE ended' = "no" /\ Good'
  <2>1. Good
    BY <1>1, <1>4, TakeFacts DEF Inv
  <2>2. Follows(Handled, Head(reqQ)) /\ Chained(Tail(reqQ), Head(reqQ), Sent)
    BY <1>1, <2>1, TakeFacts, TypeFacts, ChainHead DEF Good
  <2>3. Id = watchdog_get_new_id(req.id)
    BY <1>1, <2>2, TakeFacts DEF Follows, Handled, START, STOP
  <2>4. ended' = "no"
    <3>1. req.armed = req.wakelock
      BY <1>1, <2>1 DEF Good, WatchdogTypeOK
    <3> QED BY <2>3, <3>1 DEF HandleStart, Assert
  <2>5. Handled' = Head(reqQ)
    BY <1>1, <1>2, TakeFacts DEF Handled
  <2>6. PongsOk(Tail(reqQ), pingQ, ping)
    BY <1>1, <2>1, TakeFacts, TypeFacts, PongsTail DEF Good
  <2> QED BY <1>1, <1>2, <2>2, <2>4, <2>5, <2>6, TakeFacts DEF Good
<1> QED BY <1>1, <1>2, <1>3, <1>4, TakeFacts DEF Inv, ProtocolHolds, NoFalseAlarm

LEMMA StopKeeps == ASSUME Inv, HandleStop PROVE Inv'
<1>1. WatchdogTypeOK /\ Received("STOP") /\ Take
  BY DEF Inv, HandleStop
<1>2. /\ ping' = ping /\ ended' \in {"no", "assert"}
      /\ req' = IF Id = req.id
                THEN [req EXCEPT !.armed = FALSE, !.wakelock = FALSE] ELSE req
  BY DEF HandleStop, Assert
<1>3. WatchdogTypeOK'
  BY <1>1, <1>2, TakeFacts DEF WatchdogTypeOK, Msgs
<1>4. ASSUME ~lost PROVE ended' = "no" /\ Good'
  <2>1. Good
    BY <1>1, <1>4, TakeFacts DEF Inv
  <2>2. Follows(Handled, Head(reqQ)) /\ Chained(Tail(reqQ), Head(reqQ), Sent)
    BY <1>1, <2>1, TakeFacts, TypeFacts, ChainHead DEF Good
  <2>3. Id = req.id /\ req.armed
    BY <1>1, <2>2, TakeFacts DEF Follows, Handled, START, STOP
  <2>4. ended' = "no"
    BY <2>1, <2>3 DEF Good, HandleStop, Assert
  <2>5. req'.id = Id /\ ~req'.armed /\ ~req'.wakelock
    BY <1>1, <1>2, <2>3 DEF WatchdogTypeOK
  <2>6. Handled' = Head(reqQ)
    BY <1>1, <2>5, TakeFacts DEF Handled
  <2>7. PongsOk(Tail(reqQ), pingQ, ping)
    BY <1>1, <2>1, TakeFacts, TypeFacts, PongsTail DEF Good
  <2> QED BY <1>1, <1>2, <2>2, <2>4, <2>5, <2>6, <2>7, TakeFacts DEF Good
<1> QED BY <1>1, <1>2, <1>3, <1>4, TakeFacts DEF Inv, ProtocolHolds, NoFalseAlarm

LEMMA PongKeeps == ASSUME Inv, HandlePong PROVE Inv'
<1>1. WatchdogTypeOK /\ Received("PONG") /\ Take
  BY DEF Inv, HandlePong
<1>2. /\ req' = req /\ ended' \in {"no", "assert"}
      /\ ping' = [ping EXCEPT !.waiting_pong = FALSE, !.wakelock = FALSE]
  BY DEF HandlePong, Assert
<1>3. WatchdogTypeOK'
  BY <1>1, <1>2, TakeFacts DEF WatchdogTypeOK, Msgs
<1>4. ASSUME ~lost PROVE ended' = "no" /\ Good'
  <2>1. Good
    BY <1>1, <1>4, TakeFacts DEF Inv
  <2>2. Chained(Tail(reqQ), Handled, Sent)
    BY <1>1, <2>1, TakeFacts, TypeFacts, ChainHead DEF Good
  <2>3. /\ Head(reqQ)[2] = ping.id /\ ping.waiting_pong /\ ping.wakelock
        /\ pingQ = <<>> /\ \A i \in 1 .. Len(Tail(reqQ)) : Tail(reqQ)[i][1] # "PONG"
    BY <1>1, <2>1, TakeFacts, TypeFacts, PongsTail DEF Good
  <2>4. ended' = "no"
    BY <2>3 DEF HandlePong, Assert, Id
  <2>5. ~ping'.waiting_pong /\ ~ping'.wakelock
    BY <1>1, <1>2 DEF WatchdogTypeOK
  <2>6. PongsOk(Tail(reqQ), <<>>, ping')
    BY <2>3, <2>5 DEF PongsOk
  <2>7. Handled' = Handled
    BY <1>2 DEF Handled
  <2> QED BY <1>1, <1>2, <2>1, <2>2, <2>3, <2>4, <2>6, <2>7, TakeFacts DEF Good
<1> QED BY <1>1, <1>2, <1>3, <1>4, TakeFacts DEF Inv, ProtocolHolds, NoFalseAlarm

-----------------------------------------------------------------------------
\* The timers expire only when the queue has been read.
LEMMA PingExpiresKeeps == ASSUME Inv, PingExpires PROVE Inv'
<1>1. /\ WatchdogTypeOK /\ ended = "no" /\ reqQ = <<>>
      /\ UNCHANGED <<outside, watch_id, reqQ, req, lost>>
      /\ Sent' = Sent /\ Handled' = Handled
  BY DEF Inv, PingExpires, ctlVars, Sent, Handled
<1>2. CASE ping.waiting_pong
  <2>1. ended' = "PONG not received" /\ UNCHANGED <<pingQ, ping>>
    BY <1>2 DEF PingExpires
  <2> QED BY <1>1, <2>1 DEF Inv, WatchdogTypeOK, ProtocolHolds, NoFalseAlarm
<1>3. CASE ~ping.waiting_pong
  <2> DEFINE id == watchdog_get_new_id(ping.id)
  <2>1. /\ ping' = [id |-> id, waiting_pong |-> TRUE, wakelock |-> TRUE]
        /\ pingQ' = Send(pingQ, <<id>>) /\ ended' = "no"
    BY <1>1, <1>3 DEF PingExpires
  <2>2. id \in Ids
    BY <1>1, NewId, TypeFacts
  <2> HIDE DEF id
  <2>3. pingQ' \in Seq(Ids)
    <3>1. <<id>> \in Seq(Ids)
      BY <2>2
    <3> QED BY <1>1, <2>1, <3>1, SendType, TypeFacts
  <2>4. WatchdogTypeOK'
    BY <1>1, <2>1, <2>2, <2>3 DEF WatchdogTypeOK
  <2>5. ASSUME ~lost PROVE Good'
    <3>1. Good
      BY <1>1, <2>5 DEF Inv
    <3>2. pingQ = <<>>
      BY <1>3, <3>1 DEF Good, PongsOk
    <3>3. pingQ' = <<id>>
      BY <2>1, <3>2, QSizeAssumption DEF Send, Fits
    <3>4. PongsOk(<<>>, <<id>>, ping')
      BY <2>1 DEF PongsOk
    <3> QED BY <1>1, <3>1, <3>3, <3>4 DEF Good
  <2> QED BY <1>1, <2>1, <2>4, <2>5 DEF Inv, ProtocolHolds, NoFalseAlarm
<1> QED BY <1>2, <1>3

LEMMA ReqExpiresKeeps == ASSUME Inv, ReqExpires PROVE Inv'
<1>1. /\ WatchdogTypeOK /\ ended = "no" /\ reqQ = <<>> /\ req.armed
      /\ ended' = "Answer not received"
      /\ UNCHANGED <<outside, watch_id, reqQ, pingQ, req, ping, lost>>
  BY DEF Inv, ReqExpires, ctlVars
<1>2. WatchdogTypeOK'
  BY <1>1 DEF WatchdogTypeOK
<1>3. ~lost => outside
  <2>1. ~lost => Handled = Sent
    BY <1>1, EmptyChain, TypeFacts DEF Inv, Good
  <2> QED BY <1>1, <2>1 DEF Handled, Sent
<1> QED BY <1>1, <1>2, <1>3 DEF Inv, ProtocolHolds, NoFalseAlarm

\* The invariant holds in every reachable state.
LEMMA Invariance == WatchdogSpec => []Inv
<1>1. WatchdogInit => Inv
  <2> SUFFICES ASSUME WatchdogInit PROVE Inv
    OBVIOUS
  <2> DEFINE m == START(0)
             a == STOP(-1)
  <2>1. 0 \in Ids /\ watchdog_get_new_id(-1) = 0
    BY IdAssumption DEF Ids, watchdog_get_new_id
  <2>2. /\ m \in Msgs /\ m \in Reqs /\ a \in Reqs /\ m[1] = "START"
        /\ Follows(a, m) /\ <<>> \in Seq(Msgs)
    BY <2>1 DEF Msgs, Reqs, START, STOP, Follows
  <2>3. reqQ = Append(<<>>, m) /\ Handled = a /\ Sent = m
    BY DEF WatchdogInit, Handled, Sent, START, STOP
  <2>4. WatchdogTypeOK
    <3>1. reqQ \in Seq(Msgs)
      BY <2>2 DEF WatchdogInit
    <3>2. req \in [id : Ids \cup {-1}, armed : BOOLEAN, wakelock : BOOLEAN]
      BY DEF WatchdogInit
    <3>3. ping \in [id : Ids \cup {-1}, waiting_pong : BOOLEAN, wakelock : BOOLEAN]
      BY DEF WatchdogInit
    <3>4. watch_id \in Ids /\ pingQ \in Seq(Ids) /\ ended = "no"
      BY <2>1 DEF WatchdogInit
    <3>5. outside \in BOOLEAN /\ lost \in BOOLEAN
      BY Zenon DEF WatchdogInit
    <3> QED BY <3>1, <3>2, <3>3, <3>4, <3>5 DEF WatchdogTypeOK, Msgs
  <2> HIDE DEF m, a
  <2>5. Chained(reqQ, Handled, Sent)
    BY <2>2, <2>3, EmptyChain, ChainEnd
  <2>6. PongsOk(<<>>, pingQ, ping)
    BY DEF WatchdogInit, PongsOk
  <2>7. PongsOk(reqQ, pingQ, ping)
    BY <2>2, <2>3, <2>6, PongsAppend
  <2> QED BY <2>4, <2>5, <2>7 DEF Inv, Good, ProtocolHolds, NoFalseAlarm, WatchdogInit
<1>2. Inv /\ [WatchdogNext]_watchdogVars => Inv'
  <2> SUFFICES ASSUME Inv, [WatchdogNext]_watchdogVars PROVE Inv'
    OBVIOUS
  <2>1. CASE WatchdogNext
    BY <2>1, LeaveKeeps, EnterKeeps, CrossKeeps, AnswerKeeps, StartKeeps, StopKeeps,
       PongKeeps, PingExpiresKeeps, ReqExpiresKeeps DEF WatchdogNext, Control
  <2>2. CASE UNCHANGED watchdogVars
    BY <2>2 DEF watchdogVars, Inv, WatchdogTypeOK, ProtocolHolds, NoFalseAlarm, Good, Handled, Sent
  <2> QED BY <2>1, <2>2
<1> QED BY <1>1, <1>2, PTL DEF WatchdogSpec

-----------------------------------------------------------------------------
(***************************************************************************)
(* Timers, ids and queues keep their types, the ids through their wrap at  *)
(* MAX_REQ_ID.                                                             *)
(***************************************************************************)
THEOREM TypeCorrect == WatchdogSpec => []WatchdogTypeOK
<1>1. Inv => WatchdogTypeOK
  BY DEF Inv
<1> QED BY <1>1, Invariance, PTL

(***************************************************************************)
(* No ASSERT of handle_msg fails as long as every message of control finds *)
(* a slot in the queue, for any queue size and any MAX_REQ_ID.             *)
(***************************************************************************)
THEOREM ProtocolIsKept == WatchdogSpec => []ProtocolHolds
<1>1. Inv => ProtocolHolds
  BY DEF Inv
<1> QED BY <1>1, Invariance, PTL

(***************************************************************************)
(* The request timer ends CRM only while control is outside UP and DOWN.   *)
(***************************************************************************)
THEOREM AlarmsAreTrue == WatchdogSpec => []NoFalseAlarm
<1>1. Inv => NoFalseAlarm
  BY DEF Inv
<1> QED BY <1>1, Invariance, PTL

(***************************************************************************)
(* With its queue read, the watchdog's request timer is armed exactly when *)
(* control is outside UP and DOWN.                                         *)
(***************************************************************************)
THEOREM WatchIsExact == WatchdogSpec => []WatchesOutside
<1>1. Inv => WatchesOutside
  <2> SUFFICES ASSUME Inv, reqQ = <<>>, ended = "no", ~lost
               PROVE  req.armed <=> outside
    BY DEF WatchesOutside
  <2>1. Handled = Sent /\ WatchdogTypeOK
    BY EmptyChain, TypeFacts DEF Inv, Good
  <2> QED BY <2>1 DEF Handled, Sent, WatchdogTypeOK
<1> QED BY <1>1, Invariance, PTL
=============================================================================
