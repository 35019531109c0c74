--------------------------------- MODULE At ---------------------------------
(***************************************************************************)
(* crm_send_at(), which sends a command to the modem and reads its answer  *)
(* from a buffer, line by line, until a line says OK or ERROR.  It is how  *)
(* the modem is pinged and how TLVs are applied.  The bytes of an answer   *)
(* arrive in pieces of any length; a line of the answer is one of a few,   *)
(* ERROR being shortened to two characters.                                *)
(***************************************************************************)
EXTENDS Integers, Sequences, FiniteSets

CONSTANTS
    BufSize,   \* sizeof(buffer)
    Texts,     \* lines the modem may send besides the two below
    MaxLines   \* bound on the lines of an answer

NUL   == "0"
CR    == "r"
LF    == "n"
OK    == <<"O", "K">>
ERROR == <<"E", "R">>

VARIABLES
    buffer, idx,   \* as in the code
    reply,         \* "waiting" (ret > 0), "OK" (0), "ERROR" or "failed" (-1),
                   \* "aborted" (-2), "too small" (DASSERT) or "wild" (a memmove
                   \* of a negative size)
    stream,        \* sent by the modem, not yet read
    lines,         \* number of lines sent by the modem
    got,           \* all that has been read
    cut            \* a read has brought whole lines and a part of one (see Cuts)

atVars == <<buffer, idx, reply, stream, lines, got, cut>>

\* The command has been formatted in the buffer and written.
AtInit == /\ buffer = [k \in 0 .. BufSize - 1 |->
                          CASE k = 0 -> "x" [] k = 1 -> CR [] k = 2 -> LF [] OTHER -> NUL]
          /\ idx = 0 /\ reply = "waiting"
          /\ stream = <<>> /\ lines = 0 /\ got = <<>> /\ cut = FALSE

Polling == reply = "waiting"
Ends(status) == reply' = status /\ UNCHANGED <<buffer, idx, stream, lines, got, cut>>

Answers == /\ Polling /\ lines < MaxLines /\ lines' = lines + 1
           /\ \E t \in Texts \cup {OK, ERROR} : stream' = stream \o t \o <<CR, LF>>
           /\ UNCHANGED <<buffer, idx, reply, got, cut>>

NoAnswer == Polling /\ stream = <<>> /\ Ends("failed")
HangsUp  == Polling /\ Ends("failed")
Aborted  == Polling /\ Ends("aborted")

-----------------------------------------------------------------------------
\* strstr(buffer, "\r\n"): the places where it can be.
Breaks(b) == {k \in 0 .. BufSize - 2 : /\ b[k] = CR /\ b[k + 1] = LF
                                       /\ \A j \in 0 .. k - 1 : b[j] # NUL}
Least(S) == CHOOSE k \in S : \A j \in S : k <= j

(***************************************************************************)
(* The loop over the lines of the buffer: b is the buffer, i is idx.  What *)
(* follows a line is moved to the front, without its end.                  *)
(***************************************************************************)
RECURSIVE Parse(_, _)
Parse(b, i) ==
    IF Breaks(b) = {} THEN [buffer |-> b, idx |-> i, reply |-> "waiting"]
    ELSE LET cr   == Least(Breaks(b))
             line == [k \in 1 .. cr |-> b[k - 1]]
             ended == [b EXCEPT ![cr] = NUL]
             rest == i - (cr + 2)
             Is(status) == [buffer |-> ended, idx |-> i, reply |-> status]
             Wild == [buffer |-> ended, idx |-> rest, reply |-> "wild"]
         IN  IF line = OK THEN Is("OK")
             ELSE IF line = ERROR THEN Is("ERROR")
             ELSE IF rest < 0 THEN Wild
             ELSE Parse([k \in DOMAIN b |-> IF k < rest THEN ended[cr + 2 + k]
                                            ELSE ended[k]], rest)

\* Two lines and a part of one, or one line and a part that ends with CR: the
\* bytes that memmove() leaves behind the part then look like lines.
Cuts(b, end) == /\ b[end - 1] # LF
                /\ Cardinality(Breaks(b)) > IF b[end - 1] = CR THEN 0 ELSE 1

Receive(n, filled) ==
    LET end == idx + n
        p   == Parse(filled, end)
    IN  /\ Polling /\ n \in 1 .. Len(stream) /\ end <= BufSize
        /\ got' = got \o SubSeq(stream, 1, n)
        /\ stream' = SubSeq(stream, n + 1, Len(stream))
        /\ IF end = BufSize
           THEN reply' = "too small" /\ UNCHANGED <<buffer, idx, cut>>
           ELSE /\ buffer' = p.buffer /\ idx' = p.idx /\ reply' = p.reply
                /\ cut' = (cut \/ Cuts(filled, end))
        /\ UNCHANGED lines

Filled(n) == [k \in DOMAIN buffer |->
                 IF k \in idx .. idx + n - 1 THEN stream[k - idx + 1] ELSE buffer[k]]
Ended(b, end) == IF end < BufSize THEN [b EXCEPT ![end] = NUL] ELSE b

\* Mutant: what has been read is not terminated.
Read_Unended(n) == Receive(n, Filled(n))

\* The read of n bytes, and what the loop makes of the buffer.
Read(n) == Receive(n, Ended(Filled(n), idx + n))

AtNext == \/ Answers \/ NoAnswer \/ HangsUp \/ Aborted
          \/ \E n \in 1 .. BufSize : Read(n)
AtSpec == AtInit /\ [][AtNext]_atVars

-----------------------------------------------------------------------------
\* The reference: the first line of what has been read that is final.
LineEnds == {p \in 1 .. Len(got) - 1 : got[p] = CR /\ got[p + 1] = LF}
Start(p) == 1 + (IF \E q \in LineEnds : q < p
                 THEN 1 + (CHOOSE q \in LineEnds :
                              q < p /\ \A o \in LineEnds : o < p => o <= q)
                 ELSE 0)
Text(p)  == SubSeq(got, Start(p), p - 1)
Finals   == {p \in LineEnds : Text(p) \in {OK, ERROR}}
Verdict  == IF Finals = {} THEN "waiting"
            ELSE IF Text(Least(Finals)) = OK THEN "OK" ELSE "ERROR"

(***************************************************************************)
(* However the answer of the modem is cut, crm_send_at() has understood    *)
(* what it has read: it returns with the first OK or ERROR, and goes on    *)
(* waiting before.  The exception is a read that ends as Cuts says.        *)
(***************************************************************************)
AnswerIsRead == reply \in {"failed", "aborted", "too small"} \/ reply = Verdict \/ cut

(***************************************************************************)
(* idx is a place of the buffer: DASSERT(idx < sizeof(buffer)), where idx  *)
(* has no sign.                                                            *)
(***************************************************************************)
IdxInBuffer == idx \in 0 .. BufSize - 1
=============================================================================
