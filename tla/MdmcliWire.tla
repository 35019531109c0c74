----------------------------- MODULE MdmcliWire -----------------------------
(***************************************************************************)
(* The wire format between the clients and CRM (mdmcli_wire.c).  A message *)
(* is a header, the id and the size of the whole, and a body.  A word and  *)
(* a character take one cell each of the stream; both are integers.        *)
(***************************************************************************)
EXTENDS Integers, Sequences, SequencesExt

CONSTANTS MDM_CLI_NAME_LEN, MDM_CLI_MAX_NB_DATA, MDM_CLI_MAX_LEN_DATA

\* mdm_cli_event_t, and crm_mdmcli_wire_req_ids_t after it
MDM_DOWN == 0
MDM_UP == 1
MDM_COLD_RESET == 2
MDM_SHUTDOWN == 3
MDM_DBG_INFO == 4
CRM_REQ_REGISTER == 6
CRM_REQ_REGISTER_DBG == 7
CRM_REQ_ACQUIRE == 8
CRM_REQ_RELEASE == 9
CRM_REQ_RESTART == 10
CRM_REQ_SHUTDOWN == 11
CRM_REQ_NVM_BACKUP == 12
CRM_REQ_ACK_COLD_RESET == 13
CRM_REQ_ACK_SHUTDOWN == 14
CRM_REQ_NOTIFY_DBG == 15

REGISTERS == {CRM_REQ_REGISTER, CRM_REQ_REGISTER_DBG}
DEBUGS    == {CRM_REQ_RESTART, CRM_REQ_NOTIFY_DBG, MDM_DBG_INFO}

\* A message; what its id does not use is empty.  debug is <<>> (NULL) or
\* <<values, strings>>: type, sizes and time, and data.
Message(id) == [id |-> id, bitmap |-> 0, name |-> <<>>, cause |-> 0, debug |-> <<>>]

MSG_HEADER_SIZE == 2
MSG_SIZE_MAX == MSG_HEADER_SIZE + 1 + 5 + MDM_CLI_MAX_NB_DATA * (1 + MDM_CLI_MAX_LEN_DATA)

-----------------------------------------------------------------------------
serialize_string(s) == <<Len(s)>> \o s

SerializeDebug(debug) ==
    IF debug = <<>> THEN <<>>
    ELSE debug[1] \o <<Len(debug[2])>>
         \o FlattenSeq([i \in DOMAIN debug[2] |-> serialize_string(debug[2][i])])

Body(m) == CASE m.id \in REGISTERS       -> <<m.bitmap>> \o serialize_string(m.name)
             [] m.id = CRM_REQ_RESTART   -> <<m.cause>> \o SerializeDebug(m.debug)
             [] m.id \in DEBUGS \ {CRM_REQ_RESTART} -> SerializeDebug(m.debug)
             [] OTHER -> <<>>



serialize_msg(m) == <<m.id, MSG_HEADER_SIZE + Len(Body(m))>> \o Body(m)

-----------------------------------------------------------------------------
(***************************************************************************)
(* Reading the cells buf behind a header: a function gives the place after *)
(* what it reads at p, or 0 when that is an error.                         *)
(***************************************************************************)
deserialize_uint32(buf, p) == IF p = 0 \/ p > Len(buf) THEN 0 ELSE p + 1

\* Mutant: the place of the final NUL is counted twice.
deserialize_string_Short(buf, p, dest_size) ==
    IF deserialize_uint32(buf, p) = 0 THEN 0
    ELSE IF Len(buf) - p < buf[p] \/ dest_size - 1 <= buf[p] THEN 0 ELSE p + 1 + buf[p]

deserialize_string(buf, p, dest_size) ==
    IF deserialize_uint32(buf, p) = 0 THEN 0
    ELSE IF Len(buf) - p < buf[p] \/ dest_size <= buf[p] THEN 0 ELSE p + 1 + buf[p]

Refused == [ok |-> FALSE, msg |-> Message(MDM_DOWN)]

\* The message m has been read up to p, and nothing may be left.
Accepted(buf, p, m) == IF p = Len(buf) + 1 THEN [ok |-> TRUE, msg |-> m] ELSE Refused

\* The n strings of the debug information, whose words start at p.
ReadStrings(buf, p, n, m) ==
    LET at[i \in 0..n] == IF i = 0 THEN p + 5
                          ELSE deserialize_string(buf, at[i - 1], MDM_CLI_MAX_LEN_DATA)
    IN  IF at[n] = 0 THEN Refused
        ELSE Accepted(buf, at[n], [m EXCEPT !.debug = <<SubSeq(buf, p, p + 3),
               [i \in 1..n |-> SubSeq(buf, at[i - 1] + 1, at[i] - 1)]>>])

ReadDebug(buf, p, m) ==
    IF p > Len(buf) THEN [ok |-> TRUE, msg |-> m]
    ELSE IF Len(buf) < p + 4 THEN Refused
    ELSE IF buf[p + 4] > MDM_CLI_MAX_NB_DATA THEN Refused
    ELSE ReadStrings(buf, p, buf[p + 4], m)

ReadRegister(buf, m) ==
    LET p == deserialize_string(buf, deserialize_uint32(buf, 1), MDM_CLI_NAME_LEN)
    IN  IF p = 0 THEN Refused
        ELSE Accepted(buf, p, [m EXCEPT !.bitmap = buf[1], !.name = SubSeq(buf, 3, p - 1)])

\* recv_msg(): the message whose cells are id and, behind the header, buf.  A
\* RESTART without anything passes for one with cause 0.
Parse(id, buf) ==
    CASE id \in REGISTERS -> ReadRegister(buf, Message(id))
      [] id = CRM_REQ_RESTART ->
           IF buf = <<>> THEN ReadDebug(buf, 1, Message(id))
           ELSE ReadDebug(buf, 2, [Message(id) EXCEPT !.cause = buf[1]])
      [] id \in DEBUGS \ {CRM_REQ_RESTART} -> ReadDebug(buf, 1, Message(id))
      [] OTHER -> Accepted(buf, 1, Message(id))

\* The size of the message at the head of a stream, and whether it is all
\* there; recv_msg() waits for what is not, for a second.
SizeOk(stream)  == stream[2] >= MSG_HEADER_SIZE /\ stream[2] <= MSG_SIZE_MAX
Whole(stream)   == Len(stream) >= 2 /\ (SizeOk(stream) => Len(stream) >= stream[2])

recv_msg(stream) ==
    IF ~Whole(stream) \/ ~SizeOk(stream) THEN Refused
    ELSE Parse(stream[1], SubSeq(stream, 3, stream[2]))

Rest(stream) == SubSeq(stream, stream[2] + 1, Len(stream))
=============================================================================
