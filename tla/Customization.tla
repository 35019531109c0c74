--------------------------- MODULE Customization ---------------------------
(***************************************************************************)
(* The customization plugin, with the elector's decision it depends on: a  *)
(* detached thread sends the TLV files to the modem and reports.           *)
(***************************************************************************)
EXTENDS Ipc

VARIABLES
    tlv_pending,  \* the elector can read its hashes and they differ: TLVs are
                  \* to be applied
    applier,      \* the thread: "idle", "spawned" (tlvs # NULL) or
                  \* "writing" (op_ongoing as well)
    applied,      \* statuses of finished applications, not yet notified
    ctrlQ, claQ,  \* queues of control and of the client abstraction
    abort         \* the ASSERT that ended the process

custoVars == <<tlv_pending, applier, applied>>

Init == tlv_pending \in BOOLEAN /\ applier = "idle" /\ applied = <<>>

\* The ASSERTs of send() on op_ongoing and tlvs.
SendFails == applier # "idle"
send == applier' = "spawned" /\ UNCHANGED <<tlv_pending, applied>>

\* notify_tlv_applied of the elector: the hashes are stored.
notify_tlv_applied == tlv_pending' = FALSE /\ UNCHANGED <<applier, applied>>

\* write_tlvs: the thread runs.
TlvBegin == /\ applier = "spawned" /\ applier' = "writing"
            /\ UNCHANGED <<tlv_pending, applied, ctrlQ, claQ, abort>>

\* write_tlvs stops at the first TLV the modem refuses and tells the clients.
TlvEnd(status) ==
    LET m == IF status = "EV_FAILURE" THEN <<"DBG_INFO">> ELSE <<>>
    IN  /\ applier = "writing"
        /\ IF Fits(claQ, m)
           THEN /\ claQ' = claQ \o m
                /\ applier' = "idle" /\ applied' = Append(applied, status)
                /\ UNCHANGED <<tlv_pending, ctrlQ, abort>>
           ELSE /\ abort' = <<"cla", "queue", "full">>
                /\ UNCHANGED <<tlv_pending, applier, applied, ctrlQ, claQ>>

\* write_tlvs and load_tlv_file ASSERT on the node and on the TLV files.
TlvNodeFails == /\ applier = "writing" /\ abort' = <<"custo", "node", "failed">>
                /\ UNCHANGED <<tlv_pending, applier, applied, ctrlQ, claQ>>

\* write_tlvs: notify_customization_status.
TlvNotify == /\ applied # <<>>
             /\ ctrlQ' = Send(ctrlQ, <<Head(applied)>>)
             /\ applied' = Tail(applied)
             /\ UNCHANGED <<tlv_pending, applier, claQ, abort>>
=============================================================================
