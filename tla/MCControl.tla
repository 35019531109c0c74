----------------------------- MODULE MCControl -----------------------------
(***************************************************************************)
(* Model-checking instance of control in an arbitrary environment, and of  *)
(* the firmware elector with what control does for it.  A behaviour is one *)
(* of a single part; the other stays in its first state.                   *)
(***************************************************************************)
EXTENDS ControlEnv, FwElector

VARIABLE part

ControlPartsInit ==
    /\ part \in {"control", "elector"} /\ EInit /\ ElectorInit
    /\ part # "elector" =>
          /\ files = [blob |-> "b1", base |-> {}, miu |-> {}, fls |-> FALSE]
          /\ ~booted /\ ~readable
    /\ part # "control" => escalation_disabled

ControlPartsNext ==
    /\ UNCHANGED part
    /\ \/ part = "control" /\ ENext /\ UNCHANGED estate
       \/ part = "elector" /\ ElectorNext /\ UNCHANGED evars

ElectorMoves == part = "elector" /\ ElectorStep /\ UNCHANGED <<part, evars>>

all == <<part, evars, estate>>

ControlPartsSpec == ControlPartsInit /\ [][ControlPartsNext]_all /\ WF_all(ElectorMoves)

-----------------------------------------------------------------------------
(***************************************************************************)
(* CRM does not customize and reset the modem for ever (ComesUp): again    *)
(* and again get_tlv_list() finds it up to date.                           *)
(***************************************************************************)
ElectorComesUp == part = "elector" => ComesUp
=============================================================================
