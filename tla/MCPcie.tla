------------------------------- MODULE MCPcie -------------------------------
(***************************************************************************)
(* Model-checking instances of CRM on PCIe.                                *)
(***************************************************************************)
EXTENDS CrmPcie

NominalInit == Init /\ ~tlv_pending /\ ~escalation_disabled
NominalSpec == NominalInit /\ [][Next]_vars
FairSpec == NominalSpec /\ Fairness
=============================================================================
