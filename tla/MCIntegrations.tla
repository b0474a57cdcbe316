--------------------------- MODULE MCIntegrations ---------------------------
(* Instances of Integrations for TLC.                                       *)
EXTENDS Integrations, TLC

Symmetry == Permutations(Flows) \cup Permutations(Requests) \cup Permutations(Grants)
=============================================================================
