------------------------------ MODULE MCPairing ------------------------------
(* Instances of Pairing for TLC.                                            *)
EXTENDS Pairing, TLC

Symmetry == {e @@ c @@ r : e \in Permutations(Emails), c \in Permutations(Codes),
                            r \in Permutations(Rows)}
=============================================================================
