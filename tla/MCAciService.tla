---------------------------- MODULE MCAciService ----------------------------
(* A small instance of the ACI service verifier for TLC: the callers are    *)
(* interchangeable.                                                         *)
EXTENDS AciService, TLC

Symmetry == Permutations(Callers)

=============================================================================
