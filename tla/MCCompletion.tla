---------------------------- MODULE MCCompletion -----------------------------
(* Requests are interchangeable, and so are messages.                       *)
EXTENDS Completion, TLC

Symmetry == Permutations(Requests) \cup Permutations(Messages)
=============================================================================
