--------------------------- MODULE MCSessionStore ---------------------------
(* Model-checking instance of SessionStore: sessions and sealers are       *)
(* interchangeable.                                                        *)
EXTENDS SessionStore, TLC

Symmetry == Permutations(Sessions) \cup Permutations(Sealers)

=============================================================================
