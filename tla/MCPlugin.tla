------------------------------ MODULE MCPlugin ------------------------------
(* Values for TLC. *)
EXTENDS Plugin, TLC

CONSTANTS s1, s2, p1, p2, still, slow, fast

Slots  == {s1, s2}
People == {p1, p2}
Symmetry == Permutations(Slots) \cup Permutations(People)

Speed  == {still, slow, fast}
Still  == {still}

=============================================================================
