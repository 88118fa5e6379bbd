------------------------------- MODULE MCTeams -------------------------------
(***************************************************************************)
(* Values for TLC.                                                         *)
(***************************************************************************)
EXTENDS Teams, TLC

CONSTANTS s1, s2, s3, p1, p2, p3

TwoSlots   == {s1, s2}
ThreeSlots == {s1, s2, s3}
TwoPeople   == {p1, p2}
ThreePeople == {p1, p2, p3}

\* Slots are interchangeable, and so are the players.
Symmetry == Permutations(Slot) \cup Permutations(Person)

=============================================================================
