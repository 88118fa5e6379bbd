------------------------------- MODULE MCTask -------------------------------
(***************************************************************************)
(* Values for TLC.                                                         *)
(***************************************************************************)
EXTENDS Task, TLC

CONSTANTS matchStart, hudStop, duelUnpause

TwoTasks   == {hudStop, duelUnpause}
ThreeTasks == {matchStart, hudStop, duelUnpause}

\* Indices are compared for equality only.
Symmetry == Permutations(Index)

=============================================================================
