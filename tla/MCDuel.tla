------------------------------- MODULE MCDuel -------------------------------
(***************************************************************************)
(* Values for TLC.                                                         *)
(***************************************************************************)
EXTENDS Duel, TLC

CONSTANTS s1, s2, s3, judge, other, p1, p2

TwoSlots   == {s1, s2}
ThreeSlots == {s1, s2, s3}

OneJudge  == {judge, p1}
TwoJudges == {judge, other}

OneAdmin == {judge}
TwoAdmins == {judge, other}

\* Slots are interchangeable, and so are the players with the same flags.
Symmetry == Permutations(Slot) \cup Permutations(Person \ Admin)
                \cup Permutations(Admin)

\* States that differ only in data the code overwrites before reading are the
\* same: a judge's choices outside the menus that use them, the judge and the
\* restart counter while no duel is prepared or on.
View == <<engineVars, restart, running, duelVars, duelistsOut, unpauseTask, menu,
          [s \in Slot |-> IF menu[s].kind \in {"choose", "start"}
                         THEN judgeChoice[s] ELSE << >>],
          IF isNowDuel \/ state = "PREPARING" THEN judgeId ELSE NoSlot,
          IF state = "PREPARING" THEN restartTimes ELSE 0>>

=============================================================================
