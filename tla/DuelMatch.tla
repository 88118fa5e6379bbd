------------------------------- MODULE DuelMatch -------------------------------
(***************************************************************************)
(* What a duel is to those who play and judge it, whatever menus, restarts *)
(* and disconnections it takes: two duelists, a score that moves by rounds *)
(* and by the judge's decisions, scores on record to return to, and an end *)
(* that a decisive score cannot escape.  Duel implements this.             *)
(***************************************************************************)
EXTENDS Integers

CONSTANTS
    Person,       \* who may duel
    NoPerson,     \* nobody
    ScoreToWin    \* rounds to win, with a lead of two

VARIABLES
    phase,        \* no match, one in preparation, or one that is on
    paused,       \* rounds are not counted
    score,        \* of the match that is on
    duelist,      \* of the match prepared or on
    record        \* scores that a judge can return to

vars == <<phase, paused, score, duelist, record>>

Team  == {"CT", "TER"}
Other(t) == IF t = "CT" THEN "TER" ELSE "CT"

Zero == [t \in Team |-> 0]
None == [t \in Team |-> NoPerson]

Plus(sc, t) == [sc EXCEPT ![t] = sc[t] + 1]
Lowered(sc) == [t \in Team |-> sc[t] - 1]
Level(sc)   == sc["CT"] + sc["TER"] = 0

Decided(sc) ==
    \E t \in Team : sc[t] >= ScoreToWin /\ sc[t] - sc[Other(t)] >= 2

Init ==
    /\ phase = "none"
    /\ paused = FALSE
    /\ score = Zero
    /\ duelist = None
    /\ record = {}

\* Two players are chosen, while there is no match or another is prepared.
Prepare(d) ==
    /\ phase # "on"
    /\ phase' = "preparing"
    /\ duelist' = d
    /\ record' = record
    /\ UNCHANGED <<paused, score>>

\* Two players are chosen in the middle of a match, which goes on for them
\* from nil; moving everybody may end a round, which then counts.
StartOver(d) ==
    /\ phase = "on"
    /\ phase' = "on"
    /\ paused' = FALSE
    /\ duelist' = d
    /\ \/ score' = Zero /\ record' = record
       \/ /\ \E t \in Team : score' = Plus(Zero, t) /\ ~Decided(score')
          /\ score' \in record' /\ record' \subseteq record \cup {score'}

\* The preparation is over: the match is on, from nil.
Begin ==
    /\ phase # "none"
    /\ phase' = "on"
    /\ paused' = FALSE
    /\ score' = Zero
    /\ Zero \in record' /\ record' \subseteq record \cup {Zero}
    /\ UNCHANGED duelist

\* The scores move to sc, which do not decide the match, and go on record.
Move(sc) ==
    /\ ~Decided(sc)
    /\ score' = sc
    /\ IF Level(sc) THEN record' = record
       ELSE sc \in record' /\ record' \subseteq record \cup {sc}

\* A round is won.
Round(t) ==
    /\ phase = "on"
    /\ ~paused
    /\ Move(Plus(score, t))
    /\ UNCHANGED <<phase, paused, duelist>>

\* A judge takes a round: both scores go down, and the round that this ends,
\* if it ends one, is won by somebody.
Take ==
    /\ phase = "on"
    /\ \/ score' = Lowered(score) /\ record' = record
       \/ ~paused /\ \E t \in Team : Move(Plus(Lowered(score), t))
    /\ UNCHANGED <<phase, paused, duelist>>

\* A judge returns to a score on record.
Return ==
    /\ phase = "on"
    /\ score' \in record
    /\ paused' = FALSE
    /\ record' \subseteq record
    /\ UNCHANGED <<phase, duelist>>

\* A judge, a disconnection or a return stops and resumes the counting.
Pause ==
    /\ phase = "on"
    /\ paused' \in BOOLEAN
    /\ record' = record
    /\ UNCHANGED <<phase, score, duelist>>

\* The match is won, given, aborted, or its preparation is given up.
End ==
    /\ phase' = "none"
    /\ paused' = FALSE
    /\ score' = Zero
    /\ duelist' = None
    /\ record' \subseteq record

Next ==
    \/ \E d \in [Team -> Person] : Prepare(d) \/ StartOver(d)
    \/ Begin
    \/ \E t \in Team : Round(t)
    \/ Take
    \/ Return
    \/ Pause
    \/ End

Spec == Init /\ [][Next]_vars

=============================================================================
