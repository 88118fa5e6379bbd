---------------------------- MODULE TeamsProofs ----------------------------
(***************************************************************************)
(* Teams keeps its type, keeps the duelists on their sides and keeps the   *)
(* score board in agreement with the scores, for any number of slots and   *)
(* players and any bounds.  The board's invariant is inductive with the    *)
(* types; the sides need it from the preparation on, which is SidesHeld.   *)
(***************************************************************************)
EXTENDS Teams, TLAPS

USE DEF Team, TeamName, On, Index, Auth, M!Team, M!Zero, M!None, M!Plus,
        M!Other, RoundEvent, Counted, NoSlots, Scores, Count, seatVars, gameVars,
        duelVars, matchVars

\* The sides are kept from the preparation on.
SidesHeld ==
    phase # "none" /\ duelist["CT"] # duelist["TER"] =>
        \A t \in Team \ strayed :
            id[t] \in online /\ client[id[t]] = duelist[t] => team[id[t]] = t

-----------------------------------------------------------------------------
(* Pieces of the actions.                                                  *)

\* The part of Data that the match is
MatchData ==
    /\ phase \in {"none", "preparing", "on"}
    /\ score \in [Team -> Int]
    /\ duelist \in [Team -> Auth]
    /\ id \in [Team -> Index]
    /\ strayed \subseteq Team

\* An ended match is none, whatever it was.
LEMMA Ended ==
    ASSUME EndMatch
    PROVE  /\ phase' = "none" /\ score' = M!Zero
           /\ ~paused' /\ ~preparing' /\ ~astray'
           /\ MatchData'
<1>1. phase' = "none" /\ score' = M!Zero /\ ~paused' /\ ~preparing' /\ ~astray'
  BY DEF EndMatch, M!End
<1>2. MatchData'
  BY <1>1 DEF EndMatch, M!End, MatchData
<1>. QED BY <1>1, <1>2

\* A preparation given up leaves no match, and without one nothing changes.
LEMMA GivenUp ==
    ASSUME TypeOK, GiveUpPreparation
    PROVE  MatchData'
<1>1. CASE EndMatch
  BY <1>1, Ended
<1>2. CASE UNCHANGED <<duelVars, strayed, astray>>
  BY <1>2 DEF MatchData, TypeOK, Data
<1>. QED BY <1>1, <1>2 DEF GiveUpPreparation

\* Bounded scores are scores, and so are those on record.
LEMMA ScoresAreScores == Scores \subseteq [Team -> Int] /\ Recorded \subseteq Scores
BY BoundAssumption DEF Recorded

-----------------------------------------------------------------------------
(* Types.                                                                  *)

LEMMA InitTypeOK == Init => TypeOK
<1>1. Init => Flags
  BY DEF Init, Flags
<1>2. Init => Data
  BY SlotAssumption DEF Init, Data
<1>3. Init => Phases
  BY DEF Init, Phases
<1>. QED BY <1>1, <1>2, <1>3 DEF TypeOK

\* Every action keeps the flags.
LEMMA StepFlags ==
    ASSUME TypeOK, [Next]_vars
    PROVE  Flags'
<1>1. ASSUME NEW a \in Slot, NEW b \in Slot, StartDuel(a, b) PROVE Flags'
  BY <1>1 DEF TypeOK, Flags, StartDuel, M!Prepare, M!StartOver, RequestRestart, RoundOver, TeamsOfDuel
<1>2. ASSUME TakeRound PROVE Flags'
  BY <1>2 DEF TypeOK, Flags, TakeRound, EndMatch, M!End, M!Take, M!Move, M!Lowered, RoundOver
<1>3. ASSUME BackupRound PROVE Flags'
  BY <1>3 DEF TypeOK, Flags, BackupRound, GiveUpPreparation, EndMatch, M!End, M!Return, Recorded, RequestRestart
<1>4. ASSUME DuelPause PROVE Flags'
  BY <1>4 DEF TypeOK, Flags, DuelPause, StatePause, M!Pause
<1>5. ASSUME DuelUnpause PROVE Flags'
  BY <1>5 DEF TypeOK, Flags, DuelUnpause, GiveUpPreparation, EndMatch, M!End, M!Pause, RequestRestart
<1>6. ASSUME Abort PROVE Flags'
  BY <1>6 DEF TypeOK, Flags, Abort, EndMatch, M!End, RequestRestart
<1>7. ASSUME DuelWon PROVE Flags'
  BY <1>7 DEF TypeOK, Flags, DuelWon, EndMatch, M!End
<1>8. ASSUME NEW s \in Slot, NEW want \in {"SPECTATOR"} \cup Team, ChooseTeam(s, want) PROVE Flags'
  <2>1. UNCHANGED <<paused, preparing, complete, astray>>
    BY <1>8 DEF ChooseTeam
  <2>. QED BY <2>1 DEF TypeOK, Flags
<1>9. ASSUME NEW event \in RoundEvent, RoundEnd(event) PROVE Flags'
  BY <1>9 DEF TypeOK, Flags, RoundEnd, EndMatch, M!End, M!Round, M!Move, RoundOver
<1>10. ASSUME RestartRound PROVE Flags'
  BY <1>10 DEF TypeOK, Flags, RestartRound, RoundRespawn, M!Begin
<1>11. ASSUME NEW s \in Slot, ClientDisconnect(s) PROVE Flags'
  BY <1>11 DEF TypeOK, Flags, ClientDisconnect, StatePause, M!Pause, EndMatch, M!End, RequestRestart
<1>12. ASSUME NEW s \in Slot, NEW p \in Person, ClientPutInServer(s, p) PROVE Flags'
  <2>1. UNCHANGED <<paused, preparing, complete, astray>>
    BY <1>12 DEF ClientPutInServer, DuelistComeback
  <2>. QED BY <2>1 DEF TypeOK, Flags
<1>13. ASSUME MapChange PROVE Flags'
  BY <1>13 DEF TypeOK, Flags, MapChange
<1>14. ASSUME UNCHANGED vars PROVE Flags'
  <2>1. UNCHANGED <<paused, preparing, complete, astray>>
    BY <1>14 DEF vars
  <2>. QED BY <2>1 DEF TypeOK, Flags
<1>. QED BY <1>1, <1>2, <1>3, <1>4, <1>5, <1>6, <1>7, <1>8, <1>9, <1>10, <1>11, <1>12, <1>13, <1>14 DEF Next

\* Every action keeps the types of the data.
LEMMA StepData ==
    ASSUME TypeOK, [Next]_vars
    PROVE  Data'
<1>1. ASSUME NEW a \in Slot, NEW b \in Slot, StartDuel(a, b) PROVE Data'
  BY <1>1, SMTT(30), BoundAssumption DEF TypeOK, Data, Phases, StartDuel, M!Prepare, M!StartOver, RequestRestart, RoundOver, TeamsOfDuel
<1>2. ASSUME TakeRound PROVE Data'
  <2>1. UNCHANGED <<client, online, joins, maps, team>>
    BY <1>2 DEF TakeRound
  <2>2. restart' \in {"none", "requested", "roundOver"} /\ board' \in [Team -> Int]
    BY <1>2, ScoresAreScores DEF TakeRound, RoundOver, TypeOK, Data
  <2>3. CASE EndMatch
    BY <2>1, <2>2, <2>3, Ended DEF MatchData, TypeOK, Data
  <2>4. CASE M!Take /\ UNCHANGED <<preparing, id, strayed>>
    <3>1. UNCHANGED <<phase, duelist, id, strayed>>
      BY <2>4 DEF M!Take
    <3>2. M!Lowered(score) \in [Team -> Int]
      BY DEF M!Lowered, TypeOK, Data
    <3>3. score' \in [Team -> Int]
      BY <2>4, <3>2 DEF M!Take, M!Move
    <3>. QED BY <2>1, <2>2, <3>1, <3>3 DEF TypeOK, Data
  <2>. QED BY <1>2, <2>3, <2>4 DEF TakeRound
<1>3. ASSUME BackupRound PROVE Data'
  <2>1. UNCHANGED <<client, online, joins, maps, team, board>>
        /\ restart' \in {"none", "requested", "roundOver"}
    BY <1>3 DEF BackupRound, RequestRestart, TypeOK, Data
  <2>2. CASE GiveUpPreparation
    BY <2>1, <2>2, GivenUp DEF MatchData, TypeOK, Data
  <2>3. CASE M!Return /\ UNCHANGED <<id, strayed>>
    BY <2>1, <2>3, ScoresAreScores DEF M!Return, TypeOK, Data
  <2>. QED BY <1>3, <2>2, <2>3 DEF BackupRound
<1>4. ASSUME DuelPause PROVE Data'
  BY <1>4, SMTT(30), BoundAssumption DEF TypeOK, Data, Phases, DuelPause, StatePause, M!Pause
<1>5. ASSUME DuelUnpause PROVE Data'
  <2>1. UNCHANGED <<client, online, joins, maps, team, board>>
        /\ restart' \in {"none", "requested", "roundOver"}
    BY <1>5 DEF DuelUnpause, RequestRestart, TypeOK, Data
  <2>2. CASE GiveUpPreparation
    BY <2>1, <2>2, GivenUp DEF MatchData, TypeOK, Data
  <2>3. CASE M!Pause /\ UNCHANGED <<id, strayed, astray>>
    BY <2>1, <2>3 DEF M!Pause, TypeOK, Data
  <2>. QED BY <1>5, <2>2, <2>3 DEF DuelUnpause
<1>6. ASSUME Abort PROVE Data'
  BY <1>6, SMTT(30), BoundAssumption DEF TypeOK, Data, Phases, Abort, EndMatch, M!End, RequestRestart
<1>7. ASSUME DuelWon PROVE Data'
  BY <1>7, SMTT(30), BoundAssumption DEF TypeOK, Data, Phases, DuelWon, EndMatch, M!End
<1>8. ASSUME NEW s \in Slot, NEW want \in {"SPECTATOR"} \cup Team, ChooseTeam(s, want) PROVE Data'
  <2>1. team' \in [Slot -> TeamName]
    BY <1>8 DEF ChooseTeam, TypeOK, Data
  <2>2. strayed' \subseteq Team
    BY <1>8 DEF ChooseTeam, TypeOK, Data
  <2>3. UNCHANGED <<duelVars, gameVars, seatVars>>
    BY <1>8 DEF ChooseTeam
  <2>. QED BY <2>1, <2>2, <2>3 DEF TypeOK, Data
<1>9. ASSUME NEW event \in RoundEvent, RoundEnd(event) PROVE Data'
  <2>1. UNCHANGED <<client, online, joins, maps, team>>
    BY <1>9 DEF RoundEnd
  <2>2. restart' = "roundOver" /\ board' \in [Team -> Int]
    BY <1>9, ScoresAreScores DEF RoundEnd, RoundOver
  <2>3. CASE EndMatch
    BY <2>1, <2>2, <2>3, Ended DEF MatchData, TypeOK, Data
  <2>4. CASE M!Round(event) /\ UNCHANGED <<id, strayed>> /\ Counted(event)
    BY <2>1, <2>2, <2>4 DEF M!Round, M!Move, TypeOK, Data
  <2>5. CASE UNCHANGED <<duelVars, strayed>>
    BY <2>1, <2>2, <2>5 DEF TypeOK, Data
  <2>. QED BY <1>9, <2>3, <2>4, <2>5 DEF RoundEnd
<1>10. ASSUME RestartRound PROVE Data'
  BY <1>10, SMTT(30), BoundAssumption DEF TypeOK, Data, Phases, RestartRound, RoundRespawn, M!Begin
<1>11. ASSUME NEW s \in Slot, ClientDisconnect(s) PROVE Data'
  <2>1. UNCHANGED <<client, joins, maps, team, board>> /\ online' \subseteq Slot
        /\ restart' \in {"none", "requested", "roundOver"}
    BY <1>11 DEF ClientDisconnect, RequestRestart, TypeOK, Data
  <2>2. CASE EndMatch
    BY <2>1, <2>2, Ended DEF MatchData, TypeOK, Data
  <2>3. CASE StatePause /\ UNCHANGED <<id, strayed>>
    BY <2>1, <2>3 DEF StatePause, M!Pause, TypeOK, Data
  <2>4. CASE UNCHANGED <<duelVars, strayed>>
    BY <2>1, <2>4 DEF TypeOK, Data
  <2>. QED BY <1>11, <2>2, <2>3, <2>4 DEF ClientDisconnect
<1>12. ASSUME NEW s \in Slot, NEW p \in Person, ClientPutInServer(s, p) PROVE Data'
  <2>1. client' \in [Slot -> Auth] /\ online' \subseteq Slot /\ joins' \in Nat /\ maps' = maps
    BY <1>12 DEF ClientPutInServer, TypeOK, Data
  <2>2. UNCHANGED <<phase, score, duelist, restart, board>>
    BY <1>12 DEF ClientPutInServer
  <2>3. CASE \E t \in Team : DuelistComeback(s, t)
    BY <2>1, <2>2, <2>3 DEF DuelistComeback, TypeOK, Data
  <2>4. CASE /\ team' = [team EXCEPT ![s] = "UNASSIGNED"]
             /\ strayed' = strayed \cup {t \in Team : duelist[t] = p}
             /\ UNCHANGED id
    <3>1. strayed' \subseteq Team
      BY <2>4 DEF TypeOK, Data
    <3>2. team' \in [Slot -> TeamName]
      BY <2>4 DEF TypeOK, Data
    <3>. QED BY <2>1, <2>2, <2>4, <3>1, <3>2 DEF TypeOK, Data
  <2>. QED BY <1>12, <2>3, <2>4 DEF ClientPutInServer
<1>13. ASSUME MapChange PROVE Data'
  BY <1>13, SMTT(30), BoundAssumption DEF TypeOK, Data, Phases, MapChange
<1>14. ASSUME UNCHANGED vars PROVE Data'
  BY <1>14, SMTT(30), BoundAssumption DEF TypeOK, Data, Phases, vars
<1>. QED BY <1>1, <1>2, <1>3, <1>4, <1>5, <1>6, <1>7, <1>8, <1>9, <1>10, <1>11, <1>12, <1>13, <1>14 DEF Next

-----------------------------------------------------------------------------
\* Every action keeps the flags with the phases.
LEMMA StepPhases ==
    ASSUME TypeOK, [Next]_vars
    PROVE  Phases'
<1>1. ASSUME NEW a \in Slot, NEW b \in Slot, StartDuel(a, b) PROVE Phases'
  <2>1. preparing' /\ (astray' <=> On)
    BY <1>1 DEF StartDuel
  <2>2. CASE M!Prepare(duelist')
    <3>1. phase' = "preparing" /\ ~On /\ UNCHANGED <<paused, score>>
      BY <2>2 DEF M!Prepare
    <3>. QED BY <2>1, <3>1 DEF TypeOK, Phases
  <2>3. CASE M!StartOver(duelist')
    <3>1. phase' = "on" /\ ~paused'
      BY <2>3 DEF M!StartOver
    <3>. QED BY <2>1, <3>1 DEF Phases
  <2>. QED BY <1>1, <2>2, <2>3 DEF StartDuel
<1>2. ASSUME TakeRound PROVE Phases'
  <2>1. CASE EndMatch
    BY <2>1, Ended DEF Phases
  <2>2. CASE M!Take /\ UNCHANGED <<preparing, id, strayed>>
    <3>1. On /\ UNCHANGED <<phase, paused, preparing>>
      BY <2>2 DEF M!Take
    <3>. QED BY <3>1 DEF TypeOK, Phases
  <2>. QED BY <1>2, <2>1, <2>2 DEF TakeRound
<1>3. ASSUME BackupRound PROVE Phases'
  BY <1>3, SMTT(30), BoundAssumption DEF TypeOK, Data, Phases, BackupRound, GiveUpPreparation, EndMatch, M!End, M!Return, Recorded, RequestRestart
<1>4. ASSUME DuelPause PROVE Phases'
  BY <1>4, SMTT(30), BoundAssumption DEF TypeOK, Data, Phases, DuelPause, StatePause, M!Pause
<1>5. ASSUME DuelUnpause PROVE Phases'
  BY <1>5, SMTT(30), BoundAssumption DEF TypeOK, Data, Phases, DuelUnpause, GiveUpPreparation, EndMatch, M!End, M!Pause, RequestRestart
<1>6. ASSUME Abort PROVE Phases'
  BY <1>6, SMTT(30), BoundAssumption DEF TypeOK, Data, Phases, Abort, EndMatch, M!End, RequestRestart
<1>7. ASSUME DuelWon PROVE Phases'
  BY <1>7, SMTT(30), BoundAssumption DEF TypeOK, Data, Phases, DuelWon, EndMatch, M!End
<1>8. ASSUME NEW s \in Slot, NEW want \in {"SPECTATOR"} \cup Team, ChooseTeam(s, want) PROVE Phases'
  BY <1>8, SMTT(30), BoundAssumption DEF TypeOK, Data, Phases, ChooseTeam
<1>9. ASSUME NEW event \in RoundEvent, RoundEnd(event) PROVE Phases'
  <2>1. CASE EndMatch
    BY <2>1, Ended DEF Phases
  <2>2. CASE M!Round(event) /\ UNCHANGED preparing
    <3>1. On /\ UNCHANGED <<phase, paused, preparing>>
      BY <2>2 DEF M!Round
    <3>. QED BY <3>1 DEF TypeOK, Phases
  <2>3. CASE astray' = (astray \/ (On /\ event \in Team)) /\ UNCHANGED duelVars
    <3>1. (astray' <=> astray \/ (On /\ event \in Team))
          /\ UNCHANGED <<phase, paused, preparing, score>>
      BY <2>3
    <3>. QED BY <3>1 DEF TypeOK, Phases
  <2>. QED BY <1>9, <2>1, <2>2, <2>3 DEF RoundEnd
<1>10. ASSUME RestartRound PROVE Phases'
  <2>1. CASE UNCHANGED duelVars /\ (astray' => On)
    <3>1. UNCHANGED <<phase, paused, preparing, score>> /\ (astray' => On)
      BY <2>1
    <3>. QED BY <3>1 DEF TypeOK, Phases
  <2>2. CASE M!Begin /\ preparing' = FALSE
    <3>1. phase' = "on" /\ ~paused' /\ ~preparing'
      BY <2>2 DEF M!Begin
    <3>. QED BY <3>1 DEF Phases
  <2>. QED BY <1>10, <2>1, <2>2 DEF RestartRound
<1>11. ASSUME NEW s \in Slot, ClientDisconnect(s) PROVE Phases'
  BY <1>11, SMTT(30), BoundAssumption DEF TypeOK, Data, Phases, ClientDisconnect, StatePause, M!Pause, EndMatch, M!End, RequestRestart
<1>12. ASSUME NEW s \in Slot, NEW p \in Person, ClientPutInServer(s, p) PROVE Phases'
  BY <1>12, SMTT(30), BoundAssumption DEF TypeOK, Data, Phases, ClientPutInServer, DuelistComeback
<1>13. ASSUME MapChange PROVE Phases'
  <2>1. (astray' <=> On) /\ UNCHANGED <<phase, paused, preparing, score>>
    BY <1>13 DEF MapChange
  <2>. QED BY <2>1 DEF TypeOK, Phases
<1>14. ASSUME UNCHANGED vars PROVE Phases'
  BY <1>14, SMTT(30), BoundAssumption DEF TypeOK, Data, Phases, vars
<1>. QED BY <1>1, <1>2, <1>3, <1>4, <1>5, <1>6, <1>7, <1>8, <1>9, <1>10, <1>11, <1>12, <1>13, <1>14 DEF Next

\* Every variable has its type: TypeOK.
THEOREM TypeCorrect == Spec => []TypeOK
<1>1. TypeOK /\ [Next]_vars => TypeOK'
  BY StepFlags, StepData, StepPhases DEF TypeOK
<1>. QED BY InitTypeOK, <1>1, PTL DEF Spec

-----------------------------------------------------------------------------
(* The board.                                                              *)

\* Every action keeps the board with the scores, or sets it astray.
LEMMA StepBoard ==
    ASSUME TypeOK, BoardAgrees, [Next]_vars
    PROVE  BoardAgrees'
<1>1. ASSUME NEW a \in Slot, NEW b \in Slot, StartDuel(a, b) PROVE BoardAgrees'
  <2>1. (astray' <=> On)
    BY <1>1 DEF StartDuel
  <2>2. phase' = "on" => On
    BY <1>1 DEF StartDuel, M!Prepare, M!StartOver
  <2>. QED BY <2>1, <2>2 DEF BoardAgrees
<1>2. ASSUME TakeRound PROVE BoardAgrees'
  <2>1. CASE EndMatch
    BY <2>1, Ended DEF BoardAgrees
  <2>2. CASE astray' = TRUE
    BY <2>2 DEF BoardAgrees
  <2>. QED BY <1>2, <2>1, <2>2 DEF TakeRound
<1>3. ASSUME BackupRound PROVE BoardAgrees'
  BY <1>3, SMTT(30), BoundAssumption DEF TypeOK, Data, Phases, BoardAgrees, BackupRound, GiveUpPreparation, EndMatch, M!End, M!Return, Recorded, RequestRestart
<1>4. ASSUME DuelPause PROVE BoardAgrees'
  BY <1>4, SMTT(30), BoundAssumption DEF TypeOK, Data, Phases, BoardAgrees, DuelPause, StatePause, M!Pause
<1>5. ASSUME DuelUnpause PROVE BoardAgrees'
  BY <1>5, SMTT(30), BoundAssumption DEF TypeOK, Data, Phases, BoardAgrees, DuelUnpause, GiveUpPreparation, EndMatch, M!End, M!Pause, RequestRestart
<1>6. ASSUME Abort PROVE BoardAgrees'
  BY <1>6, SMTT(30), BoundAssumption DEF TypeOK, Data, Phases, BoardAgrees, Abort, EndMatch, M!End, RequestRestart
<1>7. ASSUME DuelWon PROVE BoardAgrees'
  BY <1>7, SMTT(30), BoundAssumption DEF TypeOK, Data, Phases, BoardAgrees, DuelWon, EndMatch, M!End
<1>8. ASSUME NEW s \in Slot, NEW want \in {"SPECTATOR"} \cup Team, ChooseTeam(s, want) PROVE BoardAgrees'
  BY <1>8, SMTT(30), BoundAssumption DEF TypeOK, Data, Phases, BoardAgrees, ChooseTeam
<1>9. ASSUME NEW event \in RoundEvent, RoundEnd(event) PROVE BoardAgrees'
  <2>1. board' = [t \in Team |-> IF t = event THEN board[t] + 1 ELSE board[t]]
    BY <1>9 DEF RoundEnd, RoundOver
  <2>2. CASE EndMatch
    BY <2>2, Ended DEF BoardAgrees
  <2>3. CASE Counted(event) /\ M!Round(event) /\ UNCHANGED astray
    <3>1. score' = M!Plus(score, event) /\ phase' = phase /\ event \in Team
      BY <2>3 DEF M!Round, M!Move
    <3>2. board = score => board' = score'
      BY <2>1, <3>1 DEF TypeOK, Data
    <3>. QED BY <2>3, <3>1, <3>2 DEF BoardAgrees
  <2>4. CASE astray' = (astray \/ (On /\ event \in Team)) /\ UNCHANGED duelVars
    <3>1. (astray' <=> astray \/ (On /\ event \in Team)) /\ UNCHANGED <<phase, score>>
      BY <2>4
    <3>2. event \notin Team => board' = board
      BY <2>1 DEF TypeOK, Data
    <3>. QED BY <3>1, <3>2 DEF BoardAgrees
  <2>. QED BY <1>9, <2>2, <2>3, <2>4 DEF RoundEnd
<1>10. ASSUME RestartRound PROVE BoardAgrees'
  <2> DEFINE respawned == {s \in online : team[s] \in Team}
             both == id["CT"] \in respawned /\ id["TER"] \in respawned
                         /\ id["CT"] # id["TER"]
             wins == IF complete THEN M!Zero ELSE board
  <2>1. board' = RoundRespawn(respawned, wins)
    BY <1>10 DEF RestartRound
  <2>2. wins \in [Team -> Int]
    BY DEF TypeOK, Data
  <2>3. CASE UNCHANGED duelVars /\ (On /\ ~astray' => both \/ ~(astray \/ complete))
    <3>1. UNCHANGED <<phase, score>>
      BY <2>3
    <3>2. On /\ both => RoundRespawn(respawned, wins) = score
      BY DEF RoundRespawn, TypeOK, Data
    <3>3. On /\ board = score /\ ~complete => RoundRespawn(respawned, wins) = score
      BY DEF RoundRespawn, TypeOK, Data
    <3>4. On /\ ~astray' => both \/ ~(astray \/ complete)
      BY <2>3
    <3> HIDE DEF both, wins, respawned
    <3>. QED BY <2>1, <3>1, <3>2, <3>3, <3>4 DEF BoardAgrees
  <2>4. CASE M!Begin /\ (~astray' => complete /\ score = M!Zero)
    <3>1. score' = M!Zero
      BY <2>4 DEF M!Begin
    <3>2. complete /\ score = M!Zero => RoundRespawn(respawned, wins) = M!Zero
      BY DEF RoundRespawn
    <3> HIDE DEF both, wins, respawned
    <3>. QED BY <2>1, <2>4, <3>1, <3>2 DEF BoardAgrees
  <2>. QED BY <1>10, <2>3, <2>4 DEF RestartRound
<1>11. ASSUME NEW s \in Slot, ClientDisconnect(s) PROVE BoardAgrees'
  BY <1>11, SMTT(30), BoundAssumption DEF TypeOK, Data, Phases, BoardAgrees, ClientDisconnect, StatePause, M!Pause, EndMatch, M!End, RequestRestart
<1>12. ASSUME NEW s \in Slot, NEW p \in Person, ClientPutInServer(s, p) PROVE BoardAgrees'
  BY <1>12, SMTT(30), BoundAssumption DEF TypeOK, Data, Phases, BoardAgrees, ClientPutInServer, DuelistComeback
<1>13. ASSUME MapChange PROVE BoardAgrees'
  <2>1. (astray' <=> On) /\ UNCHANGED phase
    BY <1>13 DEF MapChange
  <2>. QED BY <2>1 DEF BoardAgrees
<1>14. ASSUME UNCHANGED vars PROVE BoardAgrees'
  BY <1>14, SMTT(30), BoundAssumption DEF TypeOK, Data, Phases, BoardAgrees, vars
<1>. QED BY <1>1, <1>2, <1>3, <1>4, <1>5, <1>6, <1>7, <1>8, <1>9, <1>10, <1>11, <1>12, <1>13, <1>14 DEF Next

\* The score board shows the scores of the duel: BoardAgrees.
THEOREM BoardIsRight == Spec => []BoardAgrees
<1>1. Init => BoardAgrees
  BY DEF Init, BoardAgrees
<1>2. TypeOK /\ BoardAgrees /\ [Next]_vars => BoardAgrees'
  BY StepBoard
<1>. QED BY <1>1, <1>2, TypeCorrect, PTL DEF Spec

-----------------------------------------------------------------------------
(* The sides.                                                              *)

\* Every action keeps the sides.
LEMMA StepSides ==
    ASSUME TypeOK, SidesHeld, [Next]_vars
    PROVE  SidesHeld'
<1>1. ASSUME NEW a \in Slot, NEW b \in Slot, StartDuel(a, b) PROVE SidesHeld'
  BY <1>1, SMTT(30), BoundAssumption DEF TypeOK, Data, SidesHeld, StartDuel, M!Prepare, M!StartOver, RequestRestart, RoundOver, TeamsOfDuel
<1>2. ASSUME TakeRound PROVE SidesHeld'
  <2>1. CASE EndMatch
    BY <2>1, Ended DEF SidesHeld
  <2>2. CASE M!Take /\ UNCHANGED <<id, strayed>>
    <3>1. UNCHANGED <<phase, duelist, id, strayed, online, client, team>>
      BY <1>2, <2>2 DEF M!Take, TakeRound
    <3>. QED BY <3>1 DEF SidesHeld
  <2>. QED BY <1>2, <2>1, <2>2 DEF TakeRound
<1>3. ASSUME BackupRound PROVE SidesHeld'
  BY <1>3, SMTT(30), BoundAssumption DEF TypeOK, Data, SidesHeld, BackupRound, GiveUpPreparation, EndMatch, M!End, M!Return, Recorded, RequestRestart
<1>4. ASSUME DuelPause PROVE SidesHeld'
  BY <1>4, SMTT(30), BoundAssumption DEF TypeOK, Data, SidesHeld, DuelPause, StatePause, M!Pause
<1>5. ASSUME DuelUnpause PROVE SidesHeld'
  BY <1>5, SMTT(30), BoundAssumption DEF TypeOK, Data, SidesHeld, DuelUnpause, GiveUpPreparation, EndMatch, M!End, M!Pause, RequestRestart
<1>6. ASSUME Abort PROVE SidesHeld'
  BY <1>6, SMTT(30), BoundAssumption DEF TypeOK, Data, SidesHeld, Abort, EndMatch, M!End, RequestRestart
<1>7. ASSUME DuelWon PROVE SidesHeld'
  BY <1>7, SMTT(30), BoundAssumption DEF TypeOK, Data, SidesHeld, DuelWon, EndMatch, M!End
<1>8. ASSUME NEW s \in Slot, NEW want \in {"SPECTATOR"} \cup Team, ChooseTeam(s, want) PROVE SidesHeld'
  BY <1>8, SMTT(30), BoundAssumption DEF TypeOK, Data, SidesHeld, ChooseTeam
<1>9. ASSUME NEW event \in RoundEvent, RoundEnd(event) PROVE SidesHeld'
  BY <1>9, SMTT(30), BoundAssumption DEF TypeOK, Data, SidesHeld, RoundEnd, EndMatch, M!End, M!Round, M!Move, RoundOver
<1>10. ASSUME RestartRound PROVE SidesHeld'
  BY <1>10, SMTT(30), BoundAssumption DEF TypeOK, Data, SidesHeld, RestartRound, RoundRespawn, M!Begin
<1>11. ASSUME NEW s \in Slot, ClientDisconnect(s) PROVE SidesHeld'
  BY <1>11, SMTT(30), BoundAssumption DEF TypeOK, Data, SidesHeld, ClientDisconnect, StatePause, M!Pause, EndMatch, M!End, RequestRestart
<1>12. ASSUME NEW s \in Slot, NEW p \in Person, ClientPutInServer(s, p) PROVE SidesHeld'
  BY <1>12, SMTT(30), BoundAssumption DEF TypeOK, Data, SidesHeld, ClientPutInServer, DuelistComeback
<1>13. ASSUME MapChange PROVE SidesHeld'
  BY <1>13, SMTT(30), BoundAssumption DEF TypeOK, Data, SidesHeld, MapChange
<1>14. ASSUME UNCHANGED vars PROVE SidesHeld'
  BY <1>14, SMTT(30), BoundAssumption DEF TypeOK, Data, SidesHeld, vars
<1>. QED BY <1>1, <1>2, <1>3, <1>4, <1>5, <1>6, <1>7, <1>8, <1>9, <1>10, <1>11, <1>12, <1>13, <1>14 DEF Next

\* Whoever is a duelist plays for his side: SidesAreKept.
THEOREM SidesAreRight == Spec => []SidesAreKept
<1>1. Init => SidesHeld
  BY DEF Init, SidesHeld
<1>2. TypeOK /\ SidesHeld /\ [Next]_vars => SidesHeld'
  BY StepSides
<1>3. SidesHeld => SidesAreKept
  BY DEF SidesHeld, SidesAreKept
<1>. QED BY <1>1, <1>2, <1>3, TypeCorrect, PTL DEF Spec

=============================================================================
