--------------------------- MODULE DuelMatchProofs ---------------------------
(***************************************************************************)
(* The proof that the duel controller implements a match (DuelMatch), for  *)
(* every value of the constants, and of the three action properties that   *)
(* the runs of MCDuel check.                                               *)
(***************************************************************************)
EXTENDS DuelProofs

-----------------------------------------------------------------------------
(* The two vocabularies.                                                   *)

\* The scores of a match and of the code's entries are the same data.
LEMMA SameScores ==
    /\ Match!Team = Team /\ Match!Zero = NilScore
    /\ Match!None = [t \in Team |-> NoPerson]
    /\ \A sc : Match!Decided(sc) <=> Decided(sc)
    /\ \A sc : Match!Lowered(sc) = [t \in Team |-> sc[t] - 1]
    /\ \A sc : Match!Level(sc) <=> sc["CT"] + sc["TER"] = 0
    /\ \A sc \in Score, t \in Team : Match!Plus(sc, t) = Raise(sc, t)
<1>1. Match!Team = Team /\ \A t : Match!Other(t) = Other(t)
  BY DEF Match!Team, Team, Match!Other, Other
<1>2. \A sc : Match!Decided(sc) <=> Decided(sc)
  BY <1>1 DEF Match!Decided, Decided, Wins
<1>3. \A sc \in Score, t \in Team : Match!Plus(sc, t) = Raise(sc, t)
  BY DEF Match!Plus, Raise, Score, Team
<1>4. QED
  BY <1>1, <1>2, <1>3 DEF Match!Zero, NilScore, Match!None, Match!Lowered, Match!Level

\* What is pushed to the history is on record, and nothing else is new.
LEMMA UpdateIsOnRecord ==
    ASSUME HistoryOK, NEW sc \in Score, NEW add, UpdateGameInfo(sc, add)
    PROVE  sc \in MatchRecord' /\ MatchRecord' \subseteq MatchRecord \cup {sc}
<1> USE DEF HistoryOK
<1>1. CASE roundSize < Len(round)
  <2>1. /\ DOMAIN round' = DOMAIN round
        /\ roundSize + 1 \in DOMAIN round
        /\ \A i \in DOMAIN round : round'[i] = IF i = roundSize + 1 THEN sc ELSE round[i]
    BY <1>1 DEF UpdateGameInfo
  <2>2. QED
    BY <2>1 DEF MatchRecord
<1>2. CASE ~(roundSize < Len(round))
  <2>1. /\ DOMAIN round' = 1..Len(round) + 1
        /\ DOMAIN round = 1..Len(round)
        /\ \A i \in DOMAIN round' : round'[i] = IF i = Len(round) + 1 THEN sc ELSE round[i]
    BY <1>2 DEF UpdateGameInfo
  <2>2. Len(round) + 1 \in DOMAIN round' /\ \A i \in DOMAIN round' : i # Len(round) + 1 => i \in DOMAIN round
    BY <2>1
  <2>3. QED
    BY <2>1, <2>2 DEF MatchRecord
<1>3. QED
  BY <1>1, <1>2

-----------------------------------------------------------------------------
(* How the pieces of the handlers map to actions of the match.             *)

\* A step of the match, or one it does not see
MatchStep == [Match!Next]_(Match!vars)

\* Without a duel before and after, a step ends a preparation at most.
LEMMA NoDuel ==
    ASSUME isNowDuel' = FALSE, state' # "PREPARING", MatchRecord' \subseteq MatchRecord
    PROVE  MatchStep
<1>1. Match!End
  BY SameScores DEF Match!End, MatchPhase, MatchPaused, MatchScore, MatchDuelist
<1>2. QED
  BY <1>1 DEF MatchStep, Match!Next

LEMMA EndOfDuel == ASSUME StateNothing PROVE MatchStep
<1>1. UNCHANGED MatchRecord
  BY DEF StateNothing, MatchRecord
<1>2. QED
  BY <1>1, NoDuel DEF StateNothing

\* What the match does not see, and what it sees as a pause
LEMMA Unseen ==
    ASSUME DuelOK,
           UNCHANGED <<isNowDuel, round>>, isNowDuel => UNCHANGED score,
           \A t \in Team : player'[t].auth = player[t].auth,
           isNowDuel \/ state' # "PREPARING" \/ UNCHANGED state
    PROVE  MatchStep
<1>1. UNCHANGED MatchRecord
  BY DEF MatchRecord
<1>2. CASE isNowDuel
  <2>1. UNCHANGED <<MatchPhase, MatchScore>> /\ MatchPhase = "on"
    BY <1>2 DEF MatchPhase, MatchScore
  <2>2. UNCHANGED MatchDuelist
    BY <2>1 DEF MatchDuelist
  <2>3. MatchPaused' \in BOOLEAN
    BY DEF MatchPaused, DuelOK
  <2>4. Match!Pause
    BY <1>1, <2>1, <2>2, <2>3 DEF Match!Pause
  <2>5. QED
    BY <2>4 DEF MatchStep, Match!Next
<1>3. CASE ~isNowDuel /\ state' # "PREPARING"
  BY <1>1, <1>3, NoDuel DEF DuelOK
<1>4. CASE ~isNowDuel /\ UNCHANGED state
  <2>1. UNCHANGED <<MatchPhase, MatchPaused, MatchScore>>
    BY <1>4 DEF MatchPhase, MatchPaused, MatchScore
  <2>2. UNCHANGED MatchDuelist
    BY <2>1 DEF MatchDuelist
  <2>3. QED
    BY <1>1, <2>1, <2>2 DEF MatchStep, Match!vars
<1>5. QED
  BY <1>2, <1>3, <1>4

\* Scores recorded by a round are a move of the match.
LEMMA RoundMoves ==
    ASSUME HistoryOK, NEW new \in Score, ~Decided(new), RecordRound(new),
           isNowDuel, UNCHANGED isNowDuel
    PROVE  Match!Move(new)
<1>1. MatchScore' = new
  BY DEF RecordRound, MatchScore
<1>2. CASE new["CT"] + new["TER"] # 0
  <2>1. new \in MatchRecord' /\ MatchRecord' \subseteq MatchRecord \cup {new}
    BY <1>2, UpdateIsOnRecord DEF RecordRound
  <2>2. QED
    BY <1>1, <1>2, <2>1, SameScores DEF Match!Move
<1>3. CASE new["CT"] + new["TER"] = 0
  <2>1. UNCHANGED MatchRecord
    BY <1>3 DEF RecordRound, MatchRecord
  <2>2. QED
    BY <1>1, <1>3, <2>1, SameScores DEF Match!Move
<1>4. QED
  BY <1>2, <1>3 DEF Score, Team

\* A round's end counts as a round of the match, ends it, or is not seen.
LEMMA HookMaps ==
    ASSUME IInv, NEW event \in RoundEvent, RoundEndHook(event, score)
    PROVE  MatchStep
<1> USE DEF IInv
<1>1. CASE ~Counted(event)
  BY <1>1, Unseen DEF RoundEndHook
<1>2. CASE StateNothing
  BY <1>2, EndOfDuel
<1>3. CASE /\ Counted(event) /\ ~Decided(Raise(score, event))
           /\ RecordRound(Raise(score, event))
           /\ UNCHANGED <<state, isNowDuel, player>>
  <2>1. isNowDuel /\ state # "PAUSE" /\ event \in Team
    BY <1>3 DEF Counted
  <2>2. Raise(score, event) \in Score
    BY ScoreFacts DEF HistoryOK
  <2>3. Match!Move(Raise(score, event))
    BY <1>3, <2>1, <2>2, RoundMoves
  <2>4. Raise(score, event) = Match!Plus(MatchScore, event)
    BY <2>1, SameScores DEF HistoryOK, MatchScore
  <2>5. UNCHANGED <<MatchPhase, MatchPaused>> /\ MatchPhase = "on" /\ ~MatchPaused
    BY <1>3, <2>1 DEF MatchPhase, MatchPaused
  <2>6. UNCHANGED MatchDuelist
    BY <1>3, <2>5 DEF MatchDuelist
  <2>7. Match!Round(event)
    BY <2>3, <2>4, <2>5, <2>6 DEF Match!Round
  <2>8. QED
    BY <2>1, <2>7, SameScores DEF MatchStep, Match!Next
<1>4. QED
  BY <1>1, <1>2, <1>3 DEF RoundEndHook, DuelWon, StateWining

\* The same for the kill of a duelist from whom a round was taken
LEMMA TakeMaps ==
    ASSUME IInv, KillDuelist([t \in Team |-> score[t] - 1])
    PROVE  MatchStep
<1> USE DEF IInv
<1> DEFINE low == [t \in Team |-> score[t] - 1]
<1>0. low \in Score /\ isNowDuel \in BOOLEAN
  BY ScoreFacts DEF HistoryOK, DuelOK
<1>1. CASE StateNothing
  BY <1>1, EndOfDuel
<1>2. CASE /\ score' = low
           /\ UNCHANGED <<state, isNowDuel, player, round>>
  <2>1. CASE isNowDuel
    <3>1. /\ UNCHANGED <<MatchPhase, MatchPaused>> /\ MatchPhase = "on"
          /\ MatchScore' = Match!Lowered(MatchScore)
      BY <1>2, <2>1, SameScores DEF MatchPhase, MatchPaused, MatchScore
    <3>2. UNCHANGED <<MatchDuelist, MatchRecord>>
      BY <1>2, <3>1 DEF MatchDuelist, MatchRecord
    <3>3. Match!Take
      BY <3>1, <3>2 DEF Match!Take
    <3>4. QED
      BY <3>3 DEF MatchStep, Match!Next
  <2>2. CASE ~isNowDuel
    BY <1>2, <2>2, Unseen
  <2>3. QED
    BY <2>1, <2>2
<1>3. ASSUME NEW event \in Team,
             Counted(event), ~Decided(Raise(low, event)),
             RecordRound(Raise(low, event)), UNCHANGED <<state, isNowDuel, player>>
      PROVE  MatchStep
  <2>1. isNowDuel /\ state # "PAUSE"
    BY <1>3 DEF Counted
  <2>2. Raise(low, event) \in Score
    BY <1>0, ScoreFacts DEF RoundEvent
  <2>3. Match!Move(Raise(low, event))
    BY <1>3, <2>1, <2>2, RoundMoves
  <2>4. Raise(low, event) = Match!Plus(Match!Lowered(MatchScore), event)
    BY <1>0, <2>1, SameScores DEF MatchScore
  <2>5. UNCHANGED <<MatchPhase, MatchPaused>> /\ MatchPhase = "on" /\ ~MatchPaused
    BY <1>3, <2>1 DEF MatchPhase, MatchPaused
  <2>6. UNCHANGED MatchDuelist
    BY <1>3, <2>5 DEF MatchDuelist
  <2>7. Match!Take
    BY <2>3, <2>4, <2>5, <2>6, SameScores DEF Match!Take
  <2>8. QED
    BY <2>7 DEF MatchStep, Match!Next
<1>4. \A event : Counted(event) => event \in Team
  BY DEF Counted
<1>5. QED
  BY <1>1, <1>2, <1>3, <1>4 DEF KillDuelist, RoundEndHook, DuelWon, StateWining

\* A start prepares a match, or starts one over in the middle of another.
LEMMA StartMaps ==
    ASSUME IInv, NEW s \in Slot, StartDuel(s)
    PROVE  MatchStep
<1> USE DEF IInv
<1> DEFINE c(t) == judgeChoice[s][IF t = "CT" THEN 1 ELSE 2]
           d == [t \in Team |-> client[c(t)]]
<1>1. CASE Crash
  BY <1>1, Unseen DEF Crash, duelVars
<1>2. CASE ~Crash
  <2>1. /\ \A t \in Team : client[c(t)] # NoPerson
        /\ player' = [t \in Team |-> InitPlayer(c(t), client[c(t)])]
        /\ state' = "PREPARING" /\ UNCHANGED isNowDuel
        /\ JoinTeams
        /\ menu[s].kind = "start"
    BY <1>2 DEF StartDuel, HasEntity, Answers
  <2>2. \A t \in Team : c(t) \in Slot
    BY <2>1 DEF MenusOK, JudgeOK, Team
  <2>3. d \in [Match!Team -> Person]
    BY <2>1, <2>2, SameScores DEF EngineOK, Auth
  <2>4. \A t \in Team : player'[t].auth = d[t]
    BY <2>1 DEF InitPlayer
  <2>5. MatchPhase' # "none" /\ MatchPaused' = FALSE
    BY <2>1 DEF MatchPhase, MatchPaused
  <2>6. MatchDuelist' = d
    BY <2>4, <2>5 DEF MatchDuelist
  <2>7. CASE isNowDuel
    <3>1. MatchPhase = "on" /\ MatchPhase' = "on" /\ MatchScore' = score'
      BY <2>1, <2>7 DEF MatchPhase, MatchScore
    <3>2. CASE score' = NilScore /\ UNCHANGED round
      <4>1. UNCHANGED MatchRecord
        BY <3>2 DEF MatchRecord
      <4>2. Match!StartOver(d)
        BY <2>5, <2>6, <3>1, <3>2, <4>1, SameScores DEF Match!StartOver
      <4>3. QED
        BY <2>3, <4>2 DEF MatchStep, Match!Next
    <3>3. ASSUME NEW event \in Team, RecordRound(Raise(NilScore, event))
          PROVE  MatchStep
      <4>1. Raise(NilScore, event) \in Score /\ ~Decided(Raise(NilScore, event))
        BY ScoreFacts DEF RoundEvent
      <4>2. Raise(NilScore, event)["CT"] + Raise(NilScore, event)["TER"] # 0
        BY DEF Raise, NilScore, Team
      <4>3. /\ score' = Raise(NilScore, event)
            /\ score' \in MatchRecord' /\ MatchRecord' \subseteq MatchRecord \cup {score'}
        BY <3>3, <4>1, <4>2, UpdateIsOnRecord DEF RecordRound
      <4>4. score' = Match!Plus(Match!Zero, event)
        BY <4>3, ScoreFacts, SameScores
      <4>5. Match!StartOver(d)
        BY <2>5, <2>6, <3>1, <4>1, <4>3, <4>4, SameScores DEF Match!StartOver
      <4>6. QED
        BY <2>3, <4>5 DEF MatchStep, Match!Next
    <3>4. QED
      BY <2>1, <3>2, <3>3 DEF JoinTeams
  <2>8. CASE ~isNowDuel
    <3>1. UNCHANGED round
      BY <2>1, <2>8 DEF JoinTeams, Counted
    <3>2. /\ MatchPhase # "on" /\ MatchPhase' = "preparing"
          /\ UNCHANGED <<MatchPaused, MatchScore>>
      BY <2>1, <2>8 DEF MatchPhase, MatchPaused, MatchScore
    <3>3. UNCHANGED MatchRecord
      BY <3>1 DEF MatchRecord
    <3>4. Match!Prepare(d)
      BY <2>6, <3>2, <3>3 DEF Match!Prepare
    <3>5. QED
      BY <2>3, <3>4 DEF MatchStep, Match!Next
  <2>9. QED
    BY <2>7, <2>8
<1>3. QED
  BY <1>1, <1>2

\* The last restart begins the match; the others are not seen.
LEMMA RestartMaps ==
    ASSUME IInv, RestartRound
    PROVE  MatchStep
<1> USE DEF IInv
<1>1. CASE UNCHANGED duelVars
  BY <1>1, Unseen DEF duelVars
<1>2. CASE state = "PREPARING" /\ StateGoing
  <2>1. NilScore \in MatchRecord' /\ MatchRecord' \subseteq MatchRecord \cup {NilScore}
    BY <1>2, UpdateIsOnRecord, ScoreFacts DEF StateGoing
  <2>2. /\ MatchPhase # "none" /\ MatchPhase' = "on"
        /\ MatchPaused' = FALSE /\ MatchScore' = NilScore
    BY <1>2 DEF StateGoing, MatchPhase, MatchPaused, MatchScore
  <2>3. UNCHANGED MatchDuelist
    BY <1>2, <2>2 DEF StateGoing, MatchDuelist
  <2>4. Match!Begin
    BY <2>1, <2>2, <2>3, SameScores DEF Match!Begin
  <2>5. QED
    BY <2>4 DEF MatchStep, Match!Next
<1>3. QED
  BY <1>1, <1>2 DEF RestartRound, RoundRestart

\* A backup returns to a score on record; without a duel it is not seen.
LEMMA BackupMaps ==
    ASSUME IInv, NEW s \in Slot, NEW i \in 1..Len(round), BackupRound(s, i)
    PROVE  MatchStep
<1> USE DEF IInv
<1>1. round[i] \in Score /\ round[i] \in MatchRecord
  BY DEF HistoryOK, MatchRecord
<1>2. MatchRecord' \subseteq MatchRecord
  BY <1>1, UpdateIsOnRecord DEF BackupRound
<1>3. state' = "GOING" /\ score' = round[i] /\ UNCHANGED <<isNowDuel, player>>
  BY DEF BackupRound, StateUnpause
<1>4. CASE isNowDuel
  <2>1. /\ UNCHANGED MatchPhase /\ MatchPhase = "on"
        /\ MatchPaused' = FALSE /\ MatchScore' = round[i]
    BY <1>3, <1>4 DEF MatchPhase, MatchPaused, MatchScore
  <2>2. UNCHANGED MatchDuelist
    BY <1>3, <2>1 DEF MatchDuelist
  <2>3. Match!Return
    BY <1>1, <1>2, <2>1, <2>2 DEF Match!Return
  <2>4. QED
    BY <2>3 DEF MatchStep, Match!Next
<1>5. CASE ~isNowDuel
  BY <1>2, <1>3, <1>5, NoDuel DEF DuelOK
<1>6. QED
  BY <1>4, <1>5

-----------------------------------------------------------------------------
(* The refinement.                                                         *)

LEMMA StepMaps ==
    ASSUME IInv, [Next]_vars
    PROVE  MatchStep
<1> USE DEF IInv
<1>1. CASE UNCHANGED duelVars
  BY <1>1, Unseen DEF duelVars
<1>2. ASSUME NEW s \in Slot, Judge(s)
      PROVE  MatchStep
  <2>1. CASE \/ SurfDuel(s) \/ OpenBackup(s) \/ CloseMenu(s)
             \/ \E ready \in SUBSET online :
                   \/ OpenChoose(s, ready) \/ RefuseChoice(s, ready)
                   \/ \E victim \in Slot : Choose(s, victim, ready)
             \/ \E kind \in {"give", "take", "win"} : OpenTeamMenu(s, kind)
    BY <1>1, <2>1 DEF SurfDuel, OpenBackup, CloseMenu, OpenChoose, Choose,
                      RefuseChoice, OpenTeamMenu
  <2>2. CASE StartDuel(s)
    BY <2>2, StartMaps
  <2>3. ASSUME NEW t \in Team, GiveRound(s, t) \/ TakeRound(s, t)
        PROVE  MatchStep
    <3>1. CASE Crash
      BY <1>1, <3>1 DEF Crash
    <3>2. CASE KillDuelist(score)
      <4>1. CASE \E event \in RoundEvent : RoundEndHook(event, score)
        BY <4>1, HookMaps
      <4>2. CASE UNCHANGED <<state, isNowDuel, player, score, round>>
        BY <4>2, Unseen
      <4>3. QED
        BY <3>2, <4>1, <4>2 DEF KillDuelist
    <3>3. CASE KillDuelist([u \in Team |-> score[u] - 1])
      BY <3>3, TakeMaps
    <3>4. QED
      BY <2>3, <3>1, <3>2, <3>3 DEF GiveRound, TakeRound, KillCrashes
  <2>4. CASE \E i \in 1..Len(round) : BackupRound(s, i)
    BY <2>4, BackupMaps
  <2>5. CASE Abort(s) \/ \E t \in Team : GiveWin(s, t)
    BY <2>5, EndOfDuel DEF Abort, AbortDuel, GiveWin, DuelWon, StateWining
  <2>6. CASE TogglePause(s)
    BY <2>6, Unseen DEF TogglePause, StateUnpause
  <2>7. QED
    BY <1>2, <2>1, <2>2, <2>3, <2>4, <2>5, <2>6 DEF Judge
<1>3. ASSUME NEW s \in Slot, Player(s)
      PROVE  MatchStep
  <2>1. CASE PlayerResign(s)
    BY <2>1, EndOfDuel DEF PlayerResign, DuelWon, StateWining
  <2>2. CASE ClientDisconnect(s)
    <3>1. \/ StateNothing
          \/ state' = "PAUSE" /\ UNCHANGED <<isNowDuel, player, score, round>>
          \/ UNCHANGED duelVars
      BY <2>2 DEF ClientDisconnect, DuelPause, AbortDuel
    <3>2. QED
      BY <1>1, <3>1, EndOfDuel, Unseen
  <2>3. ASSUME NEW p \in Person, ClientPutInServer(s, p)
        PROVE  MatchStep
    <3>1. UNCHANGED <<state, isNowDuel, round>>
      BY <2>3 DEF ClientPutInServer
    <3>0. \A u \in Team : SlotTaken(player[u], s).auth = player[u].auth
      BY DEF SlotTaken, DuelOK
    <3>2. ASSUME NEW t \in Team, player[t].auth = p, DuelistComeback(s, p, t)
          PROVE  UNCHANGED score /\ \A u \in Team : player'[u].auth = player[u].auth
      BY <3>0, <3>2 DEF DuelistComeback, InitPlayer, DuelOK, Team, Other
    <3>3. UNCHANGED score /\ \A u \in Team : player'[u].auth = player[u].auth
      BY <2>3, <3>0, <3>2 DEF ClientPutInServer, Team
    <3>4. QED
      BY <3>1, <3>3, Unseen
  <2>4. QED
    BY <1>3, <2>1, <2>2, <2>3 DEF Player
<1>4. ASSUME NEW event \in RoundEvent, RoundEnd(event)
      PROVE  MatchStep
  BY <1>4, HookMaps DEF RoundEnd
<1>5. CASE RestartRound
  BY <1>5, RestartMaps
<1>6. CASE DuelUnpause
  BY <1>6, Unseen DEF DuelUnpause, StateUnpause
<1>7. CASE MapChange
  <2>1. \A t \in Team : player'[t].auth = player[t].auth
    BY <1>7 DEF MapChange, Outdated, DuelOK
  <2>2. QED
    BY <1>7, <2>1, Unseen DEF MapChange
<1>8. CASE UNCHANGED vars
  BY <1>1, <1>8 DEF vars
<1>9. QED
  BY <1>2, <1>3, <1>4, <1>5, <1>6, <1>7, <1>8 DEF Next, Server

LEMMA InitMaps == Init => Match!Init
<1> SUFFICES ASSUME Init PROVE Match!Init
  OBVIOUS
<1>1. MatchPhase = "none" /\ MatchPaused = FALSE /\ MatchScore = NilScore
  BY DEF Init, MatchPhase, MatchPaused, MatchScore
<1>2. MatchDuelist = [t \in Team |-> NoPerson] /\ MatchRecord = {}
  BY <1>1 DEF Init, MatchDuelist, MatchRecord
<1>3. QED
  BY <1>1, <1>2, SameScores DEF Match!Init

\* Whatever the judges, the players and the server do, the controller's duel
\* is a match: its score moves only by rounds, takes and returns, is never
\* decisive while it goes on, and belongs to the same two duelists.
THEOREM Refinement == Safety => ImplementsMatch
<1>1. IInv /\ [Next]_vars => [Match!Next]_(Match!vars)
  BY StepMaps DEF MatchStep
<1>2. QED
  BY <1>1, InitMaps, Invariance, PTL DEF Safety, ImplementsMatch, Match!Spec

-----------------------------------------------------------------------------
(* The action properties.                                                  *)

\* Only the last restart puts a duel on.
LEMMA StartStep ==
    ASSUME IInv, [Next]_vars, ~isNowDuel, isNowDuel'
    PROVE  /\ state = "PREPARING" /\ restartTimes = 0
           /\ score' = NilScore /\ round'[roundSize'] = NilScore
<1> USE DEF IInv
<1>1. CASE RestartRound
  <2>1. state = "PREPARING" /\ restartTimes - 1 = -1 /\ StateGoing
    BY <1>1 DEF RestartRound, RoundRestart, duelVars
  <2>2. roundSize' = roundSize + 1 /\ round'[roundSize'] = NilScore
    BY <2>1 DEF StateGoing, UpdateGameInfo, HistoryOK
  <2>3. QED
    BY <2>1, <2>2 DEF StateGoing, DuelOK
<1>2. ASSUME NEW s \in Slot, Judge(s)
      PROVE  FALSE
  <2>1. ASSUME NEW t \in Team, GiveRound(s, t) \/ TakeRound(s, t)
        PROVE  FALSE
    BY <2>1 DEF GiveRound, TakeRound, KillCrashes, Crash, KillDuelist, RoundEndHook,
                DuelWon, StateWining, StateNothing, duelVars
  <2>2. CASE StartDuel(s)
    BY <2>2 DEF StartDuel, Crash, duelVars
  <2>3. CASE \/ TogglePause(s) \/ Abort(s) \/ \E t \in Team : GiveWin(s, t)
             \/ \E i \in 1..Len(round) : BackupRound(s, i)
    BY <2>3 DEF TogglePause, Abort, AbortDuel, GiveWin, DuelWon, StateWining,
                StateNothing, BackupRound
  <2>4. QED
    BY <1>2, <2>1, <2>2, <2>3 DEF Judge, SurfDuel, OpenBackup, CloseMenu, OpenChoose,
       Choose, RefuseChoice, OpenTeamMenu, duelVars
<1>3. ASSUME NEW s \in Slot, Player(s)
      PROVE  FALSE
  BY <1>3 DEF Player, PlayerResign, DuelWon, StateWining, StateNothing,
     ClientDisconnect, DuelPause, AbortDuel, ClientPutInServer, duelVars
<1>4. ASSUME NEW event \in RoundEvent, RoundEnd(event)
      PROVE  FALSE
  BY <1>4 DEF RoundEnd, RoundEndHook, DuelWon, StateWining, StateNothing
<1>5. CASE DuelUnpause \/ MapChange \/ UNCHANGED vars
  BY <1>5 DEF DuelUnpause, MapChange, vars, duelVars
<1>6. QED
  BY <1>1, <1>2, <1>3, <1>4, <1>5 DEF Next, Server

\* A duel starts by the last restart of its preparation and by nothing else.
THEOREM StartsByRestart == Safety => DuelStartsByRestart
<1>1. ASSUME IInv, [Next]_vars
      PROVE  [~isNowDuel /\ isNowDuel' =>
                 /\ state = "PREPARING" /\ restartTimes = 0
                 /\ score' = NilScore /\ round'[roundSize'] = NilScore]_vars
  BY <1>1, StartStep
<1>2. QED
  BY <1>1, Invariance, PTL DEF Safety, DuelStartsByRestart

\* Who leaves or joins moves no score and no history of a duel that goes on.
THEOREM LeavingIsHarmless == Safety => LeavingKeepsScores
<1>1. ASSUME IInv, [Next]_vars, online' # online, maps' = maps, isNowDuel, isNowDuel'
      PROVE  score' = score /\ round' = round /\ roundSize' = roundSize
  <2>1. ASSUME NEW s \in Slot, Judge(s)
        PROVE  FALSE
    BY <1>1, <2>1 DEF Judge, SurfDuel, OpenBackup, CloseMenu, OpenChoose, Choose,
       RefuseChoice, OpenTeamMenu, StartDuel, GiveRound, TakeRound, KillCrashes, Crash,
       BackupRound, GiveWin, TogglePause, Abort, engineVars
  <2>2. ASSUME NEW s \in Slot, PlayerResign(s)
        PROVE  FALSE
    BY <1>1, <2>2 DEF PlayerResign, engineVars
  <2>3. ASSUME NEW s \in Slot, ClientDisconnect(s)
        PROVE  score' = score /\ round' = round /\ roundSize' = roundSize
    BY <1>1, <2>3 DEF ClientDisconnect, DuelPause, AbortDuel, StateNothing, duelVars
  <2>4. ASSUME NEW s \in Slot, NEW p \in Person, ClientPutInServer(s, p)
        PROVE  score' = score /\ round' = round /\ roundSize' = roundSize
    BY <1>1, <2>4 DEF ClientPutInServer, DuelistComeback
  <2>5. CASE \/ \E event \in RoundEvent : RoundEnd(event)
             \/ RestartRound \/ DuelUnpause \/ UNCHANGED vars
    BY <1>1, <2>5 DEF RoundEnd, RestartRound, DuelUnpause, vars, engineVars
  <2>6. CASE MapChange
    BY <1>1, <2>6 DEF MapChange, IInv, EngineOK
  <2>7. QED
    BY <1>1, <2>1, <2>2, <2>3, <2>4, <2>5, <2>6 DEF Next, Player, Server
<1>2. ASSUME IInv, [Next]_vars
      PROVE  [online' # online /\ maps' = maps /\ isNowDuel /\ isNowDuel'
                 => score' = score /\ round' = round /\ roundSize' = roundSize]_vars
  BY <1>1, <1>2
<1>3. QED
  BY <1>2, Invariance, PTL DEF Safety, LeavingKeepsScores

Total(sc) == sc["CT"] + sc["TER"]

\* The scores are offered by the backup menu, or the menu lags behind the
\* history and they are on record.
OnRecord ==
    \/ score' \in Offered'
    \/ /\ roundsCount' < roundSize'
       /\ \E i \in 1..roundSize' : score' = round'[i]

\* The newest entry of the history is offered as long as the menu does not lag.
LEMMA UpdateIsLast ==
    ASSUME HistoryOK, NEW add, UpdateGameInfo(score', add)
    PROVE  OnRecord
<1>1. roundSize' = roundSize + 1 /\ round'[roundSize'] = score'
  BY DEF UpdateGameInfo, HistoryOK
<1>2. /\ roundSize' \in 1..roundSize'
      /\ roundsCount' \in Nat
      /\ roundsCount' <= roundSize'
  BY <1>1 DEF UpdateGameInfo, HistoryOK
<1>3. CASE roundsCount' = roundSize'
  BY <1>1, <1>2, <1>3 DEF OnRecord, Offered
<1>4. CASE roundsCount' < roundSize'
  BY <1>1, <1>2, <1>4 DEF OnRecord
<1>5. QED
  BY <1>1, <1>2, <1>3, <1>4 DEF HistoryOK

LEMMA HookGains ==
    ASSUME IInv, NEW sc \in Score, NEW event \in RoundEvent, RoundEndHook(event, sc),
           isNowDuel', Total(score') > Total(sc), Total(score') # 0
    PROVE  OnRecord
<1> USE DEF IInv
<1>0. Total(sc) \in Int
  BY DEF Total, Score, Team
<1>1. ~(score' = sc)
  BY <1>0
<1>2. /\ Counted(event) /\ RecordRound(Raise(sc, event))
  BY <1>1 DEF RoundEndHook, DuelWon, StateWining, StateNothing
<1>3. score' = Raise(sc, event) /\ event \in Team
  BY <1>2 DEF RecordRound, Counted
<1>5. UpdateGameInfo(Raise(sc, event), TRUE)
  <2>1. Total(Raise(sc, event)) # 0
    BY <1>3
  <2>2. Raise(sc, event)["CT"] + Raise(sc, event)["TER"] # 0
    BY <2>1 DEF Total
  <2>3. QED
    BY <1>2, <2>2 DEF RecordRound
<1>6. QED
  BY <1>3, <1>5, UpdateIsLast

LEMMA KillGains ==
    ASSUME IInv, NEW sc \in Score, KillDuelist(sc), Total(sc) <= Total(score),
           isNowDuel', Total(score') > Total(score), Total(score') # 0
    PROVE  OnRecord
<1>0. Total(sc) \in Int /\ Total(score) \in Int
  BY DEF Total, Score, Team, IInv, HistoryOK
<1>1. score' # sc
  BY <1>0
<1>2. PICK event \in RoundEvent : RoundEndHook(event, sc)
  BY <1>1 DEF KillDuelist
<1>3. score' \in Score
  BY <1>2, ScoreFacts DEF RoundEndHook, RecordRound, DuelWon, StateWining, StateNothing
<1>4. Total(score') \in Int
  BY <1>3 DEF Total, Score, Team
<1>5. Total(score') > Total(sc)
  BY <1>0, <1>4
<1>6. QED
  BY <1>2, <1>5, HookGains

LEMMA GainStep ==
    ASSUME IInv, [Next]_vars, isNowDuel, isNowDuel',
           Total(score') > Total(score), Total(score') # 0
    PROVE  OnRecord
<1> USE DEF IInv
<1>0. Total(score) \in Int /\ ~UNCHANGED score
  BY DEF Total, Score, Team, HistoryOK
<1>1. ASSUME NEW s \in Slot, Judge(s)
      PROVE  OnRecord
  <2>1. CASE StartDuel(s)
    <3>1. JoinTeams
      BY <1>0, <2>1 DEF StartDuel, Crash, duelVars
    <3>2. score' # NilScore
      BY DEF Total, NilScore, Team
    <3>3. PICK event \in Team : RecordRound(Raise(NilScore, event))
      BY <3>1, <3>2 DEF JoinTeams
    <3>4. score' = Raise(NilScore, event)
      BY <3>3 DEF RecordRound
    <3>5. UpdateGameInfo(score', TRUE)
      BY <3>3, <3>4 DEF RecordRound, Total
    <3>6. QED
      BY <3>5, UpdateIsLast
  <2>2. ASSUME NEW t \in Team, GiveRound(s, t) \/ TakeRound(s, t)
        PROVE  OnRecord
    <3> DEFINE low == [u \in Team |-> score[u] - 1]
    <3>1. score \in Score /\ low \in Score /\ Total(low) <= Total(score)
      BY DEF HistoryOK, Score, Total, Team
    <3>2. KillDuelist(score) \/ KillDuelist(low)
      BY <1>0, <2>2 DEF GiveRound, TakeRound, KillCrashes, Crash, duelVars
    <3>3. QED
      BY <1>0, <3>1, <3>2, KillGains
  <2>3. ASSUME NEW i \in 1..Len(round), BackupRound(s, i)
        PROVE  OnRecord
    <3>1. UpdateGameInfo(score', FALSE)
      BY <2>3 DEF BackupRound
    <3>2. QED
      BY <3>1, UpdateIsLast
  <2>4. CASE Abort(s) \/ \E t \in Team : GiveWin(s, t)
    BY <2>4 DEF Abort, AbortDuel, GiveWin, DuelWon, StateWining, StateNothing
  <2>5. QED
    BY <1>0, <1>1, <2>1, <2>2, <2>3, <2>4 DEF Judge, SurfDuel, OpenBackup, CloseMenu,
       OpenChoose, Choose, RefuseChoice, OpenTeamMenu, TogglePause, duelVars
<1>2. ASSUME NEW s \in Slot, Player(s)
      PROVE  FALSE
  BY <1>0, <1>2 DEF Player, PlayerResign, DuelWon, StateWining, StateNothing,
     ClientDisconnect, DuelPause, AbortDuel, ClientPutInServer, DuelistComeback, duelVars
<1>3. ASSUME NEW event \in RoundEvent, RoundEnd(event)
      PROVE  OnRecord
  BY <1>3, HookGains DEF RoundEnd, HistoryOK
<1>4. CASE RestartRound
  <2>1. score' = NilScore
    BY <1>0, <1>4 DEF RestartRound, RoundRestart, StateGoing, duelVars
  <2>2. QED
    BY <2>1 DEF Total, NilScore, Team
<1>5. CASE DuelUnpause \/ MapChange \/ UNCHANGED vars
  BY <1>0, <1>5 DEF DuelUnpause, MapChange, vars, duelVars
<1>6. QED
  BY <1>1, <1>2, <1>3, <1>4, <1>5 DEF Next, Server

\* In a duel that is on, a gain can be restored the moment it is made, unless
\* it sums to zero; after a backup it may only be on record.
THEOREM GainsAreRecorded == Safety => GainIsRecorded
<1>1. ASSUME IInv, [Next]_vars
      PROVE  [LET sum(sc) == sc["CT"] + sc["TER"]
              IN  isNowDuel /\ isNowDuel' /\ sum(score') > sum(score) =>
                      \/ sum(score') = 0
                      \/ score' \in Offered'
                      \/ /\ roundsCount' < roundSize'
                         /\ \E i \in 1..roundSize' : score' = round'[i] ]_vars
  BY <1>1, GainStep DEF Total, OnRecord
<1>2. QED
  BY <1>1, Invariance, PTL DEF Safety, GainIsRecorded

=============================================================================
