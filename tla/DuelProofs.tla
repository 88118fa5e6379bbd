----------------------------- MODULE DuelProofs -----------------------------
(***************************************************************************)
(* Proofs about the duel controller: the six invariants that the runs of   *)
(* MCDuel check hold for every set of slots and players, every score to    *)
(* win and every value of the bounds.                                      *)
(***************************************************************************)
EXTENDS Duel, TLAPS

-----------------------------------------------------------------------------
(* The inductive invariant, one part per group of variables.               *)

\* The types of the variables that no other part constrains
EngineOK ==
    /\ client \in [Slot -> Auth]
    /\ online \subseteq Slot
    /\ restart \in Restart
    /\ running \in BOOLEAN
    /\ duelistsOut \in Nat
    /\ unpauseTask \in BOOLEAN
    /\ joins \in Nat
    /\ maps \in Nat

\* The types of the duel, and that its duelists and its judge are known from
\* the start of the preparation on
DuelOK ==
    /\ state \in DuelState
    /\ isNowDuel \in BOOLEAN
    /\ player \in [Team -> [base : Base, id : Index, auth : Auth]]
    /\ judgeId \in Index
    /\ restartTimes \in -1..3
    /\ isNowDuel \/ state = "PREPARING" =>
           /\ judgeId # NoSlot
           /\ \A t \in Team : player[t].base # "null" /\ player[t].auth # NoPerson
    /\ PreparingHasRestart

\* The scores and the history
HistoryOK ==
    /\ score \in Score
    /\ round \in Seq(Score)
    /\ roundSize \in Nat
    /\ roundsCount \in Nat
    /\ roundsCount <= roundSize
    /\ roundSize <= Len(round)
    /\ NoUnclaimedWin
    /\ isNowDuel => roundsCount > 0

\* What one judge's menu m and choices c have to do with each other and with
\* a history of n entries
JudgeOK(m, c, n) ==
    /\ Menu(m)
    /\ c \in Index \X Index
    /\ m.kind = "choose" => c[2] = NoSlot /\ c[1] \notin m.items
    /\ m.kind = "start" => c[1] \in Slot /\ c[2] \in Slot /\ c[1] # c[2]
    /\ m.kind = "backup" => m.items \subseteq 1..n

MenusOK ==
    /\ DOMAIN menu = Slot
    /\ judgeChoice \in [Slot -> Index \X Index]
    /\ \A s \in Slot : JudgeOK(menu[s], judgeChoice[s], Len(round))

IInv == EngineOK /\ DuelOK /\ HistoryOK /\ MenusOK /\ CrashMeansStale

-----------------------------------------------------------------------------
(* Scores.                                                                 *)

\* A round won from undecided scores, and a round taken from both, are typed;
\* taking a round decides nothing, and no scores decide a duel at 0:0.
LEMMA ScoreFacts ==
    /\ NilScore \in Score
    /\ ~Decided(NilScore)
    /\ \A event \in RoundEvent, sc \in Score : Raise(sc, event) \in Score
    /\ \A event \in RoundEvent : ~Decided(Raise(NilScore, event))
    /\ \A sc \in Score : /\ [t \in Team |-> sc[t] - 1] \in Score
                         /\ ~Decided(sc) => ~Decided([t \in Team |-> sc[t] - 1])
<1>1. NilScore \in Score
  BY DEF NilScore, Score
<1>2. ~Decided(NilScore)
  BY BoundAssumption DEF NilScore, Decided, Wins, Team, Other
<1>3. \A event \in RoundEvent, sc \in Score : Raise(sc, event) \in Score
  BY DEF Raise, Score
<1>4. \A event \in RoundEvent : ~Decided(Raise(NilScore, event))
  BY BoundAssumption DEF NilScore, Decided, Wins, Team, Other, Raise
<1>5. ASSUME NEW sc \in Score
      PROVE  /\ [t \in Team |-> sc[t] - 1] \in Score
             /\ ~Decided(sc) => ~Decided([t \in Team |-> sc[t] - 1])
  BY BoundAssumption DEF Score, Decided, Wins, Team, Other
<1>6. QED
  BY <1>1, <1>2, <1>3, <1>4, <1>5

-----------------------------------------------------------------------------
(* The scores and the history: what the pieces that change them preserve.  *)

\* HistoryOK for the next state, apart from its last conjunct, is what each
\* piece establishes; the storage only grows.
Recorded ==
    /\ score' \in Score /\ ~Decided(score')
    /\ round' \in Seq(Score)
    /\ \A i \in DOMAIN round' : ~Decided(round'[i])
    /\ roundSize' \in Nat /\ roundsCount' \in Nat
    /\ roundsCount' <= roundSize' /\ roundSize' <= Len(round')
    /\ Len(round) <= Len(round')

LEMMA UpdateRecords ==
    ASSUME HistoryOK, NEW sc \in Score, ~Decided(sc), NEW add \in BOOLEAN,
           UpdateGameInfo(sc, add), score' = sc
    PROVE  Recorded /\ roundsCount <= roundsCount' /\ (add => roundsCount' > 0)
<1> USE DEF HistoryOK
<1>1. /\ round' \in Seq(Score)
      /\ Len(round) <= Len(round') /\ roundSize + 1 <= Len(round')
      /\ \A i \in DOMAIN round' : ~Decided(round'[i])
  <2>1. CASE roundSize < Len(round)
    BY <2>1 DEF UpdateGameInfo, NoUnclaimedWin
  <2>2. CASE ~(roundSize < Len(round))
    BY <2>2 DEF UpdateGameInfo, NoUnclaimedWin
  <2>3. QED
    BY <2>1, <2>2
<1>2. /\ roundSize' = roundSize + 1
      /\ roundsCount' = IF add THEN roundsCount + 1 ELSE roundsCount
  BY DEF UpdateGameInfo
<1>3. QED
  BY <1>1, <1>2 DEF Recorded

LEMMA NothingRecords ==
    ASSUME HistoryOK, StateNothing
    PROVE  Recorded /\ ~isNowDuel'
BY ScoreFacts DEF HistoryOK, StateNothing, Recorded, NoUnclaimedWin

\* Nothing but the scores changes.
LEMMA ScoreRecords ==
    ASSUME HistoryOK, score' \in Score, ~Decided(score'),
           UNCHANGED <<round, roundSize, roundsCount>>
    PROVE  Recorded
BY DEF HistoryOK, Recorded, NoUnclaimedWin

LEMMA RoundRecords ==
    ASSUME HistoryOK, NEW new \in Score, ~Decided(new), RecordRound(new)
    PROVE  Recorded /\ roundsCount <= roundsCount'
<1>1. CASE new["CT"] + new["TER"] # 0
  BY <1>1, UpdateRecords DEF RecordRound
<1>2. CASE new["CT"] + new["TER"] = 0
  BY <1>2, ScoreRecords DEF RecordRound, HistoryOK
<1>3. QED
  BY <1>1, <1>2

LEMMA HookRecords ==
    ASSUME HistoryOK, isNowDuel \in BOOLEAN, NEW sc \in Score, ~Decided(sc),
           NEW event \in RoundEvent, RoundEndHook(event, sc)
    PROVE  Recorded /\ (isNowDuel' => roundsCount' > 0)
<1>1. CASE /\ ~Counted(event) /\ score' = sc
           /\ UNCHANGED <<state, isNowDuel, player, round, roundSize, roundsCount>>
  BY <1>1, ScoreRecords DEF HistoryOK
<1>2. CASE StateNothing
  BY <1>2, NothingRecords
<1>3. CASE /\ ~Decided(Raise(sc, event)) /\ RecordRound(Raise(sc, event))
           /\ UNCHANGED isNowDuel
  BY <1>3, RoundRecords, ScoreFacts DEF HistoryOK, Recorded
<1>4. QED
  BY <1>1, <1>2, <1>3 DEF RoundEndHook, DuelWon, StateWining

LEMMA KillRecords ==
    ASSUME HistoryOK, isNowDuel \in BOOLEAN, NEW sc \in Score, ~Decided(sc),
           KillDuelist(sc)
    PROVE  Recorded /\ (isNowDuel' => roundsCount' > 0)
<1>1. CASE \E event \in RoundEvent : RoundEndHook(event, sc)
  BY <1>1, HookRecords
<1>2. CASE /\ score' = sc
           /\ UNCHANGED <<state, isNowDuel, player, round, roundSize, roundsCount>>
  BY <1>2, ScoreRecords DEF HistoryOK
<1>3. QED
  BY <1>1, <1>2 DEF KillDuelist

\* HistoryOK is preserved, and the storage of the history never shrinks.
LEMMA HistoryStep ==
    ASSUME IInv, [Next]_vars
    PROVE  HistoryOK' /\ Len(round) <= Len(round')
<1> USE DEF IInv
<1> SUFFICES Recorded /\ (isNowDuel' => roundsCount' > 0)
  BY DEF HistoryOK, Recorded, NoUnclaimedWin
<1>0. isNowDuel \in BOOLEAN
  BY DEF DuelOK
<1>1. CASE UNCHANGED <<isNowDuel, score, round, roundSize, roundsCount>>
  BY <1>1, ScoreRecords DEF HistoryOK, NoUnclaimedWin
<1>2. CASE StateNothing
  BY <1>2, NothingRecords
<1>3. ASSUME NEW s \in Slot, Judge(s)
      PROVE  Recorded /\ (isNowDuel' => roundsCount' > 0)
  <2>1. CASE SurfDuel(s) \/ OpenBackup(s) \/ TogglePause(s) \/ CloseMenu(s)
    BY <1>1, <2>1 DEF SurfDuel, OpenBackup, TogglePause, CloseMenu, duelVars
  <2>2. CASE \E ready \in SUBSET online :
               \/ OpenChoose(s, ready) \/ RefuseChoice(s, ready)
               \/ \E victim \in Slot : Choose(s, victim, ready)
    BY <1>1, <2>2 DEF OpenChoose, Choose, RefuseChoice, duelVars
  <2>3. CASE \E kind \in {"give", "take", "win"} : OpenTeamMenu(s, kind)
    BY <1>1, <2>3 DEF OpenTeamMenu, duelVars
  <2>4. CASE StartDuel(s)
    <3>1. CASE Crash
      BY <1>1, <3>1 DEF Crash, duelVars
    <3>2. CASE JoinTeams /\ UNCHANGED isNowDuel
      <4>1. CASE score' = NilScore /\ UNCHANGED <<round, roundSize, roundsCount>>
        BY <3>2, <4>1, ScoreRecords, ScoreFacts DEF HistoryOK
      <4>2. ASSUME NEW event \in Team, RecordRound(Raise(NilScore, event))
            PROVE  Recorded /\ roundsCount <= roundsCount'
        BY <4>2, RoundRecords, ScoreFacts DEF RoundEvent
      <4>3. QED
        BY <3>2, <4>1, <4>2 DEF JoinTeams, HistoryOK, Recorded
    <3>3. QED
      BY <2>4, <3>1, <3>2 DEF StartDuel, StartRestarting
  <2>5. ASSUME NEW t \in Team, GiveRound(s, t) \/ TakeRound(s, t)
        PROVE  Recorded /\ (isNowDuel' => roundsCount' > 0)
    <3>1. CASE Crash
      BY <1>1, <3>1 DEF Crash, duelVars
    <3>2. CASE KillDuelist(score)
      BY <1>0, <3>2, KillRecords DEF HistoryOK, NoUnclaimedWin
    <3>3. CASE KillDuelist([u \in Team |-> score[u] - 1])
      BY <1>0, <3>3, KillRecords, ScoreFacts DEF HistoryOK, NoUnclaimedWin
    <3>4. QED
      BY <2>5, <3>1, <3>2, <3>3 DEF GiveRound, TakeRound, KillCrashes
  <2>6. ASSUME NEW i \in 1..Len(round), BackupRound(s, i)
        PROVE  Recorded /\ (isNowDuel' => roundsCount' > 0)
    <3>1. round[i] \in Score /\ ~Decided(round[i])
      BY DEF HistoryOK, NoUnclaimedWin
    <3>2. Recorded /\ roundsCount <= roundsCount'
      BY <2>6, <3>1, UpdateRecords DEF BackupRound
    <3>3. QED
      BY <2>6, <3>2 DEF BackupRound, HistoryOK, Recorded
  <2>7. CASE Abort(s) \/ \E t \in Team : GiveWin(s, t)
    BY <1>2, <2>7 DEF Abort, AbortDuel, GiveWin, DuelWon, StateWining
  <2>8. QED
    BY <1>3, <2>1, <2>2, <2>3, <2>4, <2>5, <2>6, <2>7 DEF Judge
<1>4. ASSUME NEW s \in Slot, Player(s)
      PROVE  Recorded /\ (isNowDuel' => roundsCount' > 0)
  <2>1. CASE PlayerResign(s)
    BY <1>2, <2>1 DEF PlayerResign, DuelWon, StateWining
  <2>2. CASE ClientDisconnect(s)
    <3>1. StateNothing \/ UNCHANGED <<isNowDuel, score, round, roundSize, roundsCount>>
      BY <2>2 DEF ClientDisconnect, DuelPause, AbortDuel, duelVars
    <3>2. QED
      BY <1>1, <1>2, <3>1
  <2>3. CASE \E p \in Person : ClientPutInServer(s, p)
    BY <1>1, <2>3 DEF ClientPutInServer, DuelistComeback
  <2>4. QED
    BY <1>4, <2>1, <2>2, <2>3 DEF Player
<1>5. ASSUME NEW event \in RoundEvent, RoundEnd(event)
      PROVE  Recorded /\ (isNowDuel' => roundsCount' > 0)
  BY <1>0, <1>5, HookRecords DEF RoundEnd, HistoryOK, NoUnclaimedWin
<1>6. CASE RestartRound
  <2>1. CASE UNCHANGED duelVars
    BY <1>1, <2>1 DEF duelVars
  <2>2. CASE score' = NilScore /\ UpdateGameInfo(NilScore, TRUE)
    BY <2>2, UpdateRecords, ScoreFacts
  <2>3. QED
    BY <1>6, <2>1, <2>2 DEF RestartRound, RoundRestart, StateGoing
<1>7. CASE DuelUnpause \/ MapChange
  BY <1>1, <1>7 DEF DuelUnpause, MapChange
<1>8. CASE UNCHANGED vars
  BY <1>1, <1>8 DEF vars, duelVars
<1>9. QED
  BY <1>3, <1>4, <1>5, <1>6, <1>7, <1>8 DEF Next, Server

-----------------------------------------------------------------------------
(* The other parts.                                                        *)

LEMMA RestartFacts ==
    ASSUME restart \in Restart
    PROVE  /\ RequestRestart => restart' \in Restart /\ restart' # "none"
           /\ \A sc : KillDuelist(sc) =>
                 /\ restart' \in Restart
                 /\ restart' = "none" => restart = "none"
BY DEF Restart, RequestRestart, KillDuelist

LEMMA EngineStep ==
    ASSUME IInv, [Next]_vars
    PROVE  EngineOK'
<1> USE RestartFacts DEF IInv, EngineOK
<1>1. CASE UNCHANGED <<engineVars, restart, duelistsOut, unpauseTask>>
           /\ running' \in BOOLEAN
  BY <1>1 DEF engineVars
<1>2. CASE UNCHANGED <<engineVars, running, duelistsOut, unpauseTask>>
           /\ restart' \in Restart
  BY <1>2 DEF engineVars
<1>3. ASSUME NEW s \in Slot, Judge(s)
      PROVE  EngineOK'
  <2>1. CASE \/ SurfDuel(s) \/ OpenBackup(s) \/ CloseMenu(s)
             \/ \E ready \in SUBSET online :
                   \/ OpenChoose(s, ready) \/ RefuseChoice(s, ready)
                   \/ \E victim \in Slot : Choose(s, victim, ready)
             \/ \E kind \in {"give", "take", "win"} : OpenTeamMenu(s, kind)
    BY <1>1, <2>1 DEF SurfDuel, OpenBackup, CloseMenu, OpenChoose, Choose,
                      RefuseChoice, OpenTeamMenu, countVars
  <2>2. CASE StartDuel(s)
    <3>1. CASE Crash
      BY <1>1, <3>1 DEF Crash, countVars
    <3>2. CASE JoinTeams /\ UNCHANGED <<engineVars, running, duelistsOut, unpauseTask>>
      BY <1>2, <3>2 DEF JoinTeams, Restart
    <3>3. QED
      BY <2>2, <3>1, <3>2 DEF StartDuel, StartRestarting
  <2>3. ASSUME NEW t \in Team, GiveRound(s, t) \/ TakeRound(s, t)
        PROVE  EngineOK'
    <3>1. CASE Crash
      BY <1>1, <3>1 DEF Crash, countVars
    <3>2. ASSUME NEW sc, KillDuelist(sc),
                 UNCHANGED <<engineVars, running, countVars, unpauseTask>>
          PROVE  EngineOK'
      BY <1>2, <3>2 DEF countVars
    <3>3. QED
      BY <2>3, <3>1, <3>2 DEF GiveRound, TakeRound, KillCrashes
  <2>4. CASE \/ Abort(s) \/ TogglePause(s)
             \/ \E t \in Team : GiveWin(s, t)
             \/ \E i \in 1..Len(round) : BackupRound(s, i)
    BY <1>2, <2>4 DEF Abort, AbortDuel, TogglePause, StateUnpause, GiveWin,
                      BackupRound, countVars
  <2>5. QED
    BY <1>3, <2>1, <2>2, <2>3, <2>4 DEF Judge
<1>4. ASSUME NEW s \in Slot, Player(s)
      PROVE  EngineOK'
  <2>1. CASE PlayerResign(s)
    BY <1>2, <2>1 DEF PlayerResign, countVars
  <2>2. CASE ClientDisconnect(s)
    BY <2>2 DEF ClientDisconnect, DuelPause, AbortDuel
  <2>3. ASSUME NEW p \in Person, ClientPutInServer(s, p)
        PROVE  EngineOK'
    <3>1. /\ client' = [client EXCEPT ![s] = p] /\ online' = online \cup {s}
          /\ joins' = joins + 1
          /\ UNCHANGED <<maps, restart, running, duelistsOut>>
      BY <2>3 DEF ClientPutInServer, countVars
    <3>2. unpauseTask' \in BOOLEAN
      BY <2>3 DEF ClientPutInServer, DuelistComeback
    <3>3. QED
      BY <3>1, <3>2 DEF Auth
  <2>4. QED
    BY <1>4, <2>1, <2>2, <2>3 DEF Player
<1>5. ASSUME NEW event \in RoundEvent, RoundEnd(event)
      PROVE  EngineOK'
  BY <1>2, <1>5 DEF RoundEnd, countVars, Restart
<1>6. CASE RestartRound
  BY <1>2, <1>6 DEF RestartRound, RoundRestart, StateGoing, Restart
<1>7. CASE DuelUnpause
  BY <1>7 DEF DuelUnpause, StateUnpause, engineVars, countVars
<1>8. CASE MapChange
  <2>1. /\ client' = [s \in Slot |-> NoPerson] /\ online' = {}
        /\ restart' = "none" /\ unpauseTask' = FALSE /\ maps' = maps + 1
        /\ UNCHANGED <<joins, running, duelistsOut>>
    BY <1>8 DEF MapChange, countVars
  <2>2. [s \in Slot |-> NoPerson] \in [Slot -> Auth]
    BY DEF Auth
  <2>3. "none" \in Restart
    BY DEF Restart
  <2>4. unpauseTask' \in BOOLEAN
    BY <2>1
  <2>5. maps' \in Nat
    BY <2>1
  <2>6. QED
    BY <2>1, <2>2, <2>3, <2>4, <2>5
<1>9. CASE UNCHANGED vars
  BY <1>1, <1>9 DEF vars, countVars
<1>10. QED
  BY <1>3, <1>4, <1>5, <1>6, <1>7, <1>8, <1>9 DEF Next, Server

\* DuelOK survives every step that leaves the duel alone, or moves it between
\* GOING and PAUSE, and the end of a duel establishes it.
LEMMA DuelKept ==
    ASSUME DuelOK,
           UNCHANGED <<isNowDuel, player, judgeId, restartTimes>>,
           \/ state' \in {"GOING", "PAUSE"}
           \/ UNCHANGED state /\ (restart' = "none" => restart = "none")
    PROVE  DuelOK'
BY DEF DuelOK, DuelState, PreparingHasRestart

LEMMA DuelEnded ==
    ASSUME DuelOK, StateNothing, UNCHANGED <<judgeId, restartTimes>>
    PROVE  DuelOK'
BY DEF DuelOK, DuelState, PreparingHasRestart, StateNothing, Nobody, Base, Index, Auth

LEMMA HookKeepsDuel ==
    ASSUME DuelOK, NEW event, NEW sc, RoundEndHook(event, sc),
           UNCHANGED <<judgeId, restartTimes>>,
           restart' = "none" => restart = "none"
    PROVE  DuelOK'
BY DuelKept, DuelEnded DEF RoundEndHook, DuelWon, StateWining

LEMMA DuelStep ==
    ASSUME IInv, [Next]_vars
    PROVE  DuelOK'
<1> USE RestartFacts DEF IInv, EngineOK
<1>1. CASE UNCHANGED <<duelVars, judgeId, restartTimes, restart>>
  BY <1>1, DuelKept DEF duelVars
<1>2. ASSUME NEW s \in Slot, Judge(s)
      PROVE  DuelOK'
  <2>1. CASE \/ SurfDuel(s) \/ OpenBackup(s) \/ CloseMenu(s)
             \/ \E ready \in SUBSET online :
                   \/ OpenChoose(s, ready) \/ RefuseChoice(s, ready)
                   \/ \E victim \in Slot : Choose(s, victim, ready)
             \/ \E kind \in {"give", "take", "win"} : OpenTeamMenu(s, kind)
    BY <1>1, <2>1 DEF SurfDuel, OpenBackup, CloseMenu, OpenChoose, Choose,
                      RefuseChoice, OpenTeamMenu, countVars, judgeVars
  <2>2. CASE StartDuel(s)
    <3>1. CASE Crash
      BY <1>1, <3>1 DEF Crash, countVars, judgeVars
    <3>2. CASE ~Crash
      <4> DEFINE c(t) == judgeChoice[s][IF t = "CT" THEN 1 ELSE 2]
      <4>1. menu[s].kind = "start" /\ JudgeOK(menu[s], judgeChoice[s], Len(round))
        BY <2>2 DEF StartDuel, StartRestarting, Answers, MenusOK
      <4>2. \A t \in Team : c(t) \in Slot
        BY <4>1 DEF JudgeOK, Team
      <4>3. /\ judgeId' = s /\ state' = "PREPARING" /\ restartTimes' = 3
            /\ UNCHANGED isNowDuel
            /\ \A t \in Team : client[c(t)] # NoPerson
            /\ player' = [t \in Team |-> InitPlayer(c(t), client[c(t)])]
            /\ JoinTeams
        BY <2>2, <3>2 DEF StartDuel, StartRestarting, HasEntity
      <4>4. \A t \in Team : client[c(t)] \in Auth
        BY <4>2
      <4>5. player' \in [Team -> [base : Base, id : Index, auth : Auth]]
        BY <4>2, <4>3, <4>4 DEF InitPlayer, Base, Index
      <4>6. \A t \in Team : player'[t].base # "null" /\ player'[t].auth # NoPerson
        BY <4>3 DEF InitPlayer
      <4>7. restart' # "none"
        BY <4>3 DEF JoinTeams
      <4>8. s # NoSlot /\ s \in Index
        BY SlotAssumption DEF Index
      <4>9. QED
        BY <4>3, <4>5, <4>6, <4>7, <4>8 DEF DuelOK, DuelState, PreparingHasRestart
    <3>3. QED
      BY <3>1, <3>2
  <2>3. ASSUME NEW t \in Team, GiveRound(s, t) \/ TakeRound(s, t)
        PROVE  DuelOK'
    <3>1. CASE Crash
      BY <1>1, <3>1 DEF Crash, countVars, judgeVars
    <3>2. ASSUME NEW sc, KillDuelist(sc), UNCHANGED <<judgeVars, countVars>>
          PROVE  DuelOK'
      <4>1. CASE \E event \in RoundEvent : RoundEndHook(event, sc)
        BY <3>2, <4>1, HookKeepsDuel DEF countVars, judgeVars
      <4>2. CASE UNCHANGED <<state, isNowDuel, player, restart>>
        BY <3>2, <4>2, DuelKept DEF countVars, judgeVars
      <4>3. QED
        BY <3>2, <4>1, <4>2 DEF KillDuelist
    <3>3. QED
      BY <2>3, <3>1, <3>2 DEF GiveRound, TakeRound, KillCrashes
  <2>4. CASE Abort(s) \/ \E t \in Team : GiveWin(s, t)
    BY <2>4, DuelEnded DEF Abort, AbortDuel, GiveWin, DuelWon, StateWining, countVars, judgeVars
  <2>5. CASE TogglePause(s) \/ \E i \in 1..Len(round) : BackupRound(s, i)
    BY <2>5, DuelKept DEF TogglePause, BackupRound, StateUnpause, countVars, judgeVars
  <2>6. QED
    BY <1>2, <2>1, <2>2, <2>3, <2>4, <2>5 DEF Judge
<1>3. ASSUME NEW s \in Slot, Player(s)
      PROVE  DuelOK'
  <2>1. CASE PlayerResign(s)
    BY <2>1, DuelEnded DEF PlayerResign, DuelWon, StateWining, countVars, judgeVars
  <2>2. CASE ClientDisconnect(s)
    <3>1. UNCHANGED <<judgeId, restartTimes>>
      BY <2>2 DEF ClientDisconnect, judgeVars
    <3>2. \/ StateNothing
          \/ state' = "PAUSE" /\ UNCHANGED <<isNowDuel, player>>
          \/ UNCHANGED <<restart, state, isNowDuel, player>>
      BY <2>2 DEF ClientDisconnect, DuelPause, AbortDuel, duelVars
    <3>3. QED
      BY <3>1, <3>2, DuelKept, DuelEnded
  <2>3. ASSUME NEW p \in Person, ClientPutInServer(s, p)
        PROVE  DuelOK'
    <3> DEFINE Entry == [base : Base, id : Index, auth : Auth]
    <3>1. ASSUME NEW t \in Team
          PROVE  /\ SlotTaken(player[t], s) \in Entry
                 /\ SlotTaken(player[t], s).auth = player[t].auth
                 /\ SlotTaken(player[t], s).base = "null" <=> player[t].base = "null"
                 /\ SlotTaken(player[t], s).base = "oldMap" <=> player[t].base = "oldMap"
      <4>1. player[t] \in Entry
        BY DEF DuelOK
      <4>2. QED
        BY <4>1 DEF SlotTaken, Base
    <3>2. /\ InitPlayer(s, p) \in Entry
          /\ InitPlayer(s, p).base # "null" /\ InitPlayer(s, p).auth # NoPerson
      BY PersonAssumption DEF InitPlayer, Base, Index, Auth
    <3>3. UNCHANGED <<state, isNowDuel, judgeId, restart, restartTimes>>
      BY <2>3 DEF ClientPutInServer, judgeVars, countVars
    <3>4. ASSUME NEW t \in Team, state = "PAUSE",
                 player' = [player EXCEPT ![t] = InitPlayer(s, p),
                                          ![Other(t)] = SlotTaken(@, s)]
          PROVE  DuelOK'
      <4>1. \A u \in Team : player'[u] = IF u = t THEN InitPlayer(s, p)
                                                 ELSE SlotTaken(player[u], s)
        BY <3>4 DEF DuelOK, Team, Other
      <4>2. player' \in [Team -> Entry]
        BY <3>1, <3>2, <3>4, <4>1 DEF DuelOK, Team, Other
      <4>3. \A u \in Team : player[u].base # "null" /\ player[u].auth # NoPerson
                => player'[u].base # "null" /\ player'[u].auth # NoPerson
        BY <3>1, <3>2, <4>1
      <4>4. QED
        BY <3>3, <3>4, <4>2, <4>3 DEF DuelOK, PreparingHasRestart
    <3>5. CASE player' = [t \in Team |-> SlotTaken(player[t], s)]
      <4>1. player' \in [Team -> Entry]
        BY <3>1, <3>5
      <4>2. \A u \in Team : /\ player'[u].auth = player[u].auth
                            /\ player'[u].base = "null" <=> player[u].base = "null"
                            /\ player'[u].base = "oldMap" <=> player[u].base = "oldMap"
        BY <3>1, <3>5
      <4>3. QED
        BY <3>3, <4>1, <4>2 DEF DuelOK, PreparingHasRestart
    <3>6. QED
      BY <2>3, <3>4, <3>5 DEF ClientPutInServer, DuelistComeback, Team
  <2>4. QED
    BY <1>3, <2>1, <2>2, <2>3 DEF Player
<1>4. ASSUME NEW event \in RoundEvent, RoundEnd(event)
      PROVE  DuelOK'
  BY <1>4, HookKeepsDuel DEF RoundEnd, countVars, judgeVars
<1>5. CASE RestartRound
  <2>1. CASE state # "PREPARING" /\ UNCHANGED <<state, isNowDuel, player, restartTimes>>
    BY <1>5, <2>1 DEF RestartRound, judgeVars, DuelOK, PreparingHasRestart
  <2>2. CASE RoundRestart /\ restartTimes - 1 >= 0
    <3>0. restartTimes \in -1..3 /\ restartTimes - 1 # -1
      BY <2>2 DEF DuelOK
    <3>1. /\ state = "PREPARING" /\ restartTimes' = restartTimes - 1
          /\ restart' = "requested"
          /\ UNCHANGED <<state, isNowDuel, player, judgeId>>
      BY <1>5, <2>2, <3>0 DEF RestartRound, RoundRestart, StateGoing, duelVars, judgeVars
    <3>2. QED
      BY <2>2, <3>1 DEF DuelOK, PreparingHasRestart
  <2>3. CASE RoundRestart /\ ~(restartTimes - 1 >= 0)
    <3>1. /\ state = "PREPARING" /\ restartTimes' = -1
          /\ state' = "GOING" /\ isNowDuel' = TRUE
          /\ UNCHANGED <<player, judgeId>>
      BY <1>5, <2>3 DEF RestartRound, RoundRestart, StateGoing, judgeVars
    <3>2. QED
      BY <3>1 DEF DuelOK, PreparingHasRestart, DuelState
  <2>4. QED
    BY <1>5, <2>1, <2>2, <2>3 DEF RestartRound, duelVars
<1>6. CASE DuelUnpause
  BY <1>6, DuelKept DEF DuelUnpause, StateUnpause, judgeVars, countVars
<1>7. CASE MapChange
  <2>0. ASSUME NEW t \in Team
        PROVE  /\ Outdated(player[t]) \in [base : Base, id : Index, auth : Auth]
               /\ Outdated(player[t]).auth = player[t].auth
               /\ player[t].base # "null" => Outdated(player[t]).base = "oldMap"
    <3>1. player[t] \in [base : Base, id : Index, auth : Auth]
      BY DEF DuelOK
    <3>2. QED
      BY <3>1 DEF Outdated, Base
  <2>1. player' \in [Team -> [base : Base, id : Index, auth : Auth]]
    BY <1>7, <2>0 DEF MapChange
  <2>2. \A t \in Team : /\ player'[t].auth = player[t].auth
                        /\ player[t].base # "null" => player'[t].base = "oldMap"
    BY <1>7, <2>0 DEF MapChange
  <2>3. UNCHANGED <<state, isNowDuel, judgeId, restartTimes>>
    BY <1>7 DEF MapChange, judgeVars, countVars
  <2>4. QED
    BY <2>1, <2>2, <2>3 DEF DuelOK, PreparingHasRestart
<1>8. CASE UNCHANGED vars
  BY <1>1, <1>8 DEF vars, countVars, judgeVars
<1>9. QED
  BY <1>2, <1>3, <1>4, <1>5, <1>6, <1>7, <1>8 DEF Next, Server

-----------------------------------------------------------------------------
(* The judges' menus.                                                      *)

\* The history only grows under a judge's menu.
LEMMA JudgeGrows ==
    ASSUME NEW m, NEW c, NEW n \in Nat, NEW k \in Nat, n <= k, JudgeOK(m, c, n)
    PROVE  JudgeOK(m, c, k)
<1>1. 1..n \subseteq 1..k
  OBVIOUS
<1>2. QED
  BY <1>1 DEF JudgeOK

LEMMA MenuChosen ==
    ASSUME MenusOK, round \in Seq(Score), round' \in Seq(Score),
           Len(round) <= Len(round'),
           NEW s \in Slot, NEW m, NEW c,
           Show(s, m), judgeChoice' = [judgeChoice EXCEPT ![s] = c],
           JudgeOK(m, c, Len(round'))
    PROVE  MenusOK'
<1>1. \A u \in Slot : JudgeOK(menu[u], judgeChoice[u], Len(round'))
  BY JudgeGrows DEF MenusOK
<1>2. c \in Index \X Index
  BY DEF JudgeOK
<1>3. DOMAIN menu' = Slot /\ judgeChoice' \in [Slot -> Index \X Index]
  BY <1>2 DEF MenusOK, Show
<1>4. \A u \in Slot : /\ menu'[u] = IF u = s THEN m ELSE menu[u]
                      /\ judgeChoice'[u] = IF u = s THEN c ELSE judgeChoice[u]
  BY DEF MenusOK, Show
<1>5. \A u \in Slot : JudgeOK(menu'[u], judgeChoice'[u], Len(round'))
  BY <1>1, <1>4
<1>6. QED
  BY <1>3, <1>5 DEF MenusOK, JudgeOK, Menu

LEMMA MenuShown ==
    ASSUME MenusOK, round \in Seq(Score), round' \in Seq(Score),
           Len(round) <= Len(round'),
           NEW s \in Slot, NEW m, Show(s, m), UNCHANGED judgeChoice,
           JudgeOK(m, judgeChoice[s], Len(round'))
    PROVE  MenusOK'
<1>1. judgeChoice' = [judgeChoice EXCEPT ![s] = judgeChoice[s]]
  BY DEF MenusOK
<1>2. QED
  BY <1>1, MenuChosen

LEMMA MenuKept ==
    ASSUME MenusOK, round \in Seq(Score), round' \in Seq(Score),
           Len(round) <= Len(round'), UNCHANGED <<menu, judgeChoice>>
    PROVE  MenusOK'
<1>1. \A u \in Slot : JudgeOK(menu[u], judgeChoice[u], Len(round'))
  BY JudgeGrows DEF MenusOK
<1>2. QED
  BY <1>1 DEF MenusOK, JudgeOK, Menu

\* The menus the handlers build
LEMMA MenuFacts ==
    ASSUME IInv, NEW c \in Index \X Index, NEW n \in Nat
    PROVE  /\ JudgeOK(NoMenu, c, n)
           /\ JudgeOK(MainMenu, c, n)
           /\ \A kind \in {"give", "take", "win"} : JudgeOK(TeamMenu(kind), c, n)
           /\ Len(round) <= n => JudgeOK(BackupMenu, c, n)
<1>1. JudgeOK(NoMenu, c, n)
  BY DEF JudgeOK, Menu, NoMenu
<1>2. JudgeOK(MainMenu, c, n)
  BY DEF JudgeOK, Menu, MainMenu, JudgeItem
<1>3. ASSUME NEW kind \in {"give", "take", "win"}
      PROVE  JudgeOK(TeamMenu(kind), c, n)
  BY DEF JudgeOK, Menu, TeamMenu, GiveRoundMenu, TakeRoundMenu, GiveWinMenu, Team
<1>4. ASSUME Len(round) <= n
      PROVE  JudgeOK(BackupMenu, c, n)
  <2>1. 1..roundsCount \subseteq 1..n /\ 1..roundsCount \subseteq Nat \ {0}
    BY <1>4 DEF IInv, HistoryOK
  <2>2. QED
    BY <1>1, <2>1 DEF JudgeOK, Menu, BackupMenu
<1>5. QED
  BY <1>1, <1>2, <1>3, <1>4

LEMMA ChooseFacts ==
    ASSUME NEW a \in Index, NEW b \in Index, NEW ready \in SUBSET Slot, NEW n \in Nat,
           b = NoSlot \/ (a \in Slot /\ b \in Slot /\ a # b)
    PROVE  JudgeOK(ChooseMenu(<<a, b>>, ready), <<a, b>>, n)
<1>1. CASE b = NoSlot
  <2>1. a # "refused"
    BY SlotAssumption DEF Index
  <2>2. QED
    BY <1>1, <2>1 DEF JudgeOK, Menu, ChooseMenu
<1>2. CASE b # NoSlot
  BY <1>2 DEF JudgeOK, Menu, ChooseMenu
<1>3. QED
  BY <1>1, <1>2

LEMMA MenusStep ==
    ASSUME IInv, [Next]_vars
    PROVE  MenusOK'
<1> USE DEF IInv
<1>0. /\ round \in Seq(Score) /\ round' \in Seq(Score)
      /\ Len(round) <= Len(round') /\ Len(round') \in Nat
  BY HistoryStep DEF HistoryOK
<1>1. CASE UNCHANGED <<menu, judgeChoice>>
  BY <1>0, <1>1, MenuKept
<1>2. ASSUME NEW s \in Slot, Judge(s)
      PROVE  MenusOK'
  <2>0. /\ judgeChoice[s] \in Index \X Index
        /\ JudgeOK(menu[s], judgeChoice[s], Len(round))
        /\ \A ready \in SUBSET online : ready \in SUBSET Slot
    BY DEF MenusOK, EngineOK
  <2>1. CASE UNCHANGED judgeChoice /\ Show(s, NoMenu)
    BY <1>0, <2>0, <2>1, MenuShown, MenuFacts
  <2>2. CASE SurfDuel(s)
    BY <1>0, <2>0, <2>2, MenuShown, MenuFacts DEF SurfDuel, judgeVars
  <2>3. ASSUME NEW ready \in SUBSET online, OpenChoose(s, ready)
        PROVE  MenusOK'
    <3>1. JudgeOK(ChooseMenu(<<NoSlot, NoSlot>>, ready), <<NoSlot, NoSlot>>, Len(round'))
      BY <1>0, <2>0, ChooseFacts DEF Index
    <3>2. QED
      BY <1>0, <2>3, <3>1, MenuChosen DEF OpenChoose
  <2>4. ASSUME NEW victim \in Slot, NEW ready \in SUBSET online,
               Choose(s, victim, ready)
        PROVE  MenusOK'
    <3> DEFINE a == IF judgeChoice[s][1] = NoSlot THEN victim ELSE judgeChoice[s][1]
               b == IF judgeChoice[s][1] = NoSlot THEN judgeChoice[s][2] ELSE victim
    <3>1. /\ judgeChoice[s][2] = NoSlot /\ judgeChoice[s][1] # victim
      BY <2>0, <2>4 DEF Choose, Answers, JudgeOK
    <3>2. /\ a \in Index /\ b \in Index
          /\ b = NoSlot \/ (a \in Slot /\ b \in Slot /\ a # b)
      BY <2>0, <3>1 DEF Index
    <3>3. JudgeOK(ChooseMenu(<<a, b>>, ready), <<a, b>>, Len(round'))
      <4> HIDE DEF a, b
      <4>1. QED
        BY <1>0, <2>0, <3>2, ChooseFacts
    <3>4. /\ judgeChoice' = [judgeChoice EXCEPT ![s] = <<a, b>>]
          /\ Show(s, ChooseMenu(<<a, b>>, ready))
      BY <2>4 DEF Choose
    <3>5. QED
      <4> HIDE DEF a, b
      <4>1. QED
        BY <1>0, <3>3, <3>4, MenuChosen
  <2>5. ASSUME NEW ready \in SUBSET online, RefuseChoice(s, ready)
        PROVE  MenusOK'
    <3>1. PICK a \in Index, b \in Index : judgeChoice[s] = <<a, b>>
      BY <2>0
    <3>2. b = NoSlot
      BY <2>0, <2>5, <3>1 DEF RefuseChoice, Answers, JudgeOK
    <3>3. JudgeOK(ChooseMenu(judgeChoice[s], ready), judgeChoice[s], Len(round'))
      BY <1>0, <2>0, <3>1, <3>2, ChooseFacts
    <3>4. QED
      BY <1>0, <2>5, <3>3, MenuShown DEF RefuseChoice, judgeVars
  <2>6. ASSUME NEW kind \in {"give", "take", "win"}, OpenTeamMenu(s, kind)
        PROVE  MenusOK'
    BY <1>0, <2>0, <2>6, MenuShown, MenuFacts DEF OpenTeamMenu, judgeVars
  <2>7. CASE OpenBackup(s)
    BY <1>0, <2>0, <2>7, MenuShown, MenuFacts DEF OpenBackup, judgeVars
  <2>8. CASE Crash
    BY <1>1, <2>8 DEF Crash, judgeVars
  <2>9. CASE \/ StartDuel(s) \/ TogglePause(s) \/ Abort(s) \/ CloseMenu(s)
             \/ \E t \in Team : GiveRound(s, t) \/ TakeRound(s, t) \/ GiveWin(s, t)
             \/ \E i \in 1..Len(round) : BackupRound(s, i)
    BY <2>1, <2>8, <2>9 DEF StartDuel, StartRestarting, TogglePause, Abort, CloseMenu, GiveRound,
       TakeRound, KillCrashes, GiveWin, BackupRound, judgeVars
  <2>10. QED
    BY <1>2, <2>2, <2>3, <2>4, <2>5, <2>6, <2>7, <2>9 DEF Judge
<1>3. ASSUME NEW s \in Slot, Player(s)
      PROVE  MenusOK'
  <2>1. CASE PlayerResign(s) \/ \E p \in Person : ClientPutInServer(s, p)
    BY <1>1, <2>1 DEF PlayerResign, ClientPutInServer, judgeVars
  <2>2. CASE ClientDisconnect(s)
    <3>1. \/ UNCHANGED menu
          \/ isNowDuel /\ Show(judgeId, MainMenu)
      BY <2>2 DEF ClientDisconnect, DuelPause, Show
    <3>2. UNCHANGED judgeChoice
      BY <2>2 DEF ClientDisconnect, judgeVars
    <3>3. isNowDuel => judgeId \in Slot
      BY DEF DuelOK, Index
    <3>4. judgeId \in Slot => JudgeOK(MainMenu, judgeChoice[judgeId], Len(round'))
      BY <1>0, MenuFacts DEF MenusOK
    <3>5. QED
      BY <1>0, <1>1, <3>1, <3>2, <3>3, <3>4, MenuShown
  <2>3. QED
    BY <1>3, <2>1, <2>2 DEF Player
<1>4. CASE \/ \E event \in RoundEvent : RoundEnd(event)
           \/ RestartRound \/ DuelUnpause \/ MapChange
  BY <1>1, <1>4 DEF RoundEnd, RestartRound, DuelUnpause, MapChange, judgeVars
<1>5. CASE UNCHANGED vars
  BY <1>1, <1>5 DEF vars, judgeVars
<1>6. QED
  BY <1>2, <1>3, <1>4, <1>5 DEF Next, Server

-----------------------------------------------------------------------------
(* The end of the server.                                                  *)

LEMMA CrashStep ==
    ASSUME IInv, [Next]_vars
    PROVE  CrashMeansStale'
<1> USE DEF IInv
<1>1. CASE UNCHANGED vars
  BY <1>1 DEF vars, duelVars, judgeVars, engineVars, CrashMeansStale, HasEntity
<1>2. CASE running'
  BY <1>2 DEF CrashMeansStale
<1>3. ASSUME NEW s \in online, NEW t \in Team, KillCrashes(s, t),
             menu[s].kind \in {"give", "take"}
      PROVE  CrashMeansStale'
  <2>1. UNCHANGED <<online, state, isNowDuel, player, menu>>
    BY <1>3 DEF KillCrashes, Crash, duelVars, engineVars
  <2>2. \/ player[t].base \in {"replaced", "oldMap"}
        \/ ~isNowDuel /\ state # "PREPARING"
    BY <1>3 DEF KillCrashes, DuelOK, Base
  <2>3. QED
    BY <1>3, <2>1, <2>2 DEF CrashMeansStale
<1>4. ASSUME NEW s \in Slot, StartDuel(s), ~running'
      PROVE  CrashMeansStale'
  <2> DEFINE c(t) == judgeChoice[s][IF t = "CT" THEN 1 ELSE 2]
  <2>1. \/ Crash /\ \E t \in Team : ~HasEntity(c(t))
        \/ UNCHANGED running
    BY <1>4 DEF StartDuel, StartRestarting
  <2>2. running /\ s \in online /\ menu[s].kind = "start"
    BY <1>4 DEF StartDuel, StartRestarting, Answers
  <2>9. ~UNCHANGED running
    BY <1>4, <2>2, Zenon
  <2>3. Crash /\ \E i \in 1..2 : ~HasEntity(judgeChoice[s][i])
    <3>1. PICK t \in Team : ~HasEntity(c(t))
      BY <2>1, <2>9
    <3>2. \E i \in 1..2 : c(t) = judgeChoice[s][i]
      OBVIOUS
    <3>3. QED
      BY <2>1, <2>9, <3>1, <3>2
  <2>4. UNCHANGED <<online, menu, judgeChoice, client>>
    BY <2>3 DEF Crash, judgeVars, engineVars
  <2>5. QED
    BY <2>2, <2>3, <2>4 DEF CrashMeansStale, HasEntity
<1>5. ASSUME NEW s \in Slot, Judge(s)
      PROVE  CrashMeansStale'
  <2>1. CASE StartDuel(s)
    BY <1>2, <1>4, <2>1
  <2>2. ASSUME NEW t \in Team, GiveRound(s, t) \/ TakeRound(s, t)
        PROVE  CrashMeansStale'
    <3>1. Other(t) \in Team
      BY DEF Team, Other
    <3>2. running /\ s \in online /\ menu[s].kind \in {"give", "take"}
      BY <2>2 DEF GiveRound, TakeRound, Answers
    <3>3. QED
      BY <1>2, <1>3, <2>2, <3>1, <3>2 DEF GiveRound, TakeRound
  <2>3. CASE \/ SurfDuel(s) \/ OpenBackup(s) \/ CloseMenu(s) \/ TogglePause(s) \/ Abort(s)
             \/ \E ready \in SUBSET online :
                   \/ OpenChoose(s, ready) \/ RefuseChoice(s, ready)
                   \/ \E victim \in Slot : Choose(s, victim, ready)
             \/ \E kind \in {"give", "take", "win"} : OpenTeamMenu(s, kind)
             \/ \E t \in Team : GiveWin(s, t)
             \/ \E i \in 1..Len(round) : BackupRound(s, i)
    <3>1. running /\ UNCHANGED running
      BY <2>3 DEF SurfDuel, OpenBackup, CloseMenu, TogglePause, Abort, OpenChoose,
         Choose, RefuseChoice, OpenTeamMenu, GiveWin, BackupRound, Answers
    <3>2. QED
      BY <1>2, <3>1, Zenon
  <2>4. QED
    BY <1>5, <2>1, <2>2, <2>3 DEF Judge
<1>6. ASSUME NEW s \in Slot, Player(s)
      PROVE  CrashMeansStale'
  BY <1>2, <1>6 DEF Player, PlayerResign, ClientDisconnect, ClientPutInServer
<1>7. CASE Server
  BY <1>2, <1>7 DEF Server, RoundEnd, RestartRound, DuelUnpause, MapChange
<1>8. QED
  BY <1>1, <1>5, <1>6, <1>7 DEF Next

-----------------------------------------------------------------------------
(* The theorems.                                                           *)

LEMMA InitHolds == Init => IInv
<1> SUFFICES ASSUME Init PROVE IInv
  OBVIOUS
<1> USE DEF Init
<1>1. EngineOK
  BY DEF EngineOK, Auth, Restart
<1>2. DuelOK
  <2>1. player \in [Team -> [base : Base, id : Index, auth : Auth]]
    BY DEF Nobody, Base, Index, Auth
  <2>2. restartTimes \in -1..3 /\ judgeId \in Index
    BY DEF Index
  <2>3. QED
    BY <2>1, <2>2 DEF DuelOK, DuelState, PreparingHasRestart
<1>3. HistoryOK
  BY ScoreFacts DEF HistoryOK, NoUnclaimedWin
<1>4. MenusOK
  BY DEF MenusOK, JudgeOK, Menu, NoMenu, Index
<1>5. CrashMeansStale
  BY DEF CrashMeansStale
<1>6. QED
  BY <1>1, <1>2, <1>3, <1>4, <1>5 DEF IInv

LEMMA StepHolds == IInv /\ [Next]_vars => IInv'
BY EngineStep, DuelStep, HistoryStep, MenusStep, CrashStep DEF IInv

\* The strengthening is an invariant.
THEOREM Invariance == Safety => []IInv
BY InitHolds, StepHolds, PTL DEF Safety

\* Every variable keeps its type.
THEOREM TypeCorrect == Safety => []TypeOK
<1>1. IInv => TypeOK
  BY DEF IInv, EngineOK, DuelOK, HistoryOK, MenusOK, JudgeOK, TypeOK
<1>2. QED
  BY <1>1, Invariance, PTL

\* No judge's intervention leaves a duel on whose scores decide it.
THEOREM WinsAreClaimed == Safety => []NoUnclaimedWin
<1>1. IInv => NoUnclaimedWin
  BY DEF IInv, HistoryOK
<1>2. QED
  BY <1>1, Invariance, PTL

\* Every menu that restores a round, however old, indexes initialised storage.
THEOREM HistoryIsReadable == Safety => []HistoryReadable
<1>1. IInv => HistoryReadable
  BY DEF IInv, HistoryOK, MenusOK, JudgeOK, HistoryReadable
<1>2. QED
  BY <1>1, Invariance, PTL

\* A preparation on this map always has its next restart under way.
THEOREM PreparationIsNeverStuck == Safety => []PreparingHasRestart
<1>1. IInv => PreparingHasRestart
  BY DEF IInv, DuelOK
<1>2. QED
  BY <1>1, Invariance, PTL

\* A duel prepared or on has its two duelists and its judge.
THEOREM DuelistsAreKnown == Safety => []DuelistsKnown
<1>1. IInv => DuelistsKnown
  BY SlotAssumption DEF IInv, DuelOK, MenusOK, JudgeOK, DuelistsKnown
<1>2. QED
  BY <1>1, Invariance, PTL

\* Only a judge brings the server down, and only through a menu that outlived
\* its duel, a duelist whose slot was taken again or whose map is over, or a
\* player chosen on an earlier map.
THEOREM CrashesAreStale == Safety => []CrashMeansStale
<1>1. IInv => CrashMeansStale
  BY DEF IInv
<1>2. QED
  BY <1>1, Invariance, PTL

=============================================================================
