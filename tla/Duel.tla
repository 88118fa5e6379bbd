-------------------------------- MODULE Duel --------------------------------
(***************************************************************************)
(* The duel controller of Surf Mod: the object g_SurfModDuel (CDuel), the  *)
(* judge's menus that drive it, and every engine and game hook that calls  *)
(* it.  One action per hook or menu handler; a handler runs to completion  *)
(* on the server's only thread, so an action is atomic, and what           *)
(* interleaves are the handlers: menus answered long after they were       *)
(* built, rounds ending, players leaving and returning, the delayed        *)
(* unpause, map changes.                                                   *)
(*                                                                         *)
(* The engine and the game (ReHLDS, ReGameDLL) are the environment: slots  *)
(* and who sits in them, the pending round restart, and when a round ends. *)
(***************************************************************************)
EXTENDS Integers, Sequences, FiniteSets

CONSTANTS
    Slot,         \* client slots (entity indices 1..maxClients)
    NoSlot,       \* entity index 0: no player chosen
    Person,       \* players, each identified by its auth id
    NoPerson,     \* the empty auth id
    Admin,        \* the players whose flags contain ACCES_ADMIN::MENU
    ScoreToWin,   \* SCORE_TO_WIN (10 in the code)
    MaxHistory,   \* bound: rounds recorded in one duel
    MaxOut,       \* bound: disconnections counted by m_iDuelists_out
    MaxJoins,     \* bound: calls of ClientPutInServer
    MaxMaps       \* bound: map changes

ASSUME SlotAssumption == NoSlot \notin Slot /\ "refused" \notin Slot \cup {NoSlot}
ASSUME PersonAssumption == NoPerson \notin Person /\ Admin \subseteq Person
ASSUME BoundAssumption ==
    /\ ScoreToWin \in Nat \ {0} /\ MaxHistory \in Nat
    /\ MaxOut \in Nat /\ MaxJoins \in Nat /\ MaxMaps \in Nat

VARIABLES
    \* the engine and the game
    client,         \* per slot, the last player put in it on this map
    online,         \* the slots whose player is in the game now
    restart,        \* the game's restart timer: why RestartRound is due
    running,        \* FALSE once a null pointer was dereferenced
    \* CDuel
    state, isNowDuel, player, score,
    round,          \* storage of the vector m_pDuel_info.round
    roundSize,      \* its size(): clear() and push_back() keep the storage
    roundsCount, judgeChoice, judgeId, restartTimes, duelistsOut,
    \* the delayed unpause (TASK_DUEL_UNPAUSE) and the judges' menus
    unpauseTask, menu,
    \* counters of the bounds
    joins, maps

engineVars == <<client, online, joins, maps>>
duelVars   == <<state, isNowDuel, player, score, round, roundSize, roundsCount>>
judgeVars  == <<judgeChoice, judgeId>>
countVars  == <<restartTimes, duelistsOut>>
vars == <<engineVars, restart, running, duelVars, judgeVars, countVars,
          unpauseTask, menu>>

-----------------------------------------------------------------------------
(* Data.                                                                   *)

\* enum Team, without WINNER: that entry never outlives the handler.
Team == {"CT", "TER"}
Other(t) == IF t = "CT" THEN "TER" ELSE "CT"

\* enum DUEL_STATE: UNPAUSE and WINING are left by the call that enters them.
DuelState == {"NOTHING", "PREPARING", "PAUSE", "GOING"}

\* What a duelist's CBasePlayer* points to: nothing, the player in his slot,
\* or one freed because the slot was taken again or the map is over.
Base == {"null", "current", "replaced", "oldMap"}

\* duel_player_t as std::map::operator[] creates it.  An absent entry and a
\* fresh one are the same to every handler.
Nobody == [base |-> "null", id |-> NoSlot, auth |-> NoPerson]

\* Mutant: the pointer looked up is not stored.
NoBaseInitPlayer(s, p) == [base |-> "null", id |-> s, auth |-> p]

\* duel_player_t::init for player p in slot s, apart from the score
InitPlayer(s, p) == [base |-> "current", id |-> s, auth |-> p]

Score    == [Team -> Int]
NilScore == [t \in Team |-> 0]

\* A duelist after a player was put in slot s: the engine gives the slot a new
\* CBasePlayer and frees the one before.
SlotTaken(d, s) ==
    [d EXCEPT !.base = IF d.base = "current" /\ d.id = s THEN "replaced" ELSE @]

\* A duelist after a map change: the CBasePlayer he was is freed.
Outdated(d) ==
    [d EXCEPT !.base = IF d.base = "null" THEN "null" ELSE "oldMap"]

\* A map change has left the slot without a CBasePlayer.
HasEntity(s) == client[s] # NoPerson

\* The rule of ReGameDLL_RoundEnd, for the scores as they stand.
Wins(sc, t) == sc[t] >= ScoreToWin /\ sc[t] - sc[Other(t)] >= 2
Decided(sc) == \E t \in Team : Wins(sc, t)

\* A menu: the handler it was created with and the items that do something.
MenuKind == {"none", "main", "choose", "start", "give", "take", "backup", "win"}
JudgeItem == {"choose", "give", "take", "backup", "win", "pause", "abort"}
NoMenu == [kind |-> "none", items |-> {}]

-----------------------------------------------------------------------------
(* Pieces shared by the handlers.                                          *)

\* The restart timer is idle, was set by sv_restart, or the round is over and
\* the game starts the next one by itself (a round ends once).
Restart == {"none", "requested", "roundOver"}

\* ServerCommand("sv_restart %d"): the timer is set anew.
RequestRestart == restart' = IF restart = "roundOver" THEN restart ELSE "requested"

\* A read through a null or freed pointer: the process is gone.
Crash ==
    /\ running' = FALSE
    /\ UNCHANGED <<engineVars, restart, duelVars, judgeVars, countVars,
                   unpauseTask, menu>>

\* Mutant: the number of rounds outlives the duel.
KeepCountStateNothing ==
    /\ state' = "NOTHING"
    /\ isNowDuel' = FALSE
    /\ player' = [t \in Team |-> Nobody]
    /\ score' = NilScore
    /\ roundSize' = 0
    /\ UNCHANGED <<round, roundsCount>>

\* State(DUEL_STATE::NOTHING)
StateNothing ==
    /\ state' = "NOTHING"
    /\ isNowDuel' = FALSE
    /\ player' = [t \in Team |-> Nobody]
    /\ score' = NilScore
    /\ roundSize' = 0
    /\ roundsCount' = 0
    /\ UNCHANGED round

\* UpdateGameInfo(isAddRound) for the scores sc
UpdateGameInfo(sc, isAddRound) ==
    /\ round' = IF roundSize < Len(round)
                THEN [round EXCEPT ![roundSize + 1] = sc]
                ELSE Append(round, sc)
    /\ roundSize' = roundSize + 1
    /\ roundsCount' = IF isAddRound THEN roundsCount + 1 ELSE roundsCount

\* Mutants: the state is not set to GOING, or not set at all.
HalfStateUnpause == state' = "UNPAUSE" /\ RequestRestart
StuckStateUnpause == UNCHANGED state /\ RequestRestart

\* State(DUEL_STATE::UNPAUSE), entered from DuelUnpause
StateUnpause ==
    /\ state' = "GOING"
    /\ RequestRestart

\* State(DUEL_STATE::GOING)
StateGoing ==
    /\ state' = "GOING"
    /\ score' = NilScore
    /\ isNowDuel' = TRUE
    /\ UpdateGameInfo(NilScore, TRUE)
    /\ UNCHANGED player

\* State(DUEL_STATE::WINING) announces the winner and ends the duel; the
\* entry player[WINNER] that DuelWon sets is cleared with the others.
StateWining == StateNothing
DuelWon == StateWining

\* How a round ends: a team wins it, or any other event.
RoundEvent == Team \cup {"draw"}

\* Mutant: rounds are counted during a pause.
PauseCounted(event) == isNowDuel /\ event \in Team

\* ReGameDLL_RoundEnd counts a round while a duel is on and not paused.
Counted(event) == isNowDuel /\ state # "PAUSE" /\ event \in Team

\* The scores sc after a round won by event
Raise(sc, event) == [t \in Team |-> IF t = event THEN sc[t] + 1 ELSE sc[t]]

\* Mutant: the scores before the round are recorded.
LateRecordRound(new) ==
    /\ score' = new
    /\ IF new["CT"] + new["TER"] # 0
       THEN roundSize < MaxHistory /\ UpdateGameInfo(score, TRUE)
       ELSE UNCHANGED <<round, roundSize, roundsCount>>

\* A counted round that does not decide the duel: new are the scores after it.
RecordRound(new) ==
    /\ score' = new
    /\ IF new["CT"] + new["TER"] # 0
       THEN roundSize < MaxHistory /\ UpdateGameInfo(new, TRUE)
       ELSE UNCHANGED <<round, roundSize, roundsCount>>

\* Mutant: only the counter-terrorists' win is looked for.
OneSidedRoundEndHook(event, sc) ==
    \/ /\ ~Counted(event)
       /\ score' = sc
       /\ UNCHANGED <<state, isNowDuel, player, round, roundSize, roundsCount>>
    \/ /\ Counted(event)
       /\ Wins(Raise(sc, event), "CT")
       /\ DuelWon
    \/ /\ Counted(event)
       /\ ~Wins(Raise(sc, event), "CT")
       /\ RecordRound(Raise(sc, event))
       /\ UNCHANGED <<state, isNowDuel, player>>

\* ReGameDLL_RoundEnd, with the scores sc at the call
RoundEndHook(event, sc) ==
    \/ /\ ~Counted(event)
       /\ score' = sc
       /\ UNCHANGED <<state, isNowDuel, player, round, roundSize, roundsCount>>
    \/ /\ Counted(event)
       /\ Decided(Raise(sc, event))
       /\ DuelWon
    \/ /\ Counted(event)
       /\ ~Decided(Raise(sc, event))
       /\ RecordRound(Raise(sc, event))
       /\ UNCHANGED <<state, isNowDuel, player>>

\* MDLL_ClientKill on a duelist, the scores being sc.  The kill may end the
\* round, for either team as the duelists may have changed sides while the
\* duel was prepared, and the game then calls the hook before it returns.
KillDuelist(sc) ==
    \/ /\ restart # "roundOver"
       /\ \E event \in RoundEvent : RoundEndHook(event, sc)
       /\ restart' = "roundOver"
    \/ /\ score' = sc
       /\ UNCHANGED <<state, isNowDuel, player, round, roundSize, roundsCount,
                      restart>>

-----------------------------------------------------------------------------
(* Menus.                                                                  *)

HasMenuFlag(s) == client[s] \in Admin

\* JudgeMenuMain builds this menu; items drawn without effect are left out.
MainMenu ==
    [kind  |-> "main",
     items |-> (IF isNowDuel \/ state = "PREPARING" THEN {} ELSE {"choose"})
               \cup (IF isNowDuel THEN JudgeItem \ {"choose"} ELSE {})]

\* Mutant: the player already chosen may be chosen again.
TwiceChooseMenu(choice, ready) ==
    IF choice[2] # NoSlot
    THEN [kind |-> "start", items |-> {"start"}]
    ELSE [kind |-> "choose", items |-> ready]

\* JudgeChoosePlayerMenu for the choices made so far; ready are the players
\* on the server whose m_iTeam is not UNASSIGNED.  The others, and the one
\* already chosen, are listed as items that are refused.
ChooseMenu(choice, ready) ==
    IF choice[2] # NoSlot
    THEN [kind |-> "start", items |-> {"start"}]
    ELSE [kind  |-> "choose",
          items |-> (ready \ {choice[1]})
                    \cup (IF online \subseteq ready /\ choice[1] \notin online
                          THEN {} ELSE {"refused"})]

BackupMenu ==
    IF roundsCount = 0 THEN NoMenu
                       ELSE [kind |-> "backup", items |-> 1..roundsCount]

GiveRoundMenu == [kind |-> "give", items |-> Team]
TakeRoundMenu == [kind |-> "take", items |-> {t \in Team : score[t] > 0}]
GiveWinMenu   == [kind |-> "win", items |-> Team]

TeamMenu(kind) ==
    CASE kind = "give" -> GiveRoundMenu
      [] kind = "take" -> TakeRoundMenu
      [] kind = "win"  -> GiveWinMenu

Show(s, m) == menu' = [menu EXCEPT ![s] = m]

\* CMenu::Handle: the player at s picks item; the menu is closed first.
Answers(s, kind, item) ==
    /\ running
    /\ s \in online
    /\ menu[s].kind = kind
    /\ item \in menu[s].items

-----------------------------------------------------------------------------
Init ==
    /\ client = [s \in Slot |-> NoPerson]
    /\ online = {}
    /\ restart = "none"
    /\ running = TRUE
    /\ state = "NOTHING"
    /\ isNowDuel = FALSE
    /\ player = [t \in Team |-> Nobody]
    /\ score = NilScore
    /\ round = << >>
    /\ roundSize = 0
    /\ roundsCount = 0
    /\ judgeChoice = [s \in Slot |-> <<NoSlot, NoSlot>>]
    /\ judgeId = NoSlot
    /\ restartTimes = 0
    /\ duelistsOut = 0
    /\ unpauseTask = FALSE
    /\ menu = [s \in Slot |-> NoMenu]
    /\ joins = 0
    /\ maps = 0

-----------------------------------------------------------------------------
(* The judge's commands and menus.                                         *)

\* The command surfduel: JudgeMenuMain
SurfDuel(s) ==
    /\ running
    /\ s \in online
    /\ HasMenuFlag(s)
    /\ Show(s, MainMenu)
    /\ UNCHANGED <<engineVars, restart, running, duelVars, judgeVars, countVars,
                   unpauseTask>>

\* JudgeMenuMain_Handle, case 0
OpenChoose(s, ready) ==
    /\ Answers(s, "main", "choose")
    /\ judgeChoice' = [judgeChoice EXCEPT ![s] = <<NoSlot, NoSlot>>]
    /\ Show(s, ChooseMenu(<<NoSlot, NoSlot>>, ready))
    /\ UNCHANGED <<engineVars, restart, running, duelVars, judgeId, countVars,
                   unpauseTask>>

\* JudgeChoosePlayerMenu_Handle for a player that may be chosen
Choose(s, victim, ready) ==
    LET choice == IF judgeChoice[s][1] = NoSlot
                  THEN <<victim, judgeChoice[s][2]>>
                  ELSE <<judgeChoice[s][1], victim>>
    IN  /\ Answers(s, "choose", victim)
        /\ judgeChoice' = [judgeChoice EXCEPT ![s] = choice]
        /\ Show(s, ChooseMenu(choice, ready))
        /\ UNCHANGED <<engineVars, restart, running, duelVars, judgeId, countVars,
                       unpauseTask>>

\* JudgeChoosePlayerMenu_Handle for the items -1 and -2: the list is rebuilt.
RefuseChoice(s, ready) ==
    /\ Answers(s, "choose", "refused")
    /\ Show(s, ChooseMenu(judgeChoice[s], ready))
    /\ UNCHANGED <<engineVars, restart, running, duelVars, judgeVars, countVars,
                   unpauseTask>>

\* StartDuel moves everyone to the spectators and the duelists to their
\* teams, which may end the round in progress; a start in the middle of a
\* duel counts it, from the scores init has just reset.
JoinTeams ==
    \/ /\ score' = NilScore
       /\ RequestRestart
       /\ UNCHANGED <<round, roundSize, roundsCount>>
    \/ \E event \in Team :
          /\ restart # "roundOver"
          /\ Counted(event)
          /\ RecordRound(Raise(NilScore, event))
          /\ restart' = "roundOver"

\* StartRestarting, its request of a restart apart (JoinTeams makes it).
StartRestarting == restartTimes' = 3

\* JudgeChoosePlayerMenu_Handle with both players chosen: init, StartDuel,
\* State(PREPARING) and StartRestarting
StartDuel(s) ==
    LET chosen == [t \in Team |-> judgeChoice[s][IF t = "CT" THEN 1 ELSE 2]]
    IN  /\ Answers(s, "start", "start")
        /\ roundSize <= MaxHistory
        /\ \/ /\ \E t \in Team : ~HasEntity(chosen[t])
              /\ Crash
           \/ /\ \A t \in Team : HasEntity(chosen[t])
              /\ judgeId' = s
              /\ player' = [t \in Team |-> InitPlayer(chosen[t], client[chosen[t]])]
              /\ JoinTeams
              /\ state' = "PREPARING"
              /\ StartRestarting
              /\ Show(s, NoMenu)
              /\ UNCHANGED <<engineVars, running, isNowDuel, judgeChoice,
                             duelistsOut, unpauseTask>>

\* JudgeMenuMain_Handle, cases 1, 2 and 4: GiveRoundMenu, TakeRoundMenu and
\* GiveWinMenu
OpenTeamMenu(s, kind) ==
    /\ Answers(s, "main", kind)
    /\ Show(s, TeamMenu(kind))
    /\ UNCHANGED <<engineVars, restart, running, duelVars, judgeVars, countVars,
                   unpauseTask>>

\* JudgeMenuMain_Handle, case 3: BackupRoundMenu
OpenBackup(s) ==
    /\ Answers(s, "main", "backup")
    /\ Show(s, BackupMenu)
    /\ UNCHANGED <<engineVars, restart, running, duelVars, judgeVars, countVars,
                   unpauseTask>>

\* The duelist's CBasePlayer is used when it was freed, or never set.
KillCrashes(s, t) ==
    /\ player[t].base # "current"
    /\ Crash

\* GiveRoundMenu_Handle: the loser is killed.
GiveRound(s, winner) ==
    /\ Answers(s, "give", winner)
    /\ \/ KillCrashes(s, Other(winner))
       \/ /\ player[Other(winner)].base # "null"
          /\ KillDuelist(score)
          /\ Show(s, NoMenu)
          /\ UNCHANGED <<engineVars, running, judgeVars, countVars, unpauseTask>>

\* TakeRoundMenu_Handle: both scores go down, then the loser is killed.
TakeRound(s, loser) ==
    /\ Answers(s, "take", loser)
    /\ \/ KillCrashes(s, loser)
       \/ /\ player[loser].base # "null"
          /\ KillDuelist([t \in Team |-> score[t] - 1])
          /\ Show(s, NoMenu)
          /\ UNCHANGED <<engineVars, running, judgeVars, countVars, unpauseTask>>

\* BackupRoundMenu_Handle
BackupRound(s, i) ==
    /\ Answers(s, "backup", i)
    /\ roundSize < MaxHistory
    /\ score' = round[i]
    /\ StateUnpause
    /\ UpdateGameInfo(round[i], FALSE)
    /\ Show(s, NoMenu)
    /\ UNCHANGED <<engineVars, running, isNowDuel, player, judgeVars, countVars,
                   unpauseTask>>

\* GiveWinMenu_Handle
GiveWin(s, winner) ==
    /\ Answers(s, "win", winner)
    /\ DuelWon
    /\ Show(s, NoMenu)
    /\ UNCHANGED <<engineVars, restart, running, judgeVars, countVars, unpauseTask>>

\* JudgeMenuMain_Handle, case 5: DuelPause(judge) or DuelUnpause, by the
\* state when the item is picked
TogglePause(s) ==
    /\ Answers(s, "main", "pause")
    /\ IF state = "GOING" THEN state' = "PAUSE" /\ UNCHANGED restart
                          ELSE StateUnpause
    /\ Show(s, NoMenu)
    /\ UNCHANGED <<engineVars, running, isNowDuel, player, score, round, roundSize,
                   roundsCount, judgeVars, countVars, unpauseTask>>

\* AbortDuel, which removes a task that is never created
AbortDuel == RequestRestart /\ StateNothing

\* JudgeMenuMain_Handle, case 6
Abort(s) ==
    /\ Answers(s, "main", "abort")
    /\ AbortDuel
    /\ Show(s, NoMenu)
    /\ UNCHANGED <<engineVars, running, judgeVars, countVars, unpauseTask>>

\* The menu is left by Exit, by an item that only prints, or because the game
\* shows one of its own menus.
CloseMenu(s) ==
    /\ running
    /\ s \in online
    /\ menu[s] # NoMenu
    /\ Show(s, NoMenu)
    /\ UNCHANGED <<engineVars, restart, running, duelVars, judgeVars, countVars,
                   unpauseTask>>

\* The condition under which PlayerResign does not return at once
ResignAccepted(s) == isNowDuel /\ \A t \in Team : player[t].id = s

\* The command resignduel
PlayerResign(s) ==
    /\ running
    /\ s \in online
    /\ ResignAccepted(s)
    /\ DuelWon
    /\ UNCHANGED <<engineVars, restart, running, judgeVars, countVars, unpauseTask,
                   menu>>

-----------------------------------------------------------------------------
(* The game's rounds.                                                      *)

\* The hook on CHalfLifeMultiplay::RoundEnd
RoundEnd(event) ==
    /\ running
    /\ restart # "roundOver"
    /\ restart' = "roundOver"
    /\ RoundEndHook(event, score)
    /\ UNCHANGED <<engineVars, running, judgeVars, countVars, unpauseTask, menu>>

\* Mutant: the last restart is not requested.
ShortRoundRestart ==
    /\ state = "PREPARING"
    /\ restartTimes' = restartTimes - 1
    /\ \/ /\ restartTimes - 1 >= 0
          /\ restart' = IF restartTimes - 1 > 0 THEN "requested" ELSE "none"
          /\ UNCHANGED duelVars
       \/ /\ restartTimes - 1 = -1
          /\ restart' = "none"
          /\ StateGoing

\* Mutant: the duel starts one restart early.
EarlyRoundRestart ==
    /\ state = "PREPARING"
    /\ restartTimes' = restartTimes - 1
    /\ \/ /\ restartTimes - 1 > 0
          /\ restart' = "requested"
          /\ UNCHANGED duelVars
       \/ /\ restartTimes - 1 = 0
          /\ restart' = "none"
          /\ StateGoing

\* RoundRestart and State(GOING)
RoundRestart ==
    /\ state = "PREPARING"
    /\ restartTimes' = restartTimes - 1
    /\ \/ /\ restartTimes - 1 >= 0
          /\ restart' = "requested"
          /\ UNCHANGED duelVars
       \/ /\ restartTimes - 1 = -1
          /\ restart' = "none"
          /\ StateGoing

\* The hook on CHalfLifeMultiplay::RestartRound
RestartRound ==
    /\ running
    /\ restart # "none"
    /\ \/ RoundRestart
       \/ /\ state # "PREPARING"
          /\ restart' = "none"
          /\ UNCHANGED <<duelVars, restartTimes>>
    /\ UNCHANGED <<engineVars, running, judgeVars, duelistsOut, unpauseTask, menu>>

-----------------------------------------------------------------------------
(* Players leaving and returning, the delayed unpause, map changes.        *)

\* DuelPause(duel_player_t*) after the out-th disconnection
DuelPause(out) ==
    \/ /\ out = 2
       /\ AbortDuel
       /\ UNCHANGED menu
    \/ /\ out # 2
       /\ state' = "PAUSE"
       /\ menu' = IF out = 1 /\ HasMenuFlag(judgeId)
                  THEN [menu EXCEPT ![judgeId] = MainMenu] ELSE menu
       /\ UNCHANGED <<restart, isNowDuel, player, score, round, roundSize, roundsCount>>

\* CDuel::ClientDisconnect, before the game drops the player
ClientDisconnect(s) ==
    /\ running
    /\ s \in online
    /\ online' = online \ {s}
    /\ \/ /\ isNowDuel
          /\ \E t \in Team : player[t].auth = client[s]
          /\ duelistsOut < MaxOut
          /\ duelistsOut' = duelistsOut + 1
          /\ DuelPause(duelistsOut + 1)
       \/ /\ ~(isNowDuel /\ \E t \in Team : player[t].auth = client[s])
          /\ UNCHANGED <<restart, duelVars, duelistsOut, menu>>
    /\ UNCHANGED <<client, joins, maps, running, judgeVars, restartTimes, unpauseTask>>

\* Mutant: the score that init resets is not put back.
ZeroDuelistComeback(s, p, t) ==
    /\ player' = [player EXCEPT ![t] = InitPlayer(s, p), ![Other(t)] = SlotTaken(@, s)]
    /\ score' = [score EXCEPT ![t] = 0]
    /\ unpauseTask' = TRUE

\* DuelistComeback for the player p now in slot s: init, the score kept.  The
\* other duelist may have been the one in this slot before.
DuelistComeback(s, p, t) ==
    /\ player' = [player EXCEPT ![t] = InitPlayer(s, p), ![Other(t)] = SlotTaken(@, s)]
    /\ UNCHANGED score
    /\ unpauseTask' = TRUE

\* ClientConnect and then ClientPutInServer.  A duelist's entry keeps the
\* pointer to the CBasePlayer that its slot had before, unless he comes back.
ClientPutInServer(s, p) ==
    /\ running
    /\ joins < MaxJoins
    /\ joins' = joins + 1
    /\ s \notin online
    /\ \A other \in online : client[other] # p
    /\ online' = online \cup {s}
    /\ client' = [client EXCEPT ![s] = p]
    /\ \/ /\ state = "PAUSE"
          /\ player["CT"].auth = p
          /\ DuelistComeback(s, p, "CT")
       \/ /\ state = "PAUSE"
          /\ player["CT"].auth # p
          /\ player["TER"].auth = p
          /\ DuelistComeback(s, p, "TER")
       \/ /\ ~(state = "PAUSE" /\ \E t \in Team : player[t].auth = p)
          /\ player' = [t \in Team |-> SlotTaken(player[t], s)]
          /\ UNCHANGED <<score, unpauseTask>>
    /\ UNCHANGED <<maps, restart, running, state, isNowDuel, round, roundSize,
                   roundsCount, judgeVars, countVars, menu>>

\* StartFrame runs the task TASK_DUEL_UNPAUSE once its time has come.
DuelUnpause ==
    /\ running
    /\ unpauseTask
    /\ unpauseTask' = FALSE
    /\ StateUnpause
    /\ UNCHANGED <<engineVars, running, isNowDuel, player, score, round, roundSize,
                   roundsCount, judgeVars, countVars, menu>>

\* ServerDeactivate and ServerActivate: the users and the tasks are cleared,
\* CDuel and the menus are not.
MapChange ==
    /\ running
    /\ maps < MaxMaps
    /\ maps' = maps + 1
    /\ client' = [s \in Slot |-> NoPerson]
    /\ online' = {}
    /\ restart' = "none"
    /\ unpauseTask' = FALSE
    /\ player' = [t \in Team |-> Outdated(player[t])]
    /\ UNCHANGED <<joins, running, state, isNowDuel, score, round, roundSize,
                   roundsCount, judgeVars, countVars, menu>>

-----------------------------------------------------------------------------
Judge(s) ==
    \/ SurfDuel(s)
    \/ \E ready \in SUBSET online : OpenChoose(s, ready)
    \/ \E victim \in Slot, ready \in SUBSET online : Choose(s, victim, ready)
    \/ \E ready \in SUBSET online : RefuseChoice(s, ready)
    \/ StartDuel(s)
    \/ \E kind \in {"give", "take", "win"} : OpenTeamMenu(s, kind)
    \/ OpenBackup(s)
    \/ \E t \in Team : GiveRound(s, t)
    \/ \E t \in Team : TakeRound(s, t)
    \/ \E i \in 1..Len(round) : BackupRound(s, i)
    \/ \E t \in Team : GiveWin(s, t)
    \/ TogglePause(s)
    \/ Abort(s)
    \/ CloseMenu(s)

Player(s) ==
    \/ PlayerResign(s)
    \/ ClientDisconnect(s)
    \/ \E p \in Person : ClientPutInServer(s, p)

Server ==
    \/ \E event \in RoundEvent : RoundEnd(event)
    \/ RestartRound
    \/ DuelUnpause
    \/ MapChange

Next ==
    \/ \E s \in Slot : Judge(s) \/ Player(s)
    \/ Server

\* The engine calls StartFrame every frame, and the game's restart timer runs
\* out.  Nothing is assumed of the players and the judges.
Fairness == WF_vars(RestartRound) /\ WF_vars(DuelUnpause)

Safety == Init /\ [][Next]_vars
Spec == Safety /\ Fairness

-----------------------------------------------------------------------------
(* Properties.                                                             *)

Index == {NoSlot} \cup Slot
Auth  == {NoPerson} \cup Person
Menu(m) ==
    \/ m = NoMenu
    \/ m.kind = "main" /\ m.items \subseteq JudgeItem
    \/ m.kind = "choose" /\ m.items \subseteq Slot \cup {"refused"}
    \/ m.kind = "start" /\ m.items = {"start"}
    \/ m.kind \in {"give", "take", "win"} /\ m.items \subseteq Team
    \/ m.kind = "backup" /\ m.items \subseteq Nat \ {0}

\* Every variable has its type.
TypeOK ==
    /\ client \in [Slot -> Auth]
    /\ online \subseteq Slot
    /\ restart \in Restart
    /\ running \in BOOLEAN
    /\ state \in DuelState
    /\ isNowDuel \in BOOLEAN
    /\ player \in [Team -> [base : Base, id : Index, auth : Auth]]
    /\ score \in Score
    /\ round \in Seq(Score)
    /\ roundSize \in Nat
    /\ roundsCount \in Nat
    /\ judgeChoice \in [Slot -> Index \X Index]
    /\ judgeId \in Index
    /\ restartTimes \in -1..3
    /\ duelistsOut \in Nat
    /\ unpauseTask \in BOOLEAN
    /\ joins \in Nat /\ maps \in Nat
    /\ DOMAIN menu = Slot
    /\ \A s \in Slot : Menu(menu[s])

\* No duel goes on with scores that already decide it: whatever the judges
\* give, take or restore, the rule of ReGameDLL_RoundEnd sees every decisive
\* score at the round that produces it, and no score a backup can restore is
\* decisive.
NoUnclaimedWin ==
    /\ ~Decided(score)
    /\ \A i \in DOMAIN round : ~Decided(round[i])

\* The history that BackupRoundMenu indexes with m_iRoundsCount is there: the
\* menus a judge still holds, however old, index initialised storage only.
HistoryReadable ==
    /\ roundsCount <= roundSize
    /\ roundSize <= Len(round)
    /\ isNowDuel => roundsCount > 0
    /\ \A s \in Slot : menu[s].kind = "backup" => menu[s].items \subseteq DOMAIN round

\* A duel in preparation is never stuck: the counter that RoundRestart
\* decrements has not passed its stop value and, unless the map changed, the
\* restart that decrements it is on its way.
PreparingHasRestart ==
    state = "PREPARING" =>
        /\ restartTimes \in 0..3
        /\ restart = "none" => \A t \in Team : player[t].base = "oldMap"

\* While a duel is prepared or on, both duelists are known, whoever started
\* it is the judge, and both choices of a judge about to start differ.
DuelistsKnown ==
    /\ isNowDuel \/ state = "PREPARING" =>
           /\ judgeId # NoSlot
           /\ \A t \in Team : player[t].base # "null" /\ player[t].auth # NoPerson
    /\ \A s \in Slot : menu[s].kind = "start" =>
           /\ judgeChoice[s][1] # judgeChoice[s][2]
           /\ NoSlot \notin {judgeChoice[s][1], judgeChoice[s][2]}

\* A judge brings the server down only through a pointer that has become
\* stale: by a menu to give or take a round that outlived the duel it was
\* opened in, by such a menu when a duelist's slot was taken again or the map
\* changed since he was made a duelist, or by starting with a player who was
\* chosen on an earlier map.  Pauses, kills inside handlers, restored scores
\* and the preparation itself never do it.
CrashMeansStale ==
    ~running =>
        \E s \in online :
            \/ /\ menu[s].kind \in {"give", "take"}
               /\ \/ ~isNowDuel /\ state # "PREPARING"
                  \/ \E t \in Team : player[t].base \in {"replaced", "oldMap"}
            \/ /\ menu[s].kind = "start"
               /\ \E i \in 1..2 : ~HasEntity(judgeChoice[s][i])

\* The scores that the backup menu lists are the first roundsCount entries of
\* the history.
Offered == {round[i] : i \in 1..roundsCount}

\* A gain can be restored: whenever the scores of a duel that is on rise, the
\* new scores are offered by the backup menu.  Two exceptions are real: scores
\* that a take has driven below zero and that sum to zero are not recorded,
\* and once a backup was used the menu lags behind the history, so that the
\* newest scores are recorded but not offered.
GainIsRecorded ==
    [][ LET sum(sc) == sc["CT"] + sc["TER"]
        IN  isNowDuel /\ isNowDuel' /\ sum(score') > sum(score) =>
                \/ sum(score') = 0
                \/ score' \in Offered'
                \/ /\ roundsCount' < roundSize'
                   /\ \E i \in 1..roundSize' : score' = round'[i] ]_vars

\* Only the last restart of the preparation starts a duel; in particular no
\* menu, no return of a player and no delayed unpause does.
DuelStartsByRestart ==
    [][ ~isNowDuel /\ isNowDuel' =>
            /\ state = "PREPARING" /\ restartTimes = 0
            /\ score' = NilScore /\ round'[roundSize'] = NilScore ]_vars

\* A player who leaves or joins never changes the score of a duel that goes
\* on, nor its history: the return of a duelist resets everything else.
LeavingKeepsScores ==
    [][ online' # online /\ maps' = maps /\ isNowDuel /\ isNowDuel'
            => score' = score /\ round' = round /\ roundSize' = roundSize ]_vars

\* A preparation ends, unless the map changes or the server goes down.
PreparingEnds ==
    (state = "PREPARING" /\ \A t \in Team : player[t].base # "oldMap")
        ~> (state # "PREPARING" \/ ~running
            \/ \E t \in Team : player[t].base = "oldMap")

\* A duelist who returns to a paused duel gets it going again, unless the map
\* changes, the duel is ended or prepared anew, or the server goes down.
ComebackResumes ==
    (state = "PAUSE" /\ unpauseTask)
        ~> (state # "PAUSE" \/ ~running
            \/ \E t \in Team : player[t].base = "oldMap")

\* The match that the duel is: it is on from the last restart to the end, its
\* scores are those of the two entries, and the storage of the vector is what
\* a backup can return to.
MatchPhase ==
    IF isNowDuel THEN "on" ELSE IF state = "PREPARING" THEN "preparing" ELSE "none"
MatchPaused == isNowDuel /\ state = "PAUSE"
MatchScore  == IF isNowDuel THEN score ELSE NilScore
MatchDuelist ==
    [t \in Team |-> IF MatchPhase # "none" THEN player[t].auth ELSE NoPerson]
MatchRecord == {round[i] : i \in DOMAIN round}

Match == INSTANCE DuelMatch WITH
    phase   <- MatchPhase,
    paused  <- MatchPaused,
    score   <- MatchScore,
    duelist <- MatchDuelist,
    record  <- MatchRecord

\* The controller implements a match: through menus of any age, kills inside
\* handlers, restarts and returns, the score of a duel that is on moves only
\* by a round, a taken round or a return to a recorded score, never while
\* paused by a round, never past a decision, and for the same two duelists.
ImplementsMatch == Match!Spec

-----------------------------------------------------------------------------
(* What the documentation says and the code does not do.                   *)

\* README.md: 'The "resign" system, the player can surrender at any time'
ResignAtAnyTime ==
    isNowDuel => \A t \in Team : player[t].id \in online => ResignAccepted(player[t].id)

\* README.md: "Take round from player".  The other duelist keeps his score.
TakesFromOnePlayer ==
    [][ \A s \in Slot, t \in Team :
            TakeRound(s, t) /\ isNowDuel' => score'[Other(t)] >= score[Other(t)] ]_vars

\* README.md: "Aborting duel".  An ended duel comes back only by a new start.
AbortIsFinal ==
    [][ state = "NOTHING" => state' \in {"NOTHING", "PREPARING"} ]_vars

=============================================================================
