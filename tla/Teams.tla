--------------------------------- MODULE Teams ---------------------------------
(***************************************************************************)
(* Who plays for which team, and what the game's score board shows, while  *)
(* matches are prepared, played and judged: the hooks of ReGameDLL.cpp on  *)
(* the team menu, the end of a round, the restart and the respawn, composed *)
(* with DuelMatch, which Duel implements.  Every action here is a step of  *)
(* the match, or none, with what the same handler or hook does to teams    *)
(* and board.  The judges' menus are left out: a judge may do at any time  *)
(* what some menu, however old, lets him do.                               *)
(*                                                                         *)
(* The entries of a match given up in preparation are not kept: what reads *)
(* them while no match is on moves no duelist of a match.                  *)
(***************************************************************************)
EXTENDS Integers

CONSTANTS
    Slot, NoSlot,            \* as in Duel
    Person, NoPerson,
    ScoreToWin,
    MaxScore,                \* bound: scores and rounds on the board, either sign
    MaxJoins,                \* bound: calls of ClientPutInServer
    MaxMaps                  \* bound: map changes

ASSUME SlotAssumption == NoSlot \notin Slot
ASSUME PersonAssumption == NoPerson \notin Person
ASSUME BoundAssumption ==
    /\ ScoreToWin \in Nat \ {0} /\ MaxScore \in Nat
    /\ MaxJoins \in Nat /\ MaxMaps \in Nat

VARIABLES
    \* the match (DuelMatch)
    phase, paused, score, duelist,
    \* CDuel: whether state is PREPARING, and the slots in the two entries
    preparing, id,
    \* the engine and the game, as in Duel
    client, online, restart,
    team,         \* per slot, CBasePlayer::m_iTeam
    board,        \* CSGameRules: m_iNumCTWins and m_iNumTerroristWins
    complete,     \* m_bCompleteReset: the restart was asked for by sv_restart
    \* counters of the bounds
    joins, maps,
    \* history: the sides whose duelist left his team while the duel was
    \* prepared, or came back when the duel was not paused, and whether the
    \* board may disagree with the scores until the round restarts
    strayed, astray

matchVars == <<phase, paused, score, duelist>>
duelVars  == <<matchVars, preparing, id>>
gameVars  == <<restart, board, complete>>
seatVars  == <<client, online, joins, maps>>
vars == <<duelVars, gameVars, seatVars, team, strayed, astray>>

Team == {"CT", "TER"}
TeamName == {"UNASSIGNED", "SPECTATOR"} \cup Team

\* Any undecided score may be on record: to the teams and to the board it does
\* not matter how it came to be there.
Count == -MaxScore..MaxScore
Scores == [Team -> Count]
Undecided(sc) ==
    \A t, u \in Team : sc[t] >= ScoreToWin => sc[t] - sc[u] < 2
Recorded == {sc \in Scores : Undecided(sc)}

M == INSTANCE DuelMatch WITH record <- Recorded

On == phase = "on"
NoSlots == [t \in Team |-> NoSlot]

-----------------------------------------------------------------------------
(* Pieces shared by the actions.                                           *)

\* ServerCommand("sv_restart %d")
RequestRestart ==
    /\ restart' = IF restart = "roundOver" THEN restart ELSE "requested"
    /\ complete' = TRUE

\* How a round ends: a team wins it, or any other event.
RoundEvent == Team \cup {"draw"}

\* The round ends, and the game counts the win before the hook does.
RoundOver(event) ==
    /\ restart # "roundOver"
    /\ restart' = "roundOver"
    /\ board' = [t \in Team |-> IF t = event THEN board[t] + 1 ELSE board[t]]
    /\ board' \in Scores

\* ReGameDLL_RoundEnd counts: a duel is on, not paused, and a team has won.
Counted(event) == On /\ ~paused /\ event \in Team

\* State(DUEL_STATE::NOTHING)
EndMatch ==
    /\ M!End
    /\ preparing' = FALSE
    /\ id' = NoSlots
    /\ strayed' = {}
    /\ astray' = FALSE

\* The state leaves PREPARING for GOING by a pause item, a backup or an unpause
\* meant for another duel: a match that is not on is given up.
GiveUpPreparation ==
    /\ ~On
    /\ IF preparing THEN EndMatch ELSE UNCHANGED <<duelVars, strayed, astray>>

\* Mutant: the preparation of a duel started in another goes on in a pause.
PreparingStatePause == M!Pause /\ paused' = TRUE /\ UNCHANGED preparing

\* The state becomes PAUSE in a duel that is on.
StatePause == M!Pause /\ paused' = TRUE /\ preparing' = FALSE

\* JoinTeam(SPECTATOR) for everybody, then the two duelists to their teams.
TeamsOfDuel(a, b) ==
    [s \in Slot |-> IF s = a THEN "CT" ELSE IF s = b THEN "TER"
                    ELSE IF s \in online THEN "SPECTATOR" ELSE team[s]]

\* Mutant: the board is restored for the counter-terrorists only.
OneSidedRoundRespawn(respawned, wins) ==
    [t \in Team |-> IF On /\ id["CT"] \in respawned /\ t = "CT"
                    THEN score[t] ELSE wins[t]]

\* ReGameDLL_RoundRespawn for the players respawned, the board being wins; a
\* player in both entries is taken for the first.
RoundRespawn(respawned, wins) ==
    [t \in Team |-> IF On /\ id[t] \in respawned /\ (t = "CT" \/ id[t] # id["CT"])
                    THEN score[t] ELSE wins[t]]

-----------------------------------------------------------------------------
Init ==
    /\ phase = "none" /\ paused = FALSE /\ score = M!Zero /\ duelist = M!None
    /\ preparing = FALSE
    /\ id = NoSlots
    /\ client = [s \in Slot |-> NoPerson]
    /\ online = {}
    /\ restart = "none"
    /\ team = [s \in Slot |-> "UNASSIGNED"]
    /\ board = M!Zero
    /\ complete = FALSE
    /\ joins = 0 /\ maps = 0
    /\ strayed = {}
    /\ astray = FALSE

-----------------------------------------------------------------------------
(* Judges.                                                                 *)

\* JudgeChoosePlayerMenu_Handle with two players chosen, who may have left:
\* StartDuel, State(PREPARING) and StartRestarting.  Moving everybody may end
\* the round; a duel that is on counts it, from the scores that init resets.
StartDuel(a, b) ==
    /\ a # b
    /\ client[a] # NoPerson /\ client[b] # NoPerson
    /\ team' = TeamsOfDuel(a, b)
    /\ id' = [t \in Team |-> IF t = "CT" THEN a ELSE b]
    /\ duelist' = [t \in Team |-> IF t = "CT" THEN client[a] ELSE client[b]]
    /\ M!Prepare(duelist') \/ M!StartOver(duelist')
    /\ preparing' = TRUE
    /\ \/ RequestRestart /\ UNCHANGED board /\ score' = M!Zero
       \/ \E event \in RoundEvent :
             /\ RoundOver(event) /\ complete' = TRUE
             /\ score' = IF Counted(event) THEN M!Plus(M!Zero, event) ELSE M!Zero
    /\ strayed' = {}
    /\ astray' = On
    /\ UNCHANGED seatVars

\* TakeRoundMenu_Handle: both scores go down and the loser is killed, which
\* may end the round, and the match.
TakeRound ==
    /\ On
    /\ M!Lowered(score) \in Scores
    /\ \/ M!Take /\ score' = M!Lowered(score) /\ UNCHANGED <<board, restart>>
          /\ astray' = TRUE /\ UNCHANGED <<preparing, id, strayed>>
       \/ \E event \in RoundEvent :
             /\ RoundOver(event)
             /\ IF Counted(event) /\ M!Decided(M!Plus(M!Lowered(score), event))
                THEN EndMatch
                ELSE /\ M!Take
                     /\ score' = IF Counted(event) THEN M!Plus(M!Lowered(score), event)
                                 ELSE M!Lowered(score)
                     /\ astray' = TRUE
                     /\ UNCHANGED <<preparing, id, strayed>>
    /\ UNCHANGED <<seatVars, team, complete>>

\* BackupRoundMenu_Handle
BackupRound ==
    /\ \/ GiveUpPreparation
       \/ M!Return /\ preparing' = FALSE /\ astray' = TRUE /\ UNCHANGED <<id, strayed>>
    /\ RequestRestart
    /\ UNCHANGED <<seatVars, team, board>>

\* JudgeMenuMain_Handle, case 5, in a duel that is going
DuelPause ==
    /\ On /\ ~preparing /\ ~paused
    /\ StatePause
    /\ UNCHANGED <<id, gameVars, seatVars, team, strayed, astray>>

\* DuelUnpause, by a judge or by the delayed task, whatever the state is then
DuelUnpause ==
    /\ \/ GiveUpPreparation
       \/ M!Pause /\ paused' = FALSE /\ preparing' = FALSE
          /\ UNCHANGED <<id, strayed, astray>>
    /\ RequestRestart
    /\ UNCHANGED <<seatVars, team, board>>

\* AbortDuel, by a judge
Abort ==
    /\ phase # "none"
    /\ EndMatch
    /\ RequestRestart
    /\ UNCHANGED <<seatVars, team, board>>

\* DuelWon, by a judge's GiveWinMenu_Handle or a resignation
DuelWon ==
    /\ phase # "none"
    /\ EndMatch
    /\ UNCHANGED <<gameVars, seatVars, team>>

-----------------------------------------------------------------------------
(* Players and the game.                                                   *)

\* Mutant: the duelists are not refused.
OpenChooseTeam(s, want) ==
    /\ s \in online
    /\ \E new \in {"SPECTATOR", team[s], want} : team' = [team EXCEPT ![s] = new]
    /\ strayed' = strayed \cup {t \in Team : ~On /\ id[t] = s /\ team'[s] # team[s]}
    /\ UNCHANGED <<duelVars, gameVars, seatVars, astray>>

\* ReGameDLL_ChooseTeam; the game, which callNext reaches, may refuse too.
ChooseTeam(s, want) ==
    /\ s \in online
    /\ ~(On /\ team[s] \in Team)
    /\ LET moved == IF On THEN "SPECTATOR" ELSE team[s]
       IN  \E new \in {moved, want} : team' = [team EXCEPT ![s] = new]
    /\ strayed' = strayed \cup {t \in Team : ~On /\ id[t] = s /\ team'[s] # team[s]}
    /\ UNCHANGED <<duelVars, gameVars, seatVars, astray>>

\* ReGameDLL_RoundEnd
RoundEnd(event) ==
    /\ RoundOver(event)
    /\ \/ /\ Counted(event)
          /\ M!Decided(M!Plus(score, event))
          /\ EndMatch
       \/ /\ Counted(event)
          /\ M!Round(event)
          /\ UNCHANGED <<preparing, id, strayed, astray>>
       \/ /\ ~Counted(event)
          /\ astray' = (astray \/ (On /\ event \in Team))
          /\ UNCHANGED <<duelVars, strayed>>
    /\ UNCHANGED <<seatVars, team, complete>>

\* ReGameDLL_RestartRound: the game resets the board if sv_restart was asked
\* for, respawns whoever is in a team, then RoundRestart goes on with the
\* preparation: by another restart, or by State(GOING).
RestartRound ==
    LET respawned == {s \in online : team[s] \in Team}
        both      == \A t \in Team : id[t] \in respawned
        settled   == On /\ (astray \/ complete)
                        /\ ~(both /\ id["CT"] # id["TER"])
    IN  /\ restart # "none"
        /\ board' = RoundRespawn(respawned, IF complete THEN M!Zero ELSE board)
        /\ \/ /\ preparing
              /\ restart' = "requested" /\ complete' = TRUE
              /\ astray' = settled
              /\ UNCHANGED duelVars
           \/ /\ preparing
              /\ restart' = "none" /\ complete' = FALSE
              /\ M!Begin /\ preparing' = FALSE
              /\ astray' = (~complete \/ score # M!Zero)
              /\ UNCHANGED id
           \/ /\ ~preparing
              /\ restart' = "none" /\ complete' = FALSE
              /\ astray' = settled
              /\ UNCHANGED duelVars
        /\ UNCHANGED <<seatVars, team, strayed>>

\* CDuel::ClientDisconnect and DuelPause, for a duelist or for anybody else
ClientDisconnect(s) ==
    /\ s \in online
    /\ online' = online \ {s}
    /\ \/ /\ On /\ \E t \in Team : duelist[t] = client[s]
          /\ \/ StatePause /\ UNCHANGED <<id, strayed, astray, gameVars>>
             \/ EndMatch /\ RequestRestart /\ UNCHANGED board
       \/ /\ ~(On /\ \E t \in Team : duelist[t] = client[s])
          /\ UNCHANGED <<duelVars, gameVars, strayed, astray>>
    /\ UNCHANGED <<client, joins, maps, team>>

\* DuelistComeback for side t of a paused duel
DuelistComeback(s, t) ==
    /\ id' = [id EXCEPT ![t] = s]
    /\ team' = [team EXCEPT ![s] = t]
    /\ strayed' = strayed \ {t}

\* ClientConnect and then ClientPutInServer
ClientPutInServer(s, p) ==
    LET returns(t) == On /\ paused /\ duelist[t] = p
    IN  /\ joins < MaxJoins
        /\ joins' = joins + 1
        /\ s \notin online
        /\ \A other \in online : client[other] # p
        /\ online' = online \cup {s}
        /\ client' = [client EXCEPT ![s] = p]
        /\ \/ returns("CT") /\ DuelistComeback(s, "CT")
           \/ ~returns("CT") /\ returns("TER") /\ DuelistComeback(s, "TER")
           \/ /\ ~returns("CT") /\ ~returns("TER")
              /\ team' = [team EXCEPT ![s] = "UNASSIGNED"]
              /\ strayed' = strayed \cup {t \in Team : duelist[t] = p}
              /\ UNCHANGED id
        /\ UNCHANGED <<matchVars, preparing, gameVars, maps, astray>>

\* ServerDeactivate and ServerActivate: the game starts anew, the match stays.
MapChange ==
    /\ maps < MaxMaps
    /\ maps' = maps + 1
    /\ client' = [s \in Slot |-> NoPerson]
    /\ online' = {}
    /\ team' = [s \in Slot |-> "UNASSIGNED"]
    /\ board' = M!Zero
    /\ restart' = "none" /\ complete' = FALSE
    /\ astray' = On
    /\ UNCHANGED <<duelVars, joins, strayed>>

-----------------------------------------------------------------------------
Next ==
    \/ \E a, b \in Slot : StartDuel(a, b)
    \/ TakeRound
    \/ BackupRound
    \/ DuelPause
    \/ DuelUnpause
    \/ Abort
    \/ DuelWon
    \/ \E s \in Slot, want \in {"SPECTATOR"} \cup Team : ChooseTeam(s, want)
    \/ \E event \in RoundEvent : RoundEnd(event)
    \/ RestartRound
    \/ \E s \in Slot : ClientDisconnect(s)
    \/ \E s \in Slot, p \in Person : ClientPutInServer(s, p)
    \/ MapChange

Spec == Init /\ [][Next]_vars

-----------------------------------------------------------------------------
(* Properties.                                                             *)

Index == {NoSlot} \cup Slot
Auth  == {NoPerson} \cup Person

Flags ==
    /\ paused \in BOOLEAN /\ preparing \in BOOLEAN
    /\ complete \in BOOLEAN /\ astray \in BOOLEAN

Data ==
    /\ phase \in {"none", "preparing", "on"}
    /\ score \in [Team -> Int]
    /\ duelist \in [Team -> Auth]
    /\ id \in [Team -> Index]
    /\ client \in [Slot -> Auth] /\ online \subseteq Slot
    /\ restart \in {"none", "requested", "roundOver"}
    /\ team \in [Slot -> TeamName]
    /\ board \in [Team -> Int]
    /\ joins \in Nat /\ maps \in Nat
    /\ strayed \subseteq Team

Phases ==
    /\ ~On => score = M!Zero /\ ~paused /\ ~astray
    /\ paused => ~preparing
    /\ phase = "none" => ~preparing
    /\ phase = "preparing" => preparing

\* Every variable has its type, a match that is not on has no score, and only
\* a match that is on is paused, and not while another is prepared.
TypeOK == Flags /\ Data /\ Phases

\* Through a duel, its pauses, the leaving and the return of its duelists and
\* the slots they come back to, whoever is a duelist plays for his side, unless
\* he left it before the duel was on or came back to a duel that did not wait.
SidesAreKept ==
    On /\ duelist["CT"] # duelist["TER"] =>
        \A t \in Team \ strayed :
            id[t] \in online /\ client[id[t]] = duelist[t] => team[id[t]] = t

\* The score board shows the scores of the duel, although sv_restart wipes it
\* and returns move the scores: only a round that did not count, a taken round,
\* a return, a start in the middle of a duel, a map change or a restart that a
\* duelist missed sets it astray, and a restart with both duelists mends it.
BoardAgrees == On /\ ~astray => board = score

\* ReGameDLL.cpp:205, told to a spectator who opens the team menu during a
\* duel: "You can't choose a team because the duel is going up."
SpectatorsStayOut ==
    [][ \A s \in Slot, want \in Team :
            On /\ ChooseTeam(s, want) /\ team[s] = "SPECTATOR"
               /\ (\A t \in Team : id[t] # s)
            => team'[s] = "SPECTATOR" ]_vars

=============================================================================
