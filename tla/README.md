# Surf Mod: a TLA+ model

Surf Mod is a Metamod plugin for a Counter-Strike server (ReHLDS with
ReGameDLL).  It lets a judge run duels between two surfers: choose them, start
the duel with a series of restarts, give, take and restore rounds, pause, abort,
and decide a winner at ten rounds with a lead of two.  The plugin is one
single-threaded library called back by the engine and the game; its
difficulty is not parallelism but the order of callbacks: a menu is answered
long after it was built, a kill made by one handler makes the game call another
before it returns, players leave and return in other slots, a task fires five
seconds later, and a map change clears some of the objects but not the others.

## 1. Inventory

Paths are relative to `src/SurfMod/`.

| component | state | operations | called by |
|---|---|---|---|
| Duel controller `SurfModDuels.cpp/.h` | `m_pDuel_info` (state, `isNowDuel`, two `duel_player_t`, the vector `round`), `m_iRoundsCount`, `m_iRestart_times`, `m_iDuelists_out`, `m_JudgeChoice`, `m_iJudge_id` | the judge's six menus and their handlers, `PlayerResign`, `StartDuel`, `State`, `DuelWon`, `DuelPause`, `DuelUnpause`, `AbortDuel`, `RoundRestart`, `ClientDisconnect`, `DuelistComeback` | console commands, menus, game and engine hooks, a task |
| Game hooks `ReGameDLL.cpp` | hook registrations | `RoundEnd`, `RestartRound`, `PlayerSpawn` and team hooks | the game |
| Engine hooks `MetaDLL.cpp` | none | `ClientCommand`, `ClientConnect`, `ClientDisconnect`, `ClientPutInServer`, `ServerActivate`, `ServerDeactivate`, `StartFrame`, `CmdStart`, `CmdEnd` | the engine |
| Task scheduler `SurfModTask.cpp/.h` | `m_Data`: index to deadline, period, loop flag, free flag, callback | `Create`, `Remove`, `ServerFrame`, clearing at both ends of a map | the duel, the frame |
| Player menus `SurfModMenu.cpp/.h` | per slot: items, page, exit flag, callback | `Create`, `AddItem`, `Show`, `Hide`, `Handle`, `Display` | the duel, `menuselect` |
| Console commands `SurfModCommand.cpp/.h` | none | `menuselect`, `surfduel`, `resignduel`, `boxmenu` | the engine |
| Users and flags `SurfModUsers.cpp/.h` | admins by auth id, flags by slot | `ServerActivate` (reads the list), `PlayerConnect`, `GetFlags`, `Access` | engine hooks, judge menu |
| Script tokenizer `MemScript.hpp` | buffer, position, a one-second limit | `GetToken` and its kinds | users |
| Surf stuck fix `SurfModFix.cpp/.h` | the velocity saved at `CmdStart`, by user id | `CmdStart`, `CmdEnd` | engine hooks |
| Text, time, HUD `SurfModUtils.cpp`, `TimeFormat.h` | none | formatting, colours, fixed point, lengths of time | everyone |
| Plugin life cycle `MetaMod.cpp`, `ReAPI.cpp`, `ReGameDLL.cpp` | interface tables, hook chains | query, attach, detach | Metamod |
| Box zones `SurfModBox.cpp`, player menu `SurfModPlayerMenu.cpp` | none | one menu each, unfinished | `boxmenu`; nobody |

Interactions that make a behaviour hard:

* A menu is data built from the duel's state and handled at any later time.
  Nothing ties it to the duel it was built for.  The duel may have ended, been
  restarted, restored, or moved to another map.
* `GiveRound` and `TakeRound` kill a duelist.  The kill can end the round, and
  then `ReGameDLL_RoundEnd` runs inside the handler, on the scores the handler has
  half changed, and may end the duel.
* A preparation is a conversation with the game: three `sv_restart` answered by
  three `RestartRound`, and rounds may end on their own in between.
* A disconnection pauses the duel, a return schedules an unpause; the judge may
  unpause, abort, or prepare another duel before the task fires.
* A map change clears the users and the tasks; it keeps the duel and the menus,
  whose `CBasePlayer` pointers are then dangling.

What makes each component correct is stated as properties of its module (sections
3 to 8).

## 2. How the modules fit together

| module | models | extends or instantiates | checked by | proved in |
|---|---|---|---|---|
| `Duel` | the duel controller and the hooks that drive it | `DuelMatch`, as what it implements | `duel_*` (`MCDuel`) | `DuelProofs`, `DuelMatchProofs` |
| `DuelMatch` | what a duel promises | | as a property of `duel_scores` | `DuelMatchProofs` |
| `Teams` | team menu, restarts, respawns and the score board | `DuelMatch`, as a part of its state | `teams`, `teams_spectator` (`MCTeams`) | `TeamsProofs` |
| `Task` | the scheduler | `Alarms`, as what it implements | `task` (`MCTask`) | `TaskProofs` |
| `Menu` | the menus of a slot, its client and the wire between | | `menu_pages` (`MCMenu`) | `MenuProofs` |
| `Plugin` | attach and detach, maps, connections, flags, the stuck fix | | `plugin` (`MCPlugin`) | `PluginProofs` |
| `AdminList` | the tokenizer and the loop that reads the list | | `texts` (`MCTexts`) | `AdminListProofs` |
| `Text` | codes of messages and menus, and the messages of a menu, as operators | | `texts`, through `Texts` | `TextsProofs` |
| `Texts` | the list, and the texts that `Text` is compared on | `AdminList`, `Text` | `texts` (`MCTexts`) | `TextsProofs` |

The composition goes through what the modules promise each other:

* `Duel` implements `DuelMatch`; `Teams` is built on `DuelMatch` and needs nothing
  else of the duel.  So a judge in `Teams` may do at any time what some menu,
  however old, lets him do in `Duel`.
* `Menu` justifies how `Duel` treats a menu: one answer, from the last menu, to any
  of its items.
* `Task` justifies how `Duel` treats the delayed unpause: set once, run
  eventually, gone after a map change.
* `AdminList` justifies `data' \in SUBSET list` in `Plugin`: a reading gives the
  players of the list or, when the clock cuts it short, some of them.
* `Plugin` justifies that in `Duel` the game rules are there whenever a menu is
  used, and that a judge is a player on the list.

The runs, by what they ask:

| run | properties | distinct states |
|---|---|---|
| `duel_judges` | `TypeOK`, `PreparingHasRestart`, `DuelistsKnown`, `CrashMeansStale`, `DuelStartsByRestart` | 1,245,455 |
| `duel_scores` | `NoUnclaimedWin`, `HistoryReadable`, `GainIsRecorded`, `ImplementsMatch` | 89,722 |
| `duel_live` | `PreparingEnds`, `ComebackResumes`, `LeavingKeepsScores` | 1,215,910 |
| `teams` | `TypeOK`, `SidesAreKept`, `BoardAgrees` | 670,074 |
| `menu_pages` | `TypeOK`, `PageExists`, `ScreenIsCurrent`, `AnsweredOnce`, `ChosenIsSeen` | 3,138,639 |
| `task` | `TypeOK`, `SweepMissesNone`, `ImplementsAlarms`, `EveryTaskRuns` | 331,663 |
| `texts` | `TypeOK`, `ListIsRead`, `NobodyGainsFlags`, `MessageIsKept`, `ColoursAreReplaced`, `MenuTextArrives`, `ReadingAdvances`, `ReadingEnds` | 149,757 |
| `plugin` | `TypeOK`, `JudgesAreListed`, `DownIsExplained`, `FixGivesBackOwnSpeed` | 3,191,346 |
| `duel_resign` | `ResignAtAnyTime` | violated, as section 3 says |
| `duel_take` | `TakesFromOnePlayer` | violated, as section 3 says |
| `duel_abort` | `AbortIsFinal` | violated, as section 3 says |
| `teams_spectator` | `SpectatorsStayOut` | violated, as section 4 says |

What may still be worth adding: the judges' menus of `Duel` with three slots, so
that a judge who is not a duelist acts while both duelists are absent and two
strangers sit in their slots; a second task beside the unpause, should the
plugin create one.

## 3. The duel controller

### Modules

* `Duel.tla` is the model.  One action per hook or menu handler; a handler runs
  to completion on the only thread, so each is atomic, calls it makes included.
* `MCDuel.tla` gives the constants values for TLC, and the symmetry and the view.
* `DuelMatch.tla` is what a duel promises to those who play and judge it.
* `DuelProofs.tla` has the inductive invariant and the theorems about states,
  `DuelMatchProofs.tla` those about steps and the refinement.

### State

| model | code |
|---|---|
| `state`, `isNowDuel`, `player`, `score` | `m_pDuel_info`; the score is kept apart from the rest of `duel_player_t` because `init` alone resets it |
| `round`, `roundSize` | the vector `m_pDuel_info.round`: its storage and its size.  `clear` changes the size only, and an index is used without a check, so an index past the size but inside the storage reads an old entry |
| `roundsCount`, `restartTimes`, `duelistsOut`, `judgeChoice`, `judgeId` | the members of the same names |
| `menu` | `g_SurfModMenu`: the handler and the items that do something.  Pages and keys are the menu module's |
| `unpauseTask` | the entry `TASK_DUEL_UNPAUSE` of the scheduler |
| `client`, `online` | the engine's slots.  An entity outlives its player until the map changes or the slot is taken again |
| `restart` | the game: no restart due, one requested by `sv_restart`, or the round over and the next one coming by itself |
| `running` | FALSE after a null or freed pointer was used |

`base` of a duelist is what his `CBasePlayer*` points to: null, the player of his
slot (`current`, who may have left), or one that was freed because his slot was taken
again (`replaced`) or because the map is over (`oldMap`).  The slot is taken again by a
stranger, or by the duelist himself when the judge has unpaused: `ClientPutInServer`
looks for a returning duelist in the state `PAUSE` only (`MetaDLL.cpp:108`), so his
entry keeps the old pointer.  A use of a null pointer is the end of the process; a use
of a freed one may go well or be the end of the process, and both are allowed.

The states `UNPAUSE` and `WINING` and the entry `WINNER` are entered and left
inside one call and appear as the operators `StateUnpause` and `StateWining`.

What the model leaves open: whose team a player is in (section 4).  So `ready`, the players
that may be chosen, is any subset of those online, and a kill or the team moves of
`StartDuel` may or may not end the round in progress.

Two functions of the code do not do what their names say, and the model keeps that: `PlayerResign` returns
unless the caller is both duelists, and `AbortDuel` removes a task nobody
creates.

### Properties and runs

| run | what it asks | bounds |
|---|---|---|
| `duel_judges` | `TypeOK`, `PreparingHasRestart`, `DuelistsKnown`, `CrashMeansStale`, `DuelStartsByRestart`: two judges, who are the duelists too, act against each other with menus of any age; players leave and return in any slot, the delayed unpause races everything, and the map may change under the duel | 2 slots, history 1, 2 disconnections, 3 joins, 1 map change |
| `duel_scores` | `NoUnclaimedWin`, `HistoryReadable`, `GainIsRecorded`, `ImplementsMatch`: rounds won, given, taken and restored, kills that end rounds | one judge, history 3, 2 joins |
| `duel_live` | `PreparingEnds`, `ComebackResumes` under fairness, `LeavingKeepsScores`: duelists leave and return in any slot, at a score that is not nil | one judge, history 2, 2 disconnections, 3 joins, one map |
| `duel_resign`, `duel_take`, `duel_abort` | three statements of the repository's README that the code does not meet | smallest that shows it |

The properties, in words:

* `NoUnclaimedWin`: no duel goes on with scores that already decide it, and no
  score a backup can restore is decisive.  It needs the order of the
  increments, of the check and of the push in `ReGameDLL_RoundEnd`, and that a
  give or a take never raises a score other than through that hook.
* `HistoryReadable`: every backup menu a judge still holds, however old, indexes
  written entries.
* `PreparingHasRestart`, `PreparingEnds`: a preparation cannot get stuck.
* `DuelistsKnown`: two judges choosing at the same time do not mix their choices.
* `CrashMeansStale`: when a judge brings the server down, something is stale, and
  the property says what: a menu to give or take a round that outlived its duel, a
  duelist of such a menu whose slot was taken again or whose map is over, or a player
  chosen on an earlier map.  All of them are reached.  What is excluded is a crash in a
  preparation or a duel whose duelists are both the players of their slots, with
  menus of any age, kills inside handlers, restored scores and returns.
* `GainIsRecorded`: scores gained in a duel are afterwards offered by the backup menu
  (`Offered`).  The two exceptions are disagreements with the repository's README, see
  below.
* `DuelStartsByRestart`: only the last restart of a preparation starts a duel.
* `LeavingKeepsScores`, `ComebackResumes`: an interruption keeps the scores, and
  a return resumes the duel.
* `ImplementsMatch`: every step of the code is a step of `DuelMatch`, or none.

### What a duel promises

`DuelMatch` has five variables (no match, one in preparation or one that is on;
paused or not; two scores, two duelists, the scores on record) and eight steps.  It
says what the handlers, whatever menus, restarts and disconnections they take,
may do to a match together:

* a score goes up by one, for one side, in a match that is on and not paused,
  and never to a decisive score of a match that goes on: that ends it;
* a judge lowers both scores, and the kill that goes with it may end a round that
  counts in the same step;
* a judge returns to a score on record and to nothing else, and every score
  reached by a round is on record (unless the two sum to zero);
* a match that is not on has no score and is not paused; it ends with nothing
  left but the record.

`ImplementsMatch` maps `phase` to `isNowDuel` and to the state `PREPARING`, the record
to the entries of the vector that are written, the storage past its size
included.  `StartOver` is in `DuelMatch` because an old menu can start a duel in the
middle of another, which then goes on for the new players from nil.

### Bounds

`ScoreToWin` is 2 instead of 10: the rule is a threshold and a lead of two, and 2
is the least score at which both halves matter (2:1 does not win, 3:1 and 2:0
do).  `MaxHistory` bounds the recorded rounds (and with them the scores from
above; each take is followed by a kill, and the scores from below are bounded
by the menu, which offers only positive scores).  Three entries suffice for an
entry of an ended duel to be indexed by a menu of it.  `MaxOut`, `MaxJoins`,
`MaxMaps` bound disconnections, joins and map changes; two disconnections reach
the abort of `DuelPause`, three joins let both duelists enter and one return.
`CHECK_DEADLOCK FALSE` because of these bounds and because a server that went
down stays down.

`Symmetry` permutes the slots, and the players with the same flags: the model
compares them for equality only.  It is not used where liveness is checked.
`View` drops values that the code overwrites before it reads them (a judge's
choices outside the two menus that use them, the judge and the restart counter
when no duel is prepared or on); no property of a run with the view reads one
of them in such a state.

### Fairness

`WF_vars(RestartRound)`: the game's restart timer runs out.
`WF_vars(DuelUnpause)`: the engine calls `StartFrame` every frame, and the
scheduler runs a task whose time has come.  Nothing is assumed of players and
judges.

### Disagreements between the documents and the code

`PROJECT.json` lists under `findings` those that a run shows: resigning, taking a
round from one player, and aborting.  Three more can be read off the model:

* The counter of absent duelists (`duelistsOut`) is never lowered, not even by the next
  duel, so the second disconnection since the plugin was attached gives the duel up
  although the first player is back, and later ones only pause.
* A round after which the scores sum to zero is not recorded
  (`ReGameDLL.cpp:179`), so a backup cannot return to it.  This needs scores below
  zero, which takes produce.
* "Backup round (returns the score of the game in need round)" (`README.md:29`) fails
  for the newest round once a backup was used.  `UpdateGameInfo(false)`
  (`SurfModDuels.cpp:237`, `586`) puts the restored scores into the history and does
  not count them, and `BackupRoundMenu` (`209`) lists `m_iRoundsCount` entries, so from
  then on the menu lags behind by one for every backup.  The shortest way: start a
  duel, return to 0:0, win a round; its score is on record and no menu offers it.

### Proofs

`DuelProofs` proves for every value of the constants (any number of slots,
players and admins, any `ScoreToWin` from 1, any bounds) that `Safety`, hence
`Spec`, keeps `TypeOK`, `NoUnclaimedWin`, `HistoryReadable`,
`PreparingHasRestart`, `DuelistsKnown` and `CrashMeansStale`.  It assumes only
the three assumptions of `Duel.tla`: a slot is not the absent slot, a player is
not the absent player, the bounds are numbers.

None of the invariants is inductive alone.  `IInv` has five parts:

* `EngineOK`: the types of what belongs to the engine and the game;
* `DuelOK`: the types of the duel; from the start of a preparation on both
  duelists and the judge are known; `PreparingHasRestart`;
* `HistoryOK`: the counted rounds are at most the size of the vector, which is
  at most its storage; no score and no entry of the storage is decisive; a duel
  that is on has at least one counted round, so a backup has something to go to;
* `MenusOK`: `JudgeOK` for every slot, which relates the kind of the menu still
  held to the judge's choices and to the storage of the history.  This is what
  decides whether an old menu does harm;
* `CrashMeansStale` itself, which follows where a handler crashes: from `DuelOK` a
  duelist of a duel prepared or on is not null, so what is not `current` is freed, and
  from `MenusOK` a judge about to start has two choices, so one without an entity was
  made before the map changed.

The heart of the scores: a give raises nothing itself, a take lowers both, and only
the hook of the round's end raises one score by one, looks at the result, and
ends the duel when it decides.  So what remains after any handler is
undecided, and what is pushed to the history is too.  The storage of the
history never shrinks while `roundsCount` and the size go back to 0, which is
why a backup menu of an ended duel indexes written entries: the proof carries a
bound on the storage, not on the size.  Liveness under fairness is checked
by TLC only; the prover has no rule for ENABLED.

`DuelMatchProofs` uses `IInv` to prove what a step may do: `Refinement` (every
behaviour of `Duel` is one of `DuelMatch`), `StartsByRestart`, `LeavingIsHarmless` and
`GainsAreRecorded`, that is, the properties `ImplementsMatch`, `DuelStartsByRestart`,
`LeavingKeepsScores` and `GainIsRecorded`.  The refinement has one step per
action (`StepMaps`).  The pieces that handlers share (the round's end, the push to the
history, the end of the duel) have lemmas of their own, which say what they do to the
five abstract variables; a handler that kills in its middle is then the abstract
step of the two together.

## 4. Teams and the score board

`Teams.tla` composes the match of `DuelMatch` with the hooks that `Duel` leaves open:
`ReGameDLL_ChooseTeam`, `ReGameDLL_RoundRespawn`, and what `StartDuel`,
`DuelistComeback` and the ends of rounds do to teams and board.

| model | code |
|---|---|
| `phase`, `paused`, `score`, `duelist` | the match, as in `DuelMatch` |
| `preparing`, `id` | whether the state is `PREPARING`, which a duel that is on can be in too, and the slots in the two entries |
| `team` | `m_iTeam` of each slot |
| `board` | `m_iNumCTWins` and `m_iNumTerroristWins`, which the game counts before the hook does |
| `restart`, `complete` | the restart that is due, and whether `sv_restart` asked for it, which wipes the board |
| `strayed`, `astray` | history: the duelists who left their side in the preparation or came back when the duel did not wait; whether something named has set the board astray |

* `SidesAreKept`: whoever is a duelist plays for his side through pauses, leaving
  and returning, in whichever slot.  The exceptions are real: during a
  preparation the team menu works for everybody, and a return to a duel that
  the judge has unpaused joins no team.
* `BoardAgrees`: the board shows the duel's scores, although every `sv_restart`
  wipes it and backups move the scores.  `RoundRespawn` restores it when a
  duelist respawns; what sets it astray until the next restart with both
  duelists is listed in the property.
* `SpectatorsStayOut` is what the plugin tells a spectator during a duel
  (`ReGameDLL.cpp:205`), and what it does not do: run `teams_spectator`.

Bounds: two slots, two players and scores from -1 to 1 reach every combination of
a duelist gone, back in the other's slot, and of a board that differs by a round on
either side; three joins let a player return; one map change.  Scores on
record are all undecided ones (`Recorded`), because neither teams nor board depend on
how a score came to be there.  `CHECK_DEADLOCK FALSE` because of the bounds.

`TeamsProofs` proves `TypeOK`, `BoardAgrees` and `SidesAreKept` for every value of the
constants.  The board's invariant is inductive with `TypeOK`, whose part `Phases` says
that only a match that is on is paused or astray.  The sides have to be kept from the
preparation on (`SidesHeld`), since the last restart, which starts the duel, moves
nobody.

## 5. The task scheduler

`Task.tla` is `CTask`; `Alarms.tla` is what its users may rely on; `MCTask.tla` and
`TaskProofs.tla` check and prove.

| model | code |
|---|---|
| `data` | `m_Data`; an index is present or not, a record has the delay, the deadline, the loop flag and the free flag |
| `time` | `gpGlobals->time`, counted in frames; the engine resets it when a map starts |
| `active` | between `ServerActivate` and `ServerDeactivate` |
| `inFrame`, `todo` | `ServerFrame` is running; the keys its iterator has still to reach |
| `calling` | the task whose callback is running |
| `fresh`, `grown` | history of the sweep: what its callbacks created, and whether a key was new |

A sweep is one action per entry (`Skip`, `Run`) and one for the return of a
callback, because `Create` and `Remove` may be called from the callback while
the iterator stands on the entry.  A new key may rehash the table.  The standard
says nothing of the iterator then; in the tables of the compilers this plugin is
built with, nodes do not move and the iterator goes on in the new order, so the
model takes any set of the keys as what is still to be reached.  The plugin
creates one task today (`TASK_DUEL_UNPAUSE`), whose callback calls nothing here.  The module
admits every use of the interface, which is what the next caller needs.

`ImplementsAlarms` is the refinement: `AlarmOf(i)` is the alarm that entry i stands
for, unset when the entry is absent or free.  A frame of the sweep is a tick,
`Run` rings, the rest stutters.

| run | what it asks | bounds |
|---|---|---|
| `task` | `TypeOK`, `SweepMissesNone`, `ImplementsAlarms`, and `EveryTaskRuns` under fairness | 3 indices, delays 0 and 1 frames, maps of 2 frames, no symmetry |

Three indices are the fewest with which an insertion by a first task can make the
sweep miss a second.  `MaxTime` stops the clock at the end of a map; a delay of 1
leaves a task waiting through a whole frame, and a delay of 0 makes one due in the
sweep that creates it.

Fairness: the engine calls `StartFrame` as long as a map is on, and the
sweep and the callbacks return: `FrameBegin`, `Visit`, `CallbackReturns`,
`FrameEnd` weakly fair.  `EveryTaskRuns` needs it because one sweep may miss a task.

Proved in `TaskProofs`, for any indices, delays and length of a map, from the
assumptions of `Task.tla`: `TypeOK`, `SweepMissesNone` and the whole refinement,
the initial state and each action against an action of `Alarms` or a stutter.
The inductive invariant is the conjunction of the two state properties: that the
sweep has not missed a due task needs that deadlines are only written together
with `fresh`, or by a firing.

## 6. Player menus

`Menu.tla` is the `CMenu` of one slot together with the player's client and the
messages between them.  The slots do not share anything: `menuselect` of a
player uses the object of his own slot.

| model | code |
|---|---|
| `size`, `bExit`, `page` | `m_Data.size()`, `m_bExit`, `m_iPage` |
| `title` | which menu this is; the code has no such number, it is what the properties tell menus apart by |
| `gameMenu` | `CBasePlayer::m_iMenu` is not `Menu_OFF` |
| `screen`, `down`, `up` | the client's screen and the messages in flight |
| `answer` | history: the item that was chosen from each menu |

`View` is what `Display` draws and which keys it allows, `Item` is the index that
`Handle` computes from a key.  `ClientCommand` is the command `menuselect` with its check
of `m_iMenu`; while the game's own menu is up the game takes the key.  An item closes
the menu and calls its function, which may open the next menu in the same object
(the judge's menus do).

Two things the model keeps although they look like slips: an exit with key 0
sends the client nothing, so when it crosses a menu just shown that menu stays
on the screen with nobody listening, and `ScreenIsCurrent` therefore speaks of menus
that the server still has open; and the object of a slot is not cleared when
another player takes it, so his keys go to a menu he has not seen until a menu is
shown to him.

`Duel` keeps of a menu its handler and its items only.  It lets a judge choose any
item of the menu that is open, at any later time or never, and closes the menu
with the answer.  That is what `Menu` justifies: `AnsweredOnce` (one answer, and only
from the last menu) and `PageExists`; a late key may hit an item the player did not
mean, which `Duel` allows because it allows every item.

| run | what it asks | bounds |
|---|---|---|
| `menu_pages` | `TypeOK`, `PageExists`, `ScreenIsCurrent`, `AnsweredOnce`, `ChosenIsSeen` | pages of 2, up to 5 items, 2 menus, 2 messages each way |

Pages of 2 instead of 7 keep the arithmetic (a first, a middle and a last page, the
last one full or not) with few items; key 3 then plays what key 8 is in the code, a
key that only the game's menus have.  Two messages each way let a key of one page
arrive on another and a second menu overtake the first.  Nothing is fair: no
property is a liveness property, and a player need not answer.

Proved in `MenuProofs`, for any length of page from 1 to 8, any length of menu and
any number of menus and messages, from the assumptions of `Menu.tla`: all five
properties.  `IInv` adds to `TypeOK` and `PageExists`:

* `ScreensOK`: every screen anywhere (drawn, or under way, or remembered by a key
  under way) is a page that its menu has, and every key is one of its screen;
* `LatestOK`: the screen the client will end up with is the server's page;
* `AnswersOK`: an answered menu is closed, later menus have no answer.

`ScreenIsCurrent` follows from `LatestOK` when nothing is under way, `AnsweredOnce`
from `AnswersOK`, and `ChosenIsSeen` from `ScreensOK`: the line that `Display` put
beside a key is the index that `Handle` computes.

## 7. The list of administrators and other texts

`AdminList.tla` is the tokenizer `CMemScript` and the loop of `CUsers::ServerActivate`:
one action per token (name, auth id, flags), as each looks at the clock first and
gives the reading up when the second it started in is over (`Tick`, `GiveUp`).
`buff` and `count` are `m_Buff` and `m_Count`, `data` is `CUsers::m_Data`.

Three things the model keeps although they look like slips: `UnGetChar` writes the
character back, so at the end of the text the char -1 replaces the last
character, and this is what ends a word that the text cuts off; a byte 0xFF is that
char too; and the end of a number is not given back.

What a list means must not be said with the tokenizer's own words, or `ListIsRead`
would compare it with itself.  So a text that somebody wrote as a list comes with its
players (`listed`) and with where in the text each of their fields stands
(`fields`): between quotes, as a number before a blank, or as a word that something
ends.  `LaidOut` says that the fields hold the players and that there are only blanks
and whole comments between them.  `text` is what there is of it in the file and `rest`
what is cut off.  A file that is not `written` is any text.  `FileAssumption` says
this of the constant `File`, and is evaluated in the run.

* `ListIsRead`: a list that is written as the tokenizer wants is read as it is
  written, in any layout, also when the newline at its end is missing (`Complete`); a
  reading cut short by the clock has the first players.
* `NobodyGainsFlags`: a list cut off at any character gives nobody flags that the
  whole list does not.
* `ReadingAdvances`: every token of any text leaves less to read, although a word or
  a string that the end cuts off moves the position back: the last character becomes the
  end then, which `Ahead` counts.
* `ReadingEnds`: the reading of any text ends, under `WF` of the loop; the clock is
  not needed for it.

`Text.tla` has the pure functions and `Texts.tla` compares them with reference
definitions: `MessageIsKept` (`ParseLinesAndColors` writes the buffer that it reads),
`ColoursAreReplaced` (`ReplaceAll`, one colour after the other) and `MenuTextArrives`
(the messages of `ShowMenu`, with the flag that more follows).

`ShowMenu` copies a text into a zeroed buffer of six messages (`BufferSize`) without
its terminator and without a look at its length (`SurfModMenu.cpp:239-241`).  A text that
is shorter than the buffer ends with a zero of it.  One that fills the buffer has no end
there, and a longer one is written over what follows on the stack: in both cases the
loop reads on up to some zero (`Copied`, `Behind`), and nothing is promised.
`MenuTextArrives` is about the shorter texts, full messages included.  The plugin's own
menus stay well below: seven lines of the longest items it adds come to about 600 of
the 1,050 characters.

Bounds of `texts`: every text of up to 4 characters of the 7 that matter; every
list of none, one and two of four players, whose auth ids are prefixes of each other, in
4 layouts and with 2 kinds of line ends, whole, and those whose lines are alike cut off
at every character;
menu texts up to 6 characters in messages of 2 (the code's are 175), which is three full
ones, and of 9 to 14 characters around the end of the buffer at 12, with up to three
characters behind it.  The run is of finite texts, so there is an end state:
`CHECK_DEADLOCK FALSE`.

### Proofs

`AdminListProofs` and `TextsProofs` prove every property of this section except
`ReadingEnds`, which is liveness, for texts of any length, any number of players and messages
of any size.  They assume `FileAssumption`, and `TextsAssumption`: menus, and what stands
behind the buffer, are sequences, and messages have at least one character.

The functions are written by recursion over positions.  The library's induction theorems
cannot be used here, so induction is done with sets of numbers: a set of natural numbers
that is not empty has a least element (`LeastNumber`), hence what goes from the later
positions to a position holds at all (`FromTheEnd`), or from each to the next
(`FromTheBeginning`).  The same argument shows that the recursive functions exist
(`TailRecursion`, `PuttingTogether`, `GoingUp`), without which nothing could be said of
their values.

* *The tokenizer.*  One lemma for each kind of token says what it reads and where it
  stops (`NumberReads`, `StringReads`, `WordReads`, `GetTokenAdvances`).  From them follow
  `TypeOK` and `ReadingAdvances`, the safety half of the reading's end.
* *The list.*  `GapIsSkipped` and `FieldIsRead` say that from the end of one field the
  tokenizer gets to the next and reads it, or comes to the end of a text that is cut off
  before it ends, with a beginning of the field.  The invariant of the reading, of a
  written list, is `ReadOK`: the fields are read in their order and the buffer is
  as it was (`InOrder`), or the end is reached (`Exhausted`), or the clock ended the reading
  (`GivenUp`).  It is needed because neither property says where in the text the reading
  is, nor what is in the entry that is half read: an auth id that is cut off must find
  no flag behind it.
* *The codes of a message.*  `Parsed` is the invariant of the loop that writes what it
  reads: before its position the buffer holds what the text is replaced by, except for
  carets behind a code, and from its position on it holds the text unchanged, as the
  writing never overtakes the reading.
* *The colours.*  One `ReplaceAll` replaces the codes of its colour where they stand
  (`ColouredPaints`) and leaves those of the others as they were (`PaintedOnce`).
* *The messages of a menu.*  From each position on, the messages send what stands there
  (`SendsBefore`, `ChunksSend`), joined as `FlattenSeq` joins them (`FlattenBefore`).

## 8. The life of the plugin

`Plugin.tla` is Metamod attaching and detaching the plugin at any time (`PT_ANYTIME`),
on servers with and without the APIs it wants, with maps, connections, the flags of
the list, and the stuck fix around every command of a player.

| model | code |
|---|---|
| `platform` | which of the APIs the server's libraries have, and in which version |
| `rehlds`, `regame` | how far `ReAPI_Init` and `ReGameDLL_Init` came; nobody looks at their results |
| `rules` | `g_pGameRules`, and whether the game has freed what it points to |
| `data`, `judge` | `CUsers::m_Data` and `m_Flag`, as far as the flag MENU goes |
| `menu` | the slots in which a judge's menu is open, of whatever age |
| `saved`, `running`, `speed`, `start` | the stuck fix: the array by user id, and the command that is between `CmdStart` and `CmdEnd` |
| `server` | up, crashed (rules or hook chains that the plugin never got were used), corrupt (memory past the array was written) or stale (a judge's item used a duelist's null or freed `CBasePlayer`) |

* `JudgesAreListed`: the judges are exactly the players on the map who are listed in
  what the plugin has read of the list for this map, whoever takes whose slot and however
  often the plugin is attached.  What it has read is nothing after an attach in the
  middle of a map, and may be less than the list when the clock cuts the reading short.
* `DownIsExplained`: there are three ways in which the plugin brings the server down.
  *crashed*: only on a server without an API, where detaching uses the unset hook chains
  and a judge's item the unset rules.  With all the APIs, a plugin attached in the middle
  of a map has no rules, but no judge either until the next map.  *corrupt*: on any
  server the stuck fix writes past its array once a user id reaches its size: the check of
  the id in `CmdEnd` (`UserIndex < 0 && UserIndex > 33`) is never true, and `CmdStart` has
  no check of the size at all.  *stale*: an item of a judge's menu uses a duelist's
  pointer without a check (`SurfModDuels.cpp:262`, `358`, `387`).  `Plugin` keeps no
  duelists, so every item may do it here; when it does is `CrashMeansStale` of `Duel`.
  With all the APIs it needs a map that was started with the plugin.
* `FixGivesBackOwnSpeed`: what the fix gives back is the speed of the same command.
* `TypeOK` says among the types that `rules` never points to freed rules.

Bounds of `plugin`: two slots, two players and three connections let a player take
another's slot and return to it; an array of three entries (the code's has 32) is passed by the
third connection; three speeds, one of them straight.  A player, a slot are
only compared, hence the symmetry.  `CHECK_DEADLOCK FALSE`: a server may be down.

`PluginProofs` proves the four properties for every value of the constants.  The
argument for `DownIsExplained` is an order of events: with all the APIs the hook
`InstallGameRules` is set at the attach, so a map spawned since has current
rules; the flags come with `ServerActivate`, after the rules; so until the rules are
there nobody has the flag MENU and nobody a judge's menu (`RulesOK`), the menu included
that a disconnection opens for the judge of the duel.  `EntryOK`: between
the two halves of a command the entry of the player's id is the speed it began
with.

The model takes it that `ClientConnect` is called for every player on every map
before his commands, as the engine does for people.  A bot that gets a slot
without it would keep the flags of the slot; bots have no menus to use.

## 9. What is not modelled

* Box zones (`SurfModBox.cpp`) and the player menu (`SurfModPlayerMenu.cpp`) are
  unfinished features without state of their own: one menu each, whose item creates
  an entity that nothing looks at again, or writes a message.
* `CUsers::Access` and `GetFlags` by letters other than the MENU flag: nothing calls
  the first, and nothing asks for another letter.
* `HudMessage` with its fixed-point conversions, `SayText`, `FormatString`, logs: they
  write text from the values they are given.  The conversions saturate floats.
* The geometry of the stuck fix: whether the player stands on a slope with room
  above him is traces and floats, and a free choice (`stuck`).
* `GetTimeLength` (`TimeFormat.h`): nothing calls it.
* The value of a number token, which the reader of the list does not use.
* The exit of a menu with key 0 sends nothing; a menu that it crosses stays on the
  screen without a listener (section 6).  No property forbids it, as nothing in the
  code or its documents says otherwise.
* The vendored headers under `include/`: the SDKs of the engine, the game and
  Metamod, and a JSON library, which is included and not used.  They declare the
  environment and hold no behaviour of the plugin; they are more than nine tenths
  of the lines of the repository, so the mapped share of all lines is small although
  most of the plugin's own sources are mapped.  What the plugin needs of the
  engine and the game is in the modules, marked external in the map.
