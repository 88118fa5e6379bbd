-------------------------------- MODULE Plugin --------------------------------
(***************************************************************************)
(* The life of the plugin in a server: Metamod attaches and detaches it at *)
(* any time (PT_ANYTIME), maps come and go, players connect and get the    *)
(* flags of the administrators' list, judges use their menus, and the      *)
(* stuck fix looks at every command of a player.                           *)
(*                                                                         *)
(* What the plugin keeps is in the memory of its library, which is fresh   *)
(* after every attach.  What a judge's menu does is in Duel; here it only  *)
(* matters that it uses the game rules (CSGameRules) and the players whom  *)
(* it is about.                                                            *)
(***************************************************************************)
EXTENDS Integers

CONSTANTS
    Slot, NoSlot,       \* indices of entities of players
    Person, NoPerson,   \* players, by auth id
    Velocity, Straight, \* speeds; in Straight ones x or y is zero
    Entries,            \* entries of CFix::m_flPlayer_start_velocity (32)
    MaxId               \* bound: user ids, one for each connection

ASSUME Absent == NoSlot \notin Slot /\ NoPerson \notin Person
ASSUME Speeds == Straight \subseteq Velocity /\ Straight # {}
ASSUME Sizes  == Entries \in Nat \ {0} /\ MaxId \in Nat

VARIABLES
    server,     \* "up", "crashed" by what the plugin never got, "corrupt" by
                \* memory of others overwritten, or "stale": down by a pointer
                \* of the duel to a player who is no longer there
    platform,   \* what the server's libraries offer
    map,        \* "down", "spawned" (rules installed) or "active"
    list,       \* the players to whom the list's file gives the flag MENU
    client,     \* the player of each slot
    userid, lastId,    \* the engine's user ids, and the last one given
    active,     \* the slots whose player has connected to this map
    loaded,     \* the plugin is attached
    rehlds, regame,    \* its two APIs: "unset", "chains" or "hooked"
    rules,      \* g_pGameRules: "null", "current" or "freed"
    data,       \* CUsers::m_Data: players with the flag MENU
    judge,      \* CUsers::m_Flag: slots with the flag MENU
    menu,       \* the slots with a judge's menu open
    saved,      \* CFix::m_flPlayer_start_velocity
    running,    \* the slot between CmdStart and CmdEnd
    speed,      \* and its player's velocity,
    start       \* which was this at CmdStart

engineVars == <<platform, map, list, client, userid, lastId, active>>
apiVars    == <<loaded, rehlds, regame, rules>>
userVars   == <<data, judge, menu>>
fixVars    == <<saved, running, speed, start>>
vars == <<server, engineVars, apiVars, userVars, fixVars>>

-----------------------------------------------------------------------------
(* The server.                                                             *)

\* rehlds: no API, or an API of the version needed; regame: the same, or an
\* API without the interface of its entities; rules: the interface of its game
\* rules has the version needed.
Platform == [rehlds : {"missing", "found"},
             regame : {"missing", "noEntities", "found"},
             rules : BOOLEAN]

Complete == platform = [rehlds |-> "found", regame |-> "found", rules |-> TRUE]

\* Nothing but the frame's command runs while a command runs.
Between == server = "up" /\ running = NoSlot

NoId == [s \in Slot |-> 0]
AnySpeed == CHOOSE v \in Velocity : v \in Straight
Zeroes == [i \in 0..Entries - 1 |-> AnySpeed]

Init ==
    /\ server = "up"
    /\ platform \in Platform
    /\ map = "down"
    /\ list \in SUBSET Person
    /\ client = [s \in Slot |-> NoPerson]
    /\ userid = NoId /\ lastId = 0 /\ active = {}
    /\ loaded = FALSE
    /\ rehlds = "unset" /\ regame = "unset" /\ rules = "null"
    /\ data = {} /\ judge = {} /\ menu = {}
    /\ saved = Zeroes
    /\ running = NoSlot /\ speed = AnySpeed /\ start = AnySpeed

\* Somebody edits the list.
EditList ==
    /\ Between
    /\ list' \in SUBSET Person
    /\ UNCHANGED <<server, platform, map, client, userid, lastId, active>>
    /\ UNCHANGED <<apiVars, userVars, fixVars>>

-----------------------------------------------------------------------------
(* Attaching and detaching.                                                *)

\* How far ReAPI_Init and ReGameDLL_Init come.
ReAPI_Init == IF platform.rehlds = "missing" THEN "unset" ELSE "hooked"
ReGameDLL_Init ==
    CASE platform.regame = "missing"    -> "unset"
      [] platform.regame = "noEntities" -> "chains"
      [] platform.regame = "found"      -> "hooked"

\* Mutant: the list is read at once, for the judges of this map.
EagerMeta_Attach ==
    /\ Between /\ ~loaded /\ map # "spawned"
    /\ loaded' = TRUE
    /\ rehlds' = ReAPI_Init /\ regame' = ReGameDLL_Init
    /\ rules' = "null" /\ data' = list /\ judge' = {} /\ menu' = {}
    /\ saved' = Zeroes
    /\ UNCHANGED <<server, engineVars, running, speed, start>>

\* The results of the two are not looked at; Metamod hands on the hooks of the
\* engine and of the game's library in any case.
Meta_Attach ==
    /\ Between /\ ~loaded /\ map # "spawned"
    /\ loaded' = TRUE
    /\ rehlds' = ReAPI_Init /\ regame' = ReGameDLL_Init
    /\ rules' = "null" /\ data' = {} /\ judge' = {} /\ menu' = {}
    /\ saved' = Zeroes
    /\ UNCHANGED <<server, engineVars, running, speed, start>>

\* ReAPI_Stop and ReGameDLL_Stop use the hook chains, set or not.
Meta_Detach ==
    /\ Between /\ loaded /\ map # "spawned"
    /\ IF rehlds = "unset" \/ regame = "unset"
       THEN server' = "crashed" /\ UNCHANGED <<loaded, rules>>
       ELSE loaded' = FALSE /\ rules' = "null" /\ UNCHANGED server
    /\ UNCHANGED <<engineVars, rehlds, regame, userVars, fixVars>>

Hooked == loaded /\ regame = "hooked"

-----------------------------------------------------------------------------
(* Maps.                                                                   *)

ServerDeactivate ==
    /\ Between /\ map = "active"
    /\ map' = "down"
    /\ active' = {}
    /\ UNCHANGED <<server, platform, list, client, userid, lastId>>
    /\ UNCHANGED <<apiVars, userVars, fixVars>>

\* Mutant: only the first rules are remembered.
OnceInstallGameRules ==
    /\ Between /\ map = "down"
    /\ map' = "spawned"
    /\ rules' = IF Hooked /\ platform.rules /\ rules = "null" THEN "current"
                ELSE IF rules = "current" THEN "freed" ELSE rules
    /\ UNCHANGED <<server, platform, list, client, userid, lastId, active>>
    /\ UNCHANGED <<loaded, rehlds, regame, userVars, fixVars>>

\* Rules of an earlier map are freed when the new ones are installed.
InstallGameRules ==
    /\ Between /\ map = "down"
    /\ map' = "spawned"
    /\ rules' = IF Hooked /\ platform.rules THEN "current"
                ELSE IF rules = "current" THEN "freed" ELSE rules
    /\ UNCHANGED <<server, platform, list, client, userid, lastId, active>>
    /\ UNCHANGED <<loaded, rehlds, regame, userVars, fixVars>>

\* CUsers::ServerActivate: the list is read, or what can be read of it in time
\* (AdminList).
ServerActivate ==
    /\ Between /\ map = "spawned"
    /\ map' = "active"
    /\ IF loaded THEN data' \in SUBSET list /\ judge' = {}
                 ELSE UNCHANGED <<data, judge>>
    /\ UNCHANGED <<server, platform, list, client, userid, lastId, active>>
    /\ UNCHANGED <<apiVars, menu, fixVars>>

-----------------------------------------------------------------------------
(* Players.                                                                *)

\* Mutant: a slot keeps the flags of the player who had it before.
LeftoverPlayerConnect(s, p) ==
    IF loaded /\ p \in data THEN judge' = judge \cup {s} ELSE UNCHANGED judge

\* CUsers::PlayerConnect; the flag "z", which all get, is not kept.
PlayerConnect(s, p) ==
    judge' = IF ~loaded THEN judge
             ELSE IF p \in data THEN judge \cup {s} ELSE judge \ {s}

\* A player takes a slot and gets the next user id, or comes to a new map with
\* the slot and the id that he has.
ClientConnect(s, p) ==
    /\ Between /\ map = "active" /\ s \notin active
    /\ \/ /\ client[s] = NoPerson /\ \A o \in Slot : client[o] # p
          /\ lastId < MaxId
          /\ lastId' = lastId + 1
          /\ client' = [client EXCEPT ![s] = p]
          /\ userid' = [userid EXCEPT ![s] = lastId + 1]
       \/ client[s] = p /\ UNCHANGED <<client, userid, lastId>>
    /\ active' = active \cup {s}
    /\ PlayerConnect(s, p)
    /\ UNCHANGED <<server, platform, map, list, apiVars, data, menu, fixVars>>

\* The plugin's own hook touches the duel only, which may open the menu of its
\* judge.
ClientDisconnect(s) ==
    /\ Between /\ client[s] # NoPerson
    /\ client' = [client EXCEPT ![s] = NoPerson]
    /\ userid' = [userid EXCEPT ![s] = 0]
    /\ active' = active \ {s}
    /\ menu' \in {menu} \cup {menu \cup {j} : j \in IF Hooked THEN judge ELSE {}}
    /\ UNCHANGED <<server, platform, map, list, lastId, apiVars, data, judge, fixVars>>

\* surfduel, which only the hook of the game's commands brings
SurfDuel(s) ==
    /\ Between /\ map = "active" /\ s \in active
    /\ Hooked /\ s \in judge
    /\ menu' = menu \cup {s}
    /\ UNCHANGED <<server, engineVars, apiVars, data, judge, fixVars>>

\* How the server is after an item of a judge's menu: most items use the game
\* rules, and the duelists of an item may be stale (Duel says when).
AfterItem == {server, "stale"} \cup (IF rules = "current" THEN {} ELSE {"crashed"})

\* An item of a judge's menu, of this map or an earlier one, whoever has the
\* slot now: no handler looks at the flags, and some open the next menu.
UseMenu(s) ==
    /\ Between /\ map = "active" /\ s \in active
    /\ Hooked /\ s \in menu
    /\ menu' \in {menu, menu \ {s}}
    /\ server' \in AfterItem
    /\ UNCHANGED <<engineVars, apiVars, data, judge, fixVars>>

-----------------------------------------------------------------------------
(* The stuck fix.                                                          *)

\* Mutant: the first id of all is taken for none.
LateSaves(id) == id > 1

\* The ids whose velocity CmdStart saves
Saves(id) == id > 0

\* The entry of an id is written without a look at the size of the array.
CmdStart(s, v) ==
    /\ Between /\ map = "active" /\ s \in active /\ loaded
    /\ running' = s /\ speed' = v /\ start' = v
    /\ IF Saves(userid[s]) /\ userid[s] >= Entries
       THEN server' = "corrupt" /\ UNCHANGED saved
       ELSE /\ saved' = IF Saves(userid[s]) THEN [saved EXCEPT ![userid[s]] = v] ELSE saved
            /\ UNCHANGED server
    /\ UNCHANGED <<engineVars, apiVars, userVars>>

\* The game moves the player.
Move(v) ==
    /\ server = "up" /\ running # NoSlot
    /\ speed' = v
    /\ UNCHANGED <<server, engineVars, apiVars, userVars, saved, running, start>>

\* The check of the id before is never true (< 0 && > 33).  stuck: the player
\* is on a slope with room above him.
CmdEnd(stuck) ==
    /\ server = "up" /\ running # NoSlot
    /\ running' = NoSlot
    /\ speed' = IF speed \notin Straight /\ stuck THEN saved[userid[running]] ELSE speed
    /\ UNCHANGED <<server, engineVars, apiVars, userVars, saved, start>>

-----------------------------------------------------------------------------
Next ==
    \/ EditList
    \/ Meta_Attach
    \/ Meta_Detach
    \/ ServerDeactivate
    \/ InstallGameRules
    \/ ServerActivate
    \/ \E s \in Slot, p \in Person : ClientConnect(s, p)
    \/ \E s \in Slot : ClientDisconnect(s)
    \/ \E s \in Slot : SurfDuel(s)
    \/ \E s \in Slot : UseMenu(s)
    \/ \E s \in Slot, v \in Velocity : CmdStart(s, v)
    \/ \E v \in Velocity : Move(v)
    \/ \E stuck \in BOOLEAN : CmdEnd(stuck)

Spec == Init /\ [][Next]_vars

-----------------------------------------------------------------------------
(* Properties.                                                             *)

EngineOK ==
    /\ server \in {"up", "crashed", "corrupt", "stale"}
    /\ platform \in Platform
    /\ map \in {"down", "spawned", "active"}
    /\ list \subseteq Person
    /\ client \in [Slot -> Person \cup {NoPerson}]
    /\ lastId \in 0..MaxId
    /\ userid \in [Slot -> 0..lastId]
    /\ \A s \in Slot : client[s] # NoPerson => userid[s] > 0
    /\ active \subseteq {s \in Slot : client[s] # NoPerson}
    /\ map # "active" => active = {}

PluginOK ==
    /\ loaded \in BOOLEAN
    /\ rehlds \in {"unset", "hooked"} /\ regame \in {"unset", "chains", "hooked"}
    /\ rules \in {"null", "current"}
    /\ data \subseteq Person /\ judge \subseteq Slot /\ menu \subseteq Slot

FixOK ==
    /\ saved \in [0..Entries - 1 -> Velocity]
    /\ running \in {NoSlot} \cup Slot
    /\ speed \in Velocity /\ start \in Velocity

\* Every variable has its type, every player has an id, who is on the map is a
\* player, and the plugin never keeps rules that the game has freed.
TypeOK == EngineOK /\ PluginOK /\ FixOK

\* Whoever can judge a duel is, at this moment, a player listed in what the
\* plugin has read of the list for this map, and every such player can: flags do
\* not outlive their map, nor pass on to the next player of a slot, whenever the
\* plugin was attached.
JudgesAreListed ==
    loaded => \A s \in active : s \in judge <=> client[s] \in data

\* The three ways in which the plugin can bring the server down.  Rules or hook
\* chains that it never got: not on a server with all the APIs, where it can be
\* detached at any time and where, attached in the middle of a map, nobody can
\* do what needs the rules until it has them.  More connections than the stuck
\* fix has entries.  And a stale duelist, but only by a judge's menu, so on a
\* server with all the APIs not before a map was started with the plugin.
DownIsExplained ==
    /\ server = "crashed" => ~Complete
    /\ server = "corrupt" => lastId >= Entries
    /\ server = "stale" => Hooked /\ (Complete => rules = "current")

\* The stuck fix leaves a player the speed that the game gave him or the one
\* with which his own command began: never that of an earlier command, nor of
\* another player who has or had the slot or the entry.
FixGivesBackOwnSpeed == [][running # NoSlot /\ running' = NoSlot => speed' \in {speed, start}]_vars

=============================================================================
