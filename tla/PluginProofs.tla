----------------------------- MODULE PluginProofs -----------------------------
(***************************************************************************)
(* Proofs about Plugin, for any slots, players and speeds, any size of the *)
(* array of the stuck fix and any number of connections.                   *)
(***************************************************************************)
EXTENDS Plugin, TLAPS

\* Attached to a server with all the APIs, the plugin has its hooks.
ApisOK == loaded /\ Complete => rehlds = "hooked" /\ regame = "hooked"

\* The rules that it has are those of its hook; when a map has been spawned with
\* the plugin it has them, and until then nobody can judge.
RulesOK ==
    /\ rules = "current" => Hooked /\ platform.rules
    /\ loaded /\ Complete /\ map = "spawned" => rules = "current"
    /\ loaded /\ Complete /\ rules = "null" => data = {} /\ judge = {} /\ menu = {}

\* Between CmdStart and CmdEnd the entry of the player's id holds his speed.
EntryOK ==
    server = "up" /\ running # NoSlot =>
        userid[running] \in 1..Entries - 1 /\ saved[userid[running]] = start

IInv == TypeOK /\ JudgesAreListed /\ DownIsExplained /\ ApisOK /\ RulesOK /\ EntryOK

\* The speed a player starts with is one.
LEMMA StartSpeed == AnySpeed \in Velocity
<1>1. \E v \in Velocity : v \in Straight
  BY Speeds
<1> QED BY <1>1 DEF AnySpeed

\* The plugin starts detached from a server without a map.
LEMMA Initially == Init => IInv
<1> SUFFICES ASSUME Init PROVE IInv
  OBVIOUS
<1> USE DEF Init
<1>1. EngineOK
  BY Absent, Sizes DEF EngineOK, NoId
<1>2. PluginOK
  <2>1. loaded \in BOOLEAN
    OBVIOUS
  <2> QED BY <2>1 DEF PluginOK
<1>3. FixOK
  BY StartSpeed, Sizes DEF FixOK, Zeroes
<1> QED BY <1>1, <1>2, <1>3 DEF IInv, TypeOK, JudgesAreListed, DownIsExplained, ApisOK, RulesOK, EntryOK

\* Editing the list touches nobody.
LEMMA EditListKeeps == IInv /\ EditList => IInv'
<1> SUFFICES ASSUME IInv, EditList PROVE IInv'
  OBVIOUS
<1> USE DEF IInv, EditList, Between, engineVars, apiVars, userVars, fixVars
<1>1. EngineOK'
  BY Absent DEF TypeOK, EngineOK
<1>2. PluginOK'
  BY DEF TypeOK, EngineOK, PluginOK, Hooked, RulesOK, ApisOK
<1>3. FixOK'
  BY Sizes, StartSpeed DEF TypeOK, EngineOK, FixOK
<1>4. JudgesAreListed'
  BY DEF JudgesAreListed, TypeOK, EngineOK, PluginOK
<1>5. DownIsExplained'
  BY Sizes DEF DownIsExplained, Complete, ApisOK, RulesOK, TypeOK, EngineOK, PluginOK, FixOK, Hooked
<1>6. ApisOK'
  BY DEF ApisOK, Complete
<1>7. RulesOK'
  BY DEF RulesOK, ApisOK, Hooked, Complete, TypeOK, PluginOK, EngineOK
<1>8. EntryOK'
  BY Absent, Sizes DEF EntryOK, TypeOK, EngineOK, FixOK
<1> QED BY <1>1, <1>2, <1>3, <1>4, <1>5, <1>6, <1>7, <1>8 DEF TypeOK

\* An attached plugin has its hooks if the APIs are there, no rules, and no judge.
LEMMA AttachKeeps == IInv /\ Meta_Attach => IInv'
<1> SUFFICES ASSUME IInv, Meta_Attach PROVE IInv'
  OBVIOUS
<1> USE DEF IInv, Meta_Attach, ReAPI_Init, ReGameDLL_Init, Zeroes, Platform, Between, engineVars, apiVars, userVars, fixVars
<1>1. EngineOK'
  BY Absent DEF TypeOK, EngineOK
<1>2. PluginOK'
  BY DEF TypeOK, EngineOK, PluginOK, Hooked, RulesOK, ApisOK
<1>3. FixOK'
  BY Sizes, StartSpeed DEF TypeOK, EngineOK, FixOK
<1>4. JudgesAreListed'
  BY DEF JudgesAreListed, TypeOK, EngineOK, PluginOK
<1>5. DownIsExplained'
  BY Sizes DEF DownIsExplained, Complete, ApisOK, RulesOK, TypeOK, EngineOK, PluginOK, FixOK, Hooked
<1>6. ApisOK'
  BY DEF ApisOK, Complete
<1>7. RulesOK'
  BY DEF RulesOK, ApisOK, Hooked, Complete, TypeOK, PluginOK, EngineOK
<1>8. EntryOK'
  BY Absent, Sizes DEF EntryOK, TypeOK, EngineOK, FixOK
<1> QED BY <1>1, <1>2, <1>3, <1>4, <1>5, <1>6, <1>7, <1>8 DEF TypeOK

\* Only hooks that were never set bring the server down.
LEMMA DetachKeeps == IInv /\ Meta_Detach => IInv'
<1> SUFFICES ASSUME IInv, Meta_Detach PROVE IInv'
  OBVIOUS
<1> USE DEF IInv, Meta_Detach, Between, engineVars, apiVars, userVars, fixVars
<1>1. EngineOK'
  BY Absent DEF TypeOK, EngineOK
<1>2. PluginOK'
  BY DEF TypeOK, EngineOK, PluginOK, Hooked, RulesOK, ApisOK
<1>3. FixOK'
  BY Sizes, StartSpeed DEF TypeOK, EngineOK, FixOK
<1>4. JudgesAreListed'
  BY DEF JudgesAreListed, TypeOK, EngineOK, PluginOK
<1>5. DownIsExplained'
  BY Sizes DEF DownIsExplained, Complete, ApisOK, RulesOK, TypeOK, EngineOK, PluginOK, FixOK, Hooked
<1>6. ApisOK'
  BY DEF ApisOK, Complete
<1>7. RulesOK'
  BY DEF RulesOK, ApisOK, Hooked, Complete, TypeOK, PluginOK, EngineOK
<1>8. EntryOK'
  BY Absent, Sizes DEF EntryOK, TypeOK, EngineOK, FixOK
<1> QED BY <1>1, <1>2, <1>3, <1>4, <1>5, <1>6, <1>7, <1>8 DEF TypeOK

\* A map ends.
LEMMA DeactivateKeeps == IInv /\ ServerDeactivate => IInv'
<1> SUFFICES ASSUME IInv, ServerDeactivate PROVE IInv'
  OBVIOUS
<1> USE DEF IInv, ServerDeactivate, Between, engineVars, apiVars, userVars, fixVars
<1>1. EngineOK'
  BY Absent DEF TypeOK, EngineOK
<1>2. PluginOK'
  BY DEF TypeOK, EngineOK, PluginOK, Hooked, RulesOK, ApisOK
<1>3. FixOK'
  BY Sizes, StartSpeed DEF TypeOK, EngineOK, FixOK
<1>4. JudgesAreListed'
  BY DEF JudgesAreListed, TypeOK, EngineOK, PluginOK
<1>5. DownIsExplained'
  BY Sizes DEF DownIsExplained, Complete, ApisOK, RulesOK, TypeOK, EngineOK, PluginOK, FixOK, Hooked
<1>6. ApisOK'
  BY DEF ApisOK, Complete
<1>7. RulesOK'
  BY DEF RulesOK, ApisOK, Hooked, Complete, TypeOK, PluginOK, EngineOK
<1>8. EntryOK'
  BY Absent, Sizes DEF EntryOK, TypeOK, EngineOK, FixOK
<1> QED BY <1>1, <1>2, <1>3, <1>4, <1>5, <1>6, <1>7, <1>8 DEF TypeOK

\* The rules that are freed are replaced by the hook, or were never known.
LEMMA InstallKeeps == IInv /\ InstallGameRules => IInv'
<1> SUFFICES ASSUME IInv, InstallGameRules PROVE IInv'
  OBVIOUS
<1> USE DEF IInv, InstallGameRules, Between, engineVars, apiVars, userVars, fixVars
<1>1. EngineOK'
  BY Absent DEF TypeOK, EngineOK
<1>2. PluginOK'
  BY DEF TypeOK, EngineOK, PluginOK, Hooked, RulesOK, ApisOK
<1>3. FixOK'
  BY Sizes, StartSpeed DEF TypeOK, EngineOK, FixOK
<1>4. JudgesAreListed'
  BY DEF JudgesAreListed, TypeOK, EngineOK, PluginOK
<1>5. DownIsExplained'
  BY Sizes DEF DownIsExplained, Complete, ApisOK, RulesOK, TypeOK, EngineOK, PluginOK, FixOK, Hooked
<1>6. ApisOK'
  BY DEF ApisOK, Complete
<1>7. RulesOK'
  BY DEF RulesOK, ApisOK, Hooked, Complete, TypeOK, PluginOK, EngineOK
<1>8. EntryOK'
  BY Absent, Sizes DEF EntryOK, TypeOK, EngineOK, FixOK
<1> QED BY <1>1, <1>2, <1>3, <1>4, <1>5, <1>6, <1>7, <1>8 DEF TypeOK

\* The list is read when the rules of the map are known.
LEMMA ActivateKeeps == IInv /\ ServerActivate => IInv'
<1> SUFFICES ASSUME IInv, ServerActivate PROVE IInv'
  OBVIOUS
<1> USE DEF IInv, ServerActivate, Between, engineVars, apiVars, userVars, fixVars
<1>1. EngineOK'
  BY Absent DEF TypeOK, EngineOK
<1>2. PluginOK'
  BY DEF TypeOK, EngineOK, PluginOK, Hooked, RulesOK, ApisOK
<1>3. FixOK'
  BY Sizes, StartSpeed DEF TypeOK, EngineOK, FixOK
<1>4. JudgesAreListed'
  BY DEF JudgesAreListed, TypeOK, EngineOK, PluginOK
<1>5. DownIsExplained'
  BY Sizes DEF DownIsExplained, Complete, ApisOK, RulesOK, TypeOK, EngineOK, PluginOK, FixOK, Hooked
<1>6. ApisOK'
  BY DEF ApisOK, Complete
<1>7. RulesOK'
  BY DEF RulesOK, ApisOK, Hooked, Complete, TypeOK, PluginOK, EngineOK
<1>8. EntryOK'
  BY Absent, Sizes DEF EntryOK, TypeOK, EngineOK, FixOK
<1> QED BY <1>1, <1>2, <1>3, <1>4, <1>5, <1>6, <1>7, <1>8 DEF TypeOK

\* A player who connects gets the flags of his own entry.
LEMMA ConnectKeeps == IInv /\ (\E s \in Slot, p \in Person : ClientConnect(s, p)) => IInv'
<1> SUFFICES ASSUME IInv, NEW s \in Slot, NEW p \in Person, ClientConnect(s, p) PROVE IInv'
  OBVIOUS
<1> USE DEF IInv, ClientConnect, PlayerConnect, Between, engineVars, apiVars, userVars, fixVars
<1>1. EngineOK'
  <2> USE DEF TypeOK, EngineOK
  <2>1. server' \in {"up", "crashed", "corrupt", "stale"} /\ platform' \in Platform
        /\ map' = "active" /\ list' \subseteq Person
    OBVIOUS
  <2>2. client' \in [Slot -> Person \cup {NoPerson}]
    OBVIOUS
  <2>3. lastId' \in 0..MaxId /\ userid' \in [Slot -> 0..lastId']
    BY Sizes
  <2>4. client[s]' # NoPerson /\ userid[s]' > 0
    <3>1. CASE client[s] = NoPerson /\ client' = [client EXCEPT ![s] = p]
               /\ userid' = [userid EXCEPT ![s] = lastId + 1]
      BY <3>1, Absent
    <3>2. CASE client[s] = p /\ UNCHANGED <<client, userid, lastId>>
      BY <3>2, Absent
    <3> QED BY <3>1, <3>2
  <2>5. \A o \in Slot \ {s} : client'[o] = client[o] /\ userid'[o] = userid[o]
    OBVIOUS
  <2>6. /\ \A o \in Slot : client'[o] # NoPerson => userid'[o] > 0
        /\ active' \subseteq {o \in Slot : client'[o] # NoPerson}
    BY <2>4, <2>5
  <2> QED BY <2>1, <2>2, <2>3, <2>6
<1>2. PluginOK'
  <2>1. judge' \subseteq Slot
    BY DEF TypeOK, PluginOK
  <2> QED BY <2>1 DEF TypeOK, PluginOK
<1>3. FixOK'
  BY Sizes, StartSpeed DEF TypeOK, EngineOK, FixOK
<1>4. JudgesAreListed'
  BY DEF JudgesAreListed, TypeOK, EngineOK, PluginOK
<1>5. DownIsExplained'
  BY Sizes DEF DownIsExplained, Complete, ApisOK, RulesOK, TypeOK, EngineOK, PluginOK, FixOK, Hooked
<1>6. ApisOK'
  BY DEF ApisOK, Complete
<1>7. RulesOK'
  BY DEF RulesOK, ApisOK, Hooked, Complete, TypeOK, PluginOK, EngineOK
<1>8. EntryOK'
  BY Absent, Sizes DEF EntryOK, TypeOK, EngineOK, FixOK
<1> QED BY <1>1, <1>2, <1>3, <1>4, <1>5, <1>6, <1>7, <1>8 DEF TypeOK

\* A player who leaves is no longer on the map.
LEMMA DisconnectKeeps == IInv /\ (\E s \in Slot : ClientDisconnect(s)) => IInv'
<1> SUFFICES ASSUME IInv, NEW s \in Slot, ClientDisconnect(s) PROVE IInv'
  OBVIOUS
<1> USE DEF IInv, ClientDisconnect, Between, engineVars, apiVars, userVars, fixVars
<1>1. EngineOK'
  BY Absent DEF TypeOK, EngineOK
<1>2. PluginOK'
  <2>1. menu' \subseteq menu \cup judge
    OBVIOUS
  <2> QED BY <2>1 DEF TypeOK, PluginOK
<1>3. FixOK'
  BY Sizes, StartSpeed DEF TypeOK, EngineOK, FixOK
<1>4. JudgesAreListed'
  BY DEF JudgesAreListed, TypeOK, EngineOK, PluginOK
<1>5. DownIsExplained'
  BY Sizes DEF DownIsExplained, Complete, ApisOK, RulesOK, TypeOK, EngineOK, PluginOK, FixOK, Hooked
<1>6. ApisOK'
  BY DEF ApisOK, Complete
<1>7. RulesOK'
  <2>1. menu' \subseteq menu \cup judge
    OBVIOUS
  <2> QED BY <2>1 DEF RulesOK, ApisOK, Hooked, Complete, TypeOK, PluginOK, EngineOK
<1>8. EntryOK'
  BY Absent, Sizes DEF EntryOK, TypeOK, EngineOK, FixOK
<1> QED BY <1>1, <1>2, <1>3, <1>4, <1>5, <1>6, <1>7, <1>8 DEF TypeOK

\* Only a judge opens the menu.
LEMMA SurfduelKeeps == IInv /\ (\E s \in Slot : SurfDuel(s)) => IInv'
<1> SUFFICES ASSUME IInv, NEW s \in Slot, SurfDuel(s) PROVE IInv'
  OBVIOUS
<1> USE DEF IInv, SurfDuel, Between, engineVars, apiVars, userVars, fixVars
<1>1. EngineOK'
  BY Absent DEF TypeOK, EngineOK
<1>2. PluginOK'
  BY DEF TypeOK, EngineOK, PluginOK, Hooked, RulesOK, ApisOK
<1>3. FixOK'
  BY Sizes, StartSpeed DEF TypeOK, EngineOK, FixOK
<1>4. JudgesAreListed'
  BY DEF JudgesAreListed, TypeOK, EngineOK, PluginOK
<1>5. DownIsExplained'
  BY Sizes DEF DownIsExplained, Complete, ApisOK, RulesOK, TypeOK, EngineOK, PluginOK, FixOK, Hooked
<1>6. ApisOK'
  BY DEF ApisOK, Complete
<1>7. RulesOK'
  BY DEF RulesOK, ApisOK, Hooked, Complete, TypeOK, PluginOK, EngineOK
<1>8. EntryOK'
  BY Absent, Sizes DEF EntryOK, TypeOK, EngineOK, FixOK
<1> QED BY <1>1, <1>2, <1>3, <1>4, <1>5, <1>6, <1>7, <1>8 DEF TypeOK

\* A menu of any age is used by a plugin that has its rules, or on a server
\* without all the APIs.
LEMMA UseKeeps == IInv /\ (\E s \in Slot : UseMenu(s)) => IInv'
<1> SUFFICES ASSUME IInv, NEW s \in Slot, UseMenu(s) PROVE IInv'
  OBVIOUS
<1> USE DEF IInv, UseMenu, AfterItem, Between, engineVars, apiVars, userVars, fixVars
<1>1. EngineOK'
  BY Absent DEF TypeOK, EngineOK
<1>2. PluginOK'
  BY DEF TypeOK, EngineOK, PluginOK, Hooked, RulesOK, ApisOK
<1>3. FixOK'
  BY Sizes, StartSpeed DEF TypeOK, EngineOK, FixOK
<1>4. JudgesAreListed'
  BY DEF JudgesAreListed, TypeOK, EngineOK, PluginOK
<1>5. DownIsExplained'
  BY Sizes DEF DownIsExplained, Complete, ApisOK, RulesOK, TypeOK, EngineOK, PluginOK, FixOK, Hooked
<1>6. ApisOK'
  BY DEF ApisOK, Complete
<1>7. RulesOK'
  BY DEF RulesOK, ApisOK, Hooked, Complete, TypeOK, PluginOK, EngineOK
<1>8. EntryOK'
  BY Absent, Sizes DEF EntryOK, TypeOK, EngineOK, FixOK
<1> QED BY <1>1, <1>2, <1>3, <1>4, <1>5, <1>6, <1>7, <1>8 DEF TypeOK

\* The speed is saved, or there are as many ids as entries.
LEMMA StartKeeps == IInv /\ (\E s \in Slot, v \in Velocity : CmdStart(s, v)) => IInv'
<1> SUFFICES ASSUME IInv, NEW s \in Slot, NEW v \in Velocity, CmdStart(s, v) PROVE IInv'
  OBVIOUS
<1> USE DEF IInv, CmdStart, Saves, Between, engineVars, apiVars, userVars, fixVars
<1>1. EngineOK'
  BY Absent DEF TypeOK, EngineOK
<1>2. PluginOK'
  BY DEF TypeOK, EngineOK, PluginOK, Hooked, RulesOK, ApisOK
<1>3. FixOK'
  BY Sizes, StartSpeed DEF TypeOK, EngineOK, FixOK
<1>4. JudgesAreListed'
  BY DEF JudgesAreListed, TypeOK, EngineOK, PluginOK
<1>5. DownIsExplained'
  BY Sizes DEF DownIsExplained, Complete, ApisOK, RulesOK, TypeOK, EngineOK, PluginOK, FixOK, Hooked
<1>6. ApisOK'
  BY DEF ApisOK, Complete
<1>7. RulesOK'
  BY DEF RulesOK, ApisOK, Hooked, Complete, TypeOK, PluginOK, EngineOK
<1>8. EntryOK'
  BY Absent, Sizes DEF EntryOK, TypeOK, EngineOK, FixOK
<1> QED BY <1>1, <1>2, <1>3, <1>4, <1>5, <1>6, <1>7, <1>8 DEF TypeOK

\* The game moves the player.
LEMMA MovingKeeps == IInv /\ (\E v \in Velocity : Move(v)) => IInv'
<1> SUFFICES ASSUME IInv, NEW v \in Velocity, Move(v) PROVE IInv'
  OBVIOUS
<1> USE DEF IInv, Move, Between, engineVars, apiVars, userVars, fixVars
<1>1. EngineOK'
  BY Absent DEF TypeOK, EngineOK
<1>2. PluginOK'
  BY DEF TypeOK, EngineOK, PluginOK, Hooked, RulesOK, ApisOK
<1>3. FixOK'
  BY Sizes, StartSpeed DEF TypeOK, EngineOK, FixOK
<1>4. JudgesAreListed'
  BY DEF JudgesAreListed, TypeOK, EngineOK, PluginOK
<1>5. DownIsExplained'
  BY Sizes DEF DownIsExplained, Complete, ApisOK, RulesOK, TypeOK, EngineOK, PluginOK, FixOK, Hooked
<1>6. ApisOK'
  BY DEF ApisOK, Complete
<1>7. RulesOK'
  BY DEF RulesOK, ApisOK, Hooked, Complete, TypeOK, PluginOK, EngineOK
<1>8. EntryOK'
  BY Absent, Sizes DEF EntryOK, TypeOK, EngineOK, FixOK
<1> QED BY <1>1, <1>2, <1>3, <1>4, <1>5, <1>6, <1>7, <1>8 DEF TypeOK

\* A command ends.
LEMMA EndOfCommandKeeps == IInv /\ (\E stuck \in BOOLEAN : CmdEnd(stuck)) => IInv'
<1> SUFFICES ASSUME IInv, NEW stuck \in BOOLEAN, CmdEnd(stuck) PROVE IInv'
  OBVIOUS
<1> USE DEF IInv, CmdEnd, Between, engineVars, apiVars, userVars, fixVars
<1>1. EngineOK'
  BY Absent DEF TypeOK, EngineOK
<1>2. PluginOK'
  BY DEF TypeOK, EngineOK, PluginOK, Hooked, RulesOK, ApisOK
<1>3. FixOK'
  BY DEF TypeOK, EngineOK, FixOK, EntryOK
<1>4. JudgesAreListed'
  BY DEF JudgesAreListed, TypeOK, EngineOK, PluginOK
<1>5. DownIsExplained'
  BY Sizes DEF DownIsExplained, Complete, ApisOK, RulesOK, TypeOK, EngineOK, PluginOK, FixOK, Hooked
<1>6. ApisOK'
  BY DEF ApisOK, Complete
<1>7. RulesOK'
  BY DEF RulesOK, ApisOK, Hooked, Complete, TypeOK, PluginOK, EngineOK
<1>8. EntryOK'
  BY Absent, Sizes DEF EntryOK, TypeOK, EngineOK, FixOK
<1> QED BY <1>1, <1>2, <1>3, <1>4, <1>5, <1>6, <1>7, <1>8 DEF TypeOK

-----------------------------------------------------------------------------
\* No step of the server or of the plugin breaks the invariant.
LEMMA Preserved == IInv /\ [Next]_vars => IInv'
<1> SUFFICES ASSUME IInv, [Next]_vars PROVE IInv'
  OBVIOUS
<1>1. CASE Next
  BY <1>1, EditListKeeps, AttachKeeps, DetachKeeps, DeactivateKeeps, InstallKeeps,
     ActivateKeeps, ConnectKeeps, DisconnectKeeps, SurfduelKeeps, UseKeeps,
     StartKeeps, MovingKeeps, EndOfCommandKeeps DEF Next
<1>2. CASE UNCHANGED vars
  <2> USE <1>2 DEF vars, engineVars, apiVars, userVars, fixVars, IInv
  <2>1. TypeOK'
    BY DEF TypeOK, EngineOK, PluginOK, FixOK
  <2>2. JudgesAreListed' /\ DownIsExplained'
    BY DEF JudgesAreListed, DownIsExplained, Hooked, Complete
  <2>3. ApisOK' /\ RulesOK' /\ EntryOK'
    BY DEF ApisOK, RulesOK, EntryOK, Hooked, Complete
  <2> QED BY <2>1, <2>2, <2>3
<1> QED BY <1>1, <1>2

\* The invariant holds in every state of the plugin's life.
LEMMA Invariant == Spec => []IInv
<1> QED BY Initially, Preserved, PTL DEF Spec

\* Every variable keeps its type, and freed game rules are never kept.
THEOREM TypeCorrect == Spec => []TypeOK
<1>1. IInv => TypeOK
  BY DEF IInv
<1> QED BY Invariant, <1>1, PTL

\* The judges are exactly the players on the map whom the list lists, as far as
\* the plugin has read it, however often the plugin is attached and whoever
\* takes the slots.
THEOREM JudgesAreRight == Spec => []JudgesAreListed
<1>1. IInv => JudgesAreListed
  BY DEF IInv
<1> QED BY Invariant, <1>1, PTL

\* With all the APIs, and fewer connections than entries, the plugin brings the
\* server down only by a judge's menu about a stale duelist.
THEOREM DownsAreExplained == Spec => []DownIsExplained
<1>1. IInv => DownIsExplained
  BY DEF IInv
<1> QED BY Invariant, <1>1, PTL

\* The speed that a step of the server leaves a player at the end of a command.
LEMMA OwnSpeed == IInv /\ [Next]_vars =>
                    (running # NoSlot /\ running' = NoSlot => speed' \in {speed, start})
<1> SUFFICES ASSUME IInv, [Next]_vars, running # NoSlot, running' = NoSlot
             PROVE  speed' \in {speed, start}
  OBVIOUS
<1>1. PICK stuck \in BOOLEAN : CmdEnd(stuck)
  BY Absent DEF Next, vars, engineVars, fixVars, Between, EditList, Meta_Attach, Meta_Detach,
     ServerDeactivate, InstallGameRules, ServerActivate, ClientConnect, ClientDisconnect,
     SurfDuel, UseMenu, CmdStart, Move
<1> QED BY <1>1 DEF CmdEnd, IInv, EntryOK

\* The stuck fix gives back no other speed than that of the same command.
THEOREM FixIsRight == Spec => FixGivesBackOwnSpeed
<1>1. IInv /\ [Next]_vars => [running # NoSlot /\ running' = NoSlot => speed' \in {speed, start}]_vars
  BY OwnSpeed
<1> QED BY Invariant, <1>1, PTL DEF Spec, FixGivesBackOwnSpeed

=============================================================================
