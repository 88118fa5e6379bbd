-------------------------------- MODULE Task --------------------------------
(***************************************************************************)
(* The task scheduler CTask: an unordered_map from task indices to tasks,  *)
(* swept once per frame.  A task's callback runs inside the sweep and may  *)
(* call the scheduler again, so Create and Remove interleave with the      *)
(* sweep although everything happens on one thread.  The plugin creates    *)
(* one task so far, and its callback calls nothing here; the module admits *)
(* every use that the interface offers.                                    *)
(*                                                                         *)
(* Time is counted in frames.                                              *)
(***************************************************************************)
EXTENDS Integers

CONSTANTS
    Index,      \* TASK_MATCH_START, TASK_HUD_STOP, TASK_DUEL_UNPAUSE, ...
    NoIndex,
    Delay,      \* the delays tasks are created with
    MaxTime     \* bound: length of a map, in frames

ASSUME IndexAssumption == NoIndex \notin Index
ASSUME DelayAssumption == Delay \subseteq Nat
ASSUME TimeAssumption == MaxTime \in Nat

VARIABLES
    data,       \* m_Data
    time,       \* gpGlobals->time
    active,     \* the engine is between ServerActivate and ServerDeactivate
    inFrame,    \* ServerFrame is running
    todo,       \* the keys its iterator has still to reach
    calling,    \* the task whose callback is running
    \* history of the sweep, for the properties
    fresh,      \* the tasks created by its callbacks so far
    grown       \* one of them was a new key

sweepVars == <<inFrame, todo, calling>>
vars == <<data, time, active, sweepVars, fresh, grown>>

-----------------------------------------------------------------------------
TaskInfo == [Time : Nat, EndTime : Nat, Loop : BOOLEAN, Free : BOOLEAN]

Keys == DOMAIN data

\* Mutant: a removed task is run.
FreeDue(i) == time >= data[i].EndTime

\* The condition of ServerFrame
Due(i) == time >= data[i].EndTime /\ ~data[i].Free

\* A task as ServerFrame leaves it before it runs the callback
Fired(task) ==
    IF task.Loop THEN [task EXCEPT !.EndTime = time + task.Time]
                 ELSE [task EXCEPT !.Free = TRUE]

Init ==
    /\ data = << >>
    /\ time = 0
    /\ active = FALSE
    /\ inFrame = FALSE
    /\ todo = {}
    /\ calling = NoIndex
    /\ fresh = {}
    /\ grown = FALSE

-----------------------------------------------------------------------------
(* The calls, from anywhere between frames and from callbacks in a frame.  *)

CanCall == inFrame => calling # NoIndex

\* What the iterator of the sweep still reaches after an insertion.  A new key
\* may rehash the table; the iterator is invalid by the standard and, in the
\* node-based tables of the compilers in use, goes on from its node in the new
\* order, which may repeat keys and miss others.
Insertion(i) ==
    IF inFrame /\ i \notin Keys
    THEN grown' = TRUE /\ todo' \in SUBSET ((Keys \cup {i}) \ {calling})
    ELSE UNCHANGED <<grown, todo>>

\* Create with a callback; without one it does nothing.
Create(i, delay, loop) ==
    /\ CanCall
    /\ time + delay <= MaxTime
    /\ data' = [j \in Keys \cup {i} |->
                   IF j = i THEN [Time |-> delay, EndTime |-> time + delay,
                                  Loop |-> loop, Free |-> FALSE]
                            ELSE data[j]]
    /\ Insertion(i)
    /\ fresh' = IF inFrame THEN fresh \cup {i} ELSE fresh
    /\ UNCHANGED <<time, active, inFrame, calling>>

\* Mutant: the entry is erased, under the iterator if a callback removes it.
EraseRemove(i) ==
    /\ CanCall
    /\ i \in Keys
    /\ data' = [j \in Keys \ {i} |-> data[j]]
    /\ UNCHANGED <<time, active, sweepVars, fresh, grown>>

\* Remove of a key in the table
Remove(i) ==
    /\ CanCall
    /\ i \in Keys
    /\ data' = [data EXCEPT ![i].Free = TRUE]
    /\ UNCHANGED <<time, active, sweepVars, fresh, grown>>

-----------------------------------------------------------------------------
(* ServerFrame, step by step.                                              *)

\* The engine advances the time and calls StartFrame.
FrameBegin ==
    /\ active
    /\ ~inFrame
    /\ time' = IF time < MaxTime THEN time + 1 ELSE time
    /\ inFrame' = TRUE
    /\ todo' = Keys
    /\ fresh' = {}
    /\ grown' = FALSE
    /\ UNCHANGED <<data, active, calling>>

\* Mutant: the sweep ends at the first task that is not due.
ShortSkip(i) ==
    /\ inFrame
    /\ calling = NoIndex
    /\ i \in todo
    /\ ~Due(i)
    /\ todo' = {}
    /\ UNCHANGED <<data, time, active, inFrame, calling, fresh, grown>>

\* The iterator reaches a task that is not due.
Skip(i) ==
    /\ inFrame
    /\ calling = NoIndex
    /\ i \in todo
    /\ ~Due(i)
    /\ todo' = todo \ {i}
    /\ UNCHANGED <<data, time, active, inFrame, calling, fresh, grown>>

\* The iterator reaches a task that is due; its callback starts.
Run(i) ==
    /\ inFrame
    /\ calling = NoIndex
    /\ i \in todo
    /\ Due(i)
    /\ todo' = todo \ {i}
    /\ data' = [data EXCEPT ![i] = Fired(data[i])]
    /\ calling' = i
    /\ UNCHANGED <<time, active, inFrame, fresh, grown>>

CallbackReturns ==
    /\ calling # NoIndex
    /\ calling' = NoIndex
    /\ UNCHANGED <<data, time, active, inFrame, todo, fresh, grown>>

FrameEnd ==
    /\ inFrame
    /\ calling = NoIndex
    /\ todo = {}
    /\ inFrame' = FALSE
    /\ fresh' = {}
    /\ grown' = FALSE
    /\ UNCHANGED <<data, time, active, todo, calling>>

-----------------------------------------------------------------------------
(* Both ends of a map.                                                     *)

ServerDeactivate ==
    /\ active
    /\ ~inFrame
    /\ active' = FALSE
    /\ data' = << >>
    /\ UNCHANGED <<time, sweepVars, fresh, grown>>

\* The engine has reset its clock; callers may have created tasks meanwhile.
ServerActivate ==
    /\ ~active
    /\ ~inFrame
    /\ active' = TRUE
    /\ data' = << >>
    /\ time' = 0
    /\ UNCHANGED <<sweepVars, fresh, grown>>

-----------------------------------------------------------------------------
Visit == \E i \in todo : Skip(i) \/ Run(i)

Next ==
    \/ \E i \in Index, delay \in Delay, loop \in BOOLEAN : Create(i, delay, loop)
    \/ \E i \in Index : Remove(i)
    \/ FrameBegin
    \/ Visit
    \/ CallbackReturns
    \/ FrameEnd
    \/ ServerDeactivate
    \/ ServerActivate

\* While a map is on the engine calls StartFrame again and again, the sweep
\* goes on, and callbacks return.
Fairness ==
    /\ WF_vars(FrameBegin)
    /\ WF_vars(Visit)
    /\ WF_vars(CallbackReturns)
    /\ WF_vars(FrameEnd)

Safety == Init /\ [][Next]_vars
Spec == Safety /\ Fairness

-----------------------------------------------------------------------------
(* Properties.                                                             *)

\* Every variable has its type; the sweep's variables are idle between frames.
TypeOK ==
    /\ Keys \subseteq Index /\ data \in [Keys -> TaskInfo]
    /\ time \in Nat
    /\ active \in BOOLEAN /\ inFrame \in BOOLEAN /\ grown \in BOOLEAN
    /\ todo \subseteq Keys /\ fresh \subseteq Keys
    /\ calling \in Index \cup {NoIndex}
    /\ ~inFrame => todo = {} /\ fresh = {} /\ calling = NoIndex

\* The alarm that index i stands for
AlarmOf(i) ==
    IF i \in Keys /\ ~data[i].Free
    THEN [set |-> TRUE, at |-> data[i].EndTime, every |-> data[i].Time,
          loop |-> data[i].Loop]
    ELSE [set |-> FALSE, at |-> 0, every |-> 0, loop |-> FALSE]

A == INSTANCE Alarms WITH alarm <- [i \in Index |-> AlarmOf(i)]

\* The table, its free flags and its sweep implement alarms: whatever the
\* callbacks do to the table being swept, a task runs only when it is set and
\* its time has come, a callback's own Create is not lost, and a removed or
\* replaced task does not run.
ImplementsAlarms == A!Spec

\* A sweep misses no task that is due, unless a callback has just created it,
\* has inserted a new key, or it is a loop without delay that has run.
SweepMissesNone ==
    inFrame /\ ~grown =>
        \A i \in Keys :
            Due(i) => i \in todo \cup fresh \/ (data[i].Loop /\ data[i].Time = 0)

\* A task whose time has come is called, or removed or replaced by a later
\* one, or the map ends, even if insertions make sweep after sweep miss it.
EveryTaskRuns ==
    \A i \in Index :
        (active /\ i \in Keys /\ Due(i)) ~> (~active \/ calling = i \/ i \notin Keys \/ ~Due(i))

=============================================================================
