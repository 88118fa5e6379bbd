----------------------------- MODULE TaskProofs -----------------------------
(***************************************************************************)
(* Proofs about the scheduler, for any indices, delays and length of map.  *)
(***************************************************************************)
EXTENDS Task, Sequences, TLAPS

\* The inductive invariant: both state properties of the module.
IInv == TypeOK /\ SweepMissesNone

-----------------------------------------------------------------------------
\* The cleared table has no key.
LEMMA NoData == DOMAIN << >> = {} /\ << >> \in [{} -> TaskInfo]
<1>1. << >> \in Seq(TaskInfo)
  OBVIOUS
<1>2. << >> \in [1..Len(<< >>) -> TaskInfo]
  BY <1>1
<1>3. Len(<< >>) = 0
  OBVIOUS
<1> QED BY <1>2, <1>3

\* A task marked by the sweep is a task, of the same delay and kind.
LEMMA FiredType ==
    ASSUME NEW task \in TaskInfo, time \in Nat
    PROVE  /\ Fired(task) \in TaskInfo
           /\ Fired(task).Loop = task.Loop /\ Fired(task).Time = task.Time
           /\ task.Loop => Fired(task).EndTime = time + task.Time
           /\ task.Loop => Fired(task).Free = task.Free
           /\ ~task.Loop => Fired(task).Free
<1>1. /\ task.Time \in Nat /\ task.EndTime \in Nat
      /\ task.Loop \in BOOLEAN /\ task.Free \in BOOLEAN
  BY DEF TaskInfo
<1>2. CASE task.Loop
  <2>1. Fired(task) = [task EXCEPT !.EndTime = time + task.Time]
    BY <1>2 DEF Fired
  <2>2. time + task.Time \in Nat
    BY <1>1
  <2> QED BY <1>1, <1>2, <2>1, <2>2 DEF TaskInfo
<1>3. CASE ~task.Loop
  <2>1. Fired(task) = [task EXCEPT !.Free = TRUE]
    BY <1>3 DEF Fired
  <2> QED BY <1>1, <1>3, <2>1 DEF TaskInfo
<1> QED BY <1>1, <1>2, <1>3

\* Create leaves a task at its key and the others alone.
LEMMA CreateType ==
    ASSUME TypeOK, NEW i \in Index, NEW delay \in Delay, NEW loop \in BOOLEAN,
           Create(i, delay, loop)
    PROVE  /\ DOMAIN data' = Keys \cup {i}
           /\ data' \in [Keys \cup {i} -> TaskInfo]
           /\ \A j \in Keys \ {i} : data'[j] = data[j]
           /\ data'[i] = [Time |-> delay, EndTime |-> time + delay,
                          Loop |-> loop, Free |-> FALSE]
BY DelayAssumption DEF Create, TypeOK, TaskInfo, Keys

LEMMA StepTypeOK ==
    ASSUME TypeOK, [Next]_vars
    PROVE  TypeOK'
<1> USE IndexAssumption
<1>1. ASSUME NEW i \in Index, NEW delay \in Delay, NEW loop \in BOOLEAN,
             Create(i, delay, loop)
      PROVE  TypeOK'
  <2>1. /\ Keys' = Keys \cup {i}
        /\ data' \in [Keys' -> TaskInfo]
    BY <1>1, CreateType DEF Keys
  <2>2. todo' \subseteq Keys' /\ grown' \in BOOLEAN
    BY <1>1, <2>1 DEF Create, Insertion, TypeOK
  <2>3. fresh' \subseteq Keys'
    BY <1>1, <2>1 DEF Create, TypeOK
  <2>4. ~inFrame' => todo' = {} /\ fresh' = {} /\ calling' = NoIndex
    BY <1>1 DEF Create, Insertion, TypeOK
  <2> QED BY <1>1, <2>1, <2>2, <2>3, <2>4 DEF Create, TypeOK
<1>2. ASSUME NEW i \in Index, Remove(i) PROVE TypeOK'
  <2>1. /\ Keys' = Keys
        /\ data' \in [Keys -> TaskInfo]
    <3>1. i \in Keys /\ data[i] \in TaskInfo
      BY <1>2 DEF Remove, TypeOK
    <3>2. [data[i] EXCEPT !.Free = TRUE] \in TaskInfo
      BY <3>1 DEF TaskInfo
    <3> QED BY <1>2, <3>1, <3>2 DEF Remove, TypeOK, Keys
  <2> QED BY <1>2, <2>1 DEF Remove, TypeOK, sweepVars
<1>3. CASE FrameBegin
  <2>1. time' \in Nat
    BY <1>3 DEF FrameBegin, TypeOK
  <2>2. Keys' = Keys /\ todo' \subseteq Keys /\ data' \in [Keys -> TaskInfo]
    BY <1>3 DEF FrameBegin, TypeOK, Keys
  <2> QED BY <1>3, <2>1, <2>2 DEF FrameBegin, TypeOK
<1>4. ASSUME NEW i \in todo, Skip(i) PROVE TypeOK'
  BY <1>4 DEF Skip, TypeOK, Keys
<1>5. ASSUME NEW i \in todo, Run(i) PROVE TypeOK'
  <2>1. i \in Keys /\ data[i] \in TaskInfo /\ time \in Nat
    BY DEF TypeOK, Keys
  <2>2. Fired(data[i]) \in TaskInfo
    BY <2>1, FiredType
  <2>3. Keys' = Keys /\ data' \in [Keys -> TaskInfo]
    BY <1>5, <2>1, <2>2 DEF Run, TypeOK, Keys
  <2> QED BY <1>5, <2>1, <2>3 DEF Run, TypeOK
<1>6. CASE CallbackReturns
  BY <1>6 DEF CallbackReturns, TypeOK, Keys
<1>7. CASE FrameEnd
  BY <1>7 DEF FrameEnd, TypeOK, Keys
<1>8. CASE ServerDeactivate
  BY <1>8, NoData DEF ServerDeactivate, TypeOK, Keys, sweepVars
<1>9. CASE ServerActivate
  BY <1>9, NoData DEF ServerActivate, TypeOK, Keys, sweepVars
<1>10. CASE UNCHANGED vars
  BY <1>10 DEF vars, sweepVars, TypeOK, Keys
<1> QED
  BY <1>1, <1>2, <1>3, <1>4, <1>5, <1>6, <1>7, <1>8, <1>9, <1>10
  DEF Next, Visit

-----------------------------------------------------------------------------
(* The sweep misses none.                                                  *)

LEMMA StepSweepMissesNone ==
    ASSUME TypeOK, TypeOK', SweepMissesNone, [Next]_vars
    PROVE  SweepMissesNone'
<1> USE IndexAssumption
<1> SUFFICES ASSUME inFrame', ~grown', NEW i \in Keys', Due(i)'
             PROVE  \/ i \in todo' \cup fresh'
                    \/ data'[i].Loop /\ data'[i].Time = 0
  BY DEF SweepMissesNone
<1>1. ASSUME NEW j \in Index, NEW delay \in Delay, NEW loop \in BOOLEAN,
             Create(j, delay, loop), i # j
      PROVE  i \in todo' \cup fresh' \/ (data'[i].Loop /\ data'[i].Time = 0)
  <2>1. i \in Keys /\ data'[i] = data[i]
    BY <1>1, CreateType DEF Keys
  <2>2. inFrame /\ ~grown /\ todo' = todo /\ fresh \subseteq fresh'
    BY <1>1 DEF Create, Insertion
  <2>3. Due(i)
    BY <1>1, <2>1 DEF Create, Due
  <2> QED BY <2>1, <2>2, <2>3 DEF SweepMissesNone
<1>2. ASSUME NEW delay \in Delay, NEW loop \in BOOLEAN, Create(i, delay, loop)
      PROVE  i \in fresh'
  BY <1>2 DEF Create
<1>3. ASSUME NEW j \in Index, Remove(j)
      PROVE  i \in todo' \cup fresh' \/ (data'[i].Loop /\ data'[i].Time = 0)
  <2>1. i # j
    BY <1>3 DEF Remove, Due, TypeOK, TaskInfo, Keys
  <2>2. i \in Keys /\ data'[i] = data[i]
    BY <1>3, <2>1 DEF Remove, TypeOK, Keys
  <2> QED BY <1>3, <2>2 DEF Remove, SweepMissesNone, Due, sweepVars
<1>4. CASE FrameBegin
  BY <1>4 DEF FrameBegin, Keys
<1>5. ASSUME NEW j \in todo, Skip(j)
      PROVE  i \in todo' \cup fresh' \/ (data'[i].Loop /\ data'[i].Time = 0)
  BY <1>5 DEF Skip, SweepMissesNone, Due, Keys
<1>6. ASSUME NEW j \in todo, Run(j)
      PROVE  i \in todo' \cup fresh' \/ (data'[i].Loop /\ data'[i].Time = 0)
  <2>1. j \in Keys /\ data[j] \in TaskInfo /\ time \in Nat
    BY DEF TypeOK, Keys
  <2>2. CASE i = j
    <3>1. data'[i] = Fired(data[i])
      BY <1>6, <2>1, <2>2 DEF Run, TypeOK, Keys
    <3>2. ~data'[i].Free /\ time >= data'[i].EndTime
      BY <1>6 DEF Run, Due
    <3>3. data[i].Loop
      BY <2>1, <2>2, <3>1, <3>2, FiredType
    <3> QED BY <2>1, <2>2, <3>1, <3>2, <3>3, FiredType DEF TaskInfo
  <2>3. CASE i # j
    BY <1>6, <2>1, <2>3 DEF Run, SweepMissesNone, Due, TypeOK, Keys
  <2> QED BY <2>2, <2>3
<1>7. CASE CallbackReturns
  BY <1>7 DEF CallbackReturns, SweepMissesNone, Due, Keys
<1>8. CASE FrameEnd \/ ServerDeactivate \/ ServerActivate
  BY <1>8 DEF FrameEnd, ServerDeactivate, ServerActivate, sweepVars
<1>9. CASE UNCHANGED vars
  BY <1>9 DEF vars, sweepVars, SweepMissesNone, Due, Keys
<1> QED
  BY <1>1, <1>2, <1>3, <1>4, <1>5, <1>6, <1>7, <1>8, <1>9 DEF Next, Visit

LEMMA InitIInv == Init => IInv
<1> SUFFICES ASSUME Init PROVE TypeOK /\ SweepMissesNone
  BY DEF IInv
<1>1. Keys = {} /\ data \in [Keys -> TaskInfo]
  BY NoData DEF Init, Keys
<1>2. TypeOK
  BY <1>1 DEF Init, TypeOK
<1> QED BY <1>2 DEF Init, SweepMissesNone

THEOREM Invariance == Safety => []IInv
<1>1. Init => IInv
  BY InitIInv
<1>2. IInv /\ [Next]_vars => IInv'
  BY StepTypeOK, StepSweepMissesNone DEF IInv
<1> QED BY <1>1, <1>2, PTL DEF Safety

\* Every variable keeps its type, whatever callbacks do to the swept table.
THEOREM TypeCorrect == Safety => []TypeOK
BY Invariance, PTL DEF IInv

\* No sweep of ServerFrame misses a task that is due, as long as no callback
\* inserts a new key.
THEOREM SweepIsComplete == Safety => []SweepMissesNone
BY Invariance, PTL DEF IInv

-----------------------------------------------------------------------------
(* The scheduler implements alarms.                                        *)

\* The alarms that the table stands for
AlarmsOf == [i \in Index |-> AlarmOf(i)]

LEMMA RefInit == Init => A!Init
<1> SUFFICES ASSUME Init PROVE A!Init
  OBVIOUS
<1>1. Keys = {}
  BY NoData DEF Init, Keys
<1> QED BY <1>1 DEF Init, A!Init, AlarmOf, A!Off

\* The alarm of a key depends on the entry at that key alone.
LEMMA SameAlarm ==
    ASSUME NEW i \in Index, (i \in Keys) <=> (i \in Keys'),
           i \in Keys => data'[i] = data[i]
    PROVE  AlarmOf(i)' = AlarmOf(i)
BY DEF AlarmOf

LEMMA RefStep ==
    ASSUME TypeOK, TypeOK', [Next]_vars
    PROVE  [A!Next]_(A!vars)
<1> USE IndexAssumption
<1>1. ASSUME NEW i \in Index, NEW delay \in Delay, NEW loop \in BOOLEAN,
             Create(i, delay, loop)
      PROVE  A!Set(i, delay, loop)
  <2>0. /\ Keys' = Keys \cup {i}
        /\ \A j \in Keys \ {i} : data'[j] = data[j]
        /\ data'[i] = [Time |-> delay, EndTime |-> time + delay,
                       Loop |-> loop, Free |-> FALSE]
    BY <1>1, CreateType DEF Keys
  <2>1. \A j \in Index \ {i} : AlarmOf(j)' = AlarmOf(j)
    BY <2>0, SameAlarm
  <2>2. AlarmOf(i)' = A!Alarm(time + delay, delay, loop)
    BY <2>0 DEF AlarmOf, A!Alarm
  <2>3. AlarmsOf' = [AlarmsOf EXCEPT ![i] = A!Alarm(time + delay, delay, loop)]
    BY <2>1, <2>2 DEF AlarmsOf
  <2> QED BY <1>1, <2>3 DEF Create, A!Set, AlarmsOf
<1>2. ASSUME NEW i \in Index, Remove(i)
      PROVE  A!Cancel(i)
  <2>1. Keys' = Keys /\ data'[i].Free /\ \A j \in Keys \ {i} : data'[j] = data[j]
    BY <1>2 DEF Remove, TypeOK, TaskInfo, Keys
  <2>2. \A j \in Index \ {i} : AlarmOf(j)' = AlarmOf(j)
    BY <2>1, SameAlarm
  <2>3. AlarmOf(i)' = A!Off
    BY <1>2, <2>1 DEF AlarmOf, A!Off
  <2>4. AlarmsOf' = [AlarmsOf EXCEPT ![i] = A!Off]
    BY <2>2, <2>3 DEF AlarmsOf
  <2> QED BY <1>2, <2>4 DEF Remove, A!Cancel, AlarmsOf, sweepVars
<1>3. ASSUME NEW i \in todo, Run(i)
      PROVE  i \in Index /\ A!Ring(i)
  <2>1. /\ i \in Keys /\ i \in Index /\ data[i] \in TaskInfo /\ time \in Nat
        /\ ~data[i].Free /\ time >= data[i].EndTime
    BY <1>3 DEF TypeOK, Keys, Run, Due
  <2>2. /\ Keys' = Keys /\ data'[i] = Fired(data[i])
        /\ \A j \in Keys \ {i} : data'[j] = data[j]
    BY <1>3, <2>1 DEF Run, TypeOK, Keys
  <2>3. \A j \in Index \ {i} : AlarmOf(j)' = AlarmOf(j)
    BY <2>2, SameAlarm
  <2>4. /\ AlarmOf(i).set /\ AlarmOf(i).at = data[i].EndTime
        /\ AlarmOf(i).every = data[i].Time /\ AlarmOf(i).loop = data[i].Loop
    BY <2>1 DEF AlarmOf
  <2>5. AlarmOf(i)' = IF AlarmOf(i).loop
                      THEN A!Alarm(time + AlarmOf(i).every, AlarmOf(i).every, TRUE)
                      ELSE A!Off
    <3>1. CASE data[i].Loop
      <4>1. /\ data'[i].EndTime = time + data[i].Time /\ data'[i].Time = data[i].Time
            /\ data'[i].Loop /\ ~data'[i].Free
        BY <2>1, <2>2, <3>1, FiredType
      <4>2. AlarmOf(i)' = [set |-> TRUE, at |-> data'[i].EndTime, every |-> data'[i].Time,
                           loop |-> data'[i].Loop]
        BY <2>1, <2>2, <4>1 DEF AlarmOf
      <4> QED BY <2>4, <3>1, <4>1, <4>2 DEF A!Alarm
    <3>2. CASE ~data[i].Loop
      <4>1. AlarmOf(i)' = A!Off
        BY <2>1, <2>2, <3>2, FiredType DEF AlarmOf, A!Off
      <4> QED BY <2>4, <3>2, <4>1
    <3> QED BY <3>1, <3>2
  <2>6. AlarmsOf' = [AlarmsOf EXCEPT ![i] =
                        IF AlarmOf(i).loop
                        THEN A!Alarm(time + AlarmOf(i).every, AlarmOf(i).every, TRUE)
                        ELSE A!Off]
    BY <2>3, <2>5 DEF AlarmsOf
  <2>7. AlarmsOf[i] = AlarmOf(i)
    BY <2>1 DEF AlarmsOf
  <2> QED BY <1>3, <2>1, <2>4, <2>6, <2>7 DEF Run, A!Ring, AlarmsOf
<1>4. CASE CallbackReturns
  <2>1. AlarmsOf' = AlarmsOf
    BY <1>4 DEF CallbackReturns, AlarmsOf, AlarmOf, Keys
  <2> QED BY <1>4, <2>1 DEF CallbackReturns, A!Answered, A!Next, AlarmsOf
<1>5. CASE FrameBegin
  <2>1. AlarmsOf' = AlarmsOf /\ calling = NoIndex
    BY <1>5 DEF FrameBegin, AlarmsOf, AlarmOf, Keys, TypeOK
  <2> QED BY <1>5, <2>1 DEF FrameBegin, A!Tick, A!Next, A!vars, AlarmsOf
<1>6. CASE ServerDeactivate \/ ServerActivate
  <2>1. AlarmsOf' = [i \in Index |-> A!Off]
    BY <1>6, NoData DEF ServerDeactivate, ServerActivate, AlarmsOf, AlarmOf, A!Off, Keys
  <2>2. calling = NoIndex /\ calling' = calling /\ time' \in {0, time}
    BY <1>6 DEF ServerDeactivate, ServerActivate, TypeOK, sweepVars
  <2> QED BY <2>1, <2>2 DEF A!Reset, A!Next, AlarmsOf
<1>7. CASE FrameEnd \/ (\E i \in todo : Skip(i)) \/ UNCHANGED vars
  <2>1. data' = data /\ time' = time /\ calling' = calling
    BY <1>7 DEF FrameEnd, Skip, vars, sweepVars
  <2>2. AlarmsOf' = AlarmsOf
    BY <2>1 DEF AlarmsOf, AlarmOf, Keys
  <2> QED BY <2>1, <2>2 DEF A!vars, AlarmsOf
<1> QED
  BY <1>1, <1>2, <1>3, <1>4, <1>5, <1>6, <1>7 DEF Next, Visit, A!Next

\* The table with its free flags, swept while callbacks change it, implements
\* alarms that ring when they are set and due.
THEOREM Refinement == Safety => ImplementsAlarms
<1>1. Init => A!Init
  BY RefInit
<1>2. TypeOK /\ TypeOK' /\ [Next]_vars => [A!Next]_(A!vars)
  BY RefStep
<1>3. Safety => []TypeOK
  BY TypeCorrect
<1> QED BY <1>1, <1>2, <1>3, PTL DEF Safety, ImplementsAlarms, A!Spec

=============================================================================
