------------------------------- MODULE Alarms -------------------------------
(***************************************************************************)
(* What a user of the scheduler may rely on: an index has at most one      *)
(* alarm, an alarm rings only when its time has come, once or              *)
(* periodically, and a cancelled or replaced one never rings.              *)
(***************************************************************************)
EXTENDS Integers

CONSTANTS Index, NoIndex, Delay

VARIABLES
    time,     \* the clock
    alarm,    \* per index, the alarm that is set
    calling   \* the index whose callback runs

vars == <<time, alarm, calling>>

Off == [set |-> FALSE, at |-> 0, every |-> 0, loop |-> FALSE]

Alarm(at, every, loop) ==
    [set |-> TRUE, at |-> at, every |-> every, loop |-> loop]

Init ==
    /\ time = 0
    /\ alarm = [i \in Index |-> Off]
    /\ calling = NoIndex

Set(i, d, loop) ==
    /\ alarm' = [alarm EXCEPT ![i] = Alarm(time + d, d, loop)]
    /\ UNCHANGED <<time, calling>>

Cancel(i) ==
    /\ alarm' = [alarm EXCEPT ![i] = Off]
    /\ UNCHANGED <<time, calling>>

Ring(i) ==
    /\ calling = NoIndex
    /\ alarm[i].set
    /\ time >= alarm[i].at
    /\ calling' = i
    /\ alarm' = [alarm EXCEPT ![i] =
                    IF alarm[i].loop
                    THEN Alarm(time + alarm[i].every, alarm[i].every, TRUE)
                    ELSE Off]
    /\ UNCHANGED time

Answered ==
    /\ calling # NoIndex
    /\ calling' = NoIndex
    /\ UNCHANGED <<time, alarm>>

Tick ==
    /\ calling = NoIndex
    /\ time' = time + 1
    /\ UNCHANGED <<alarm, calling>>

\* All alarms are lost, and the clock may start again.
Reset ==
    /\ calling = NoIndex
    /\ alarm' = [i \in Index |-> Off]
    /\ time' \in {0, time}
    /\ UNCHANGED calling

Next ==
    \/ \E i \in Index, d \in Delay, loop \in BOOLEAN : Set(i, d, loop)
    \/ \E i \in Index : Cancel(i) \/ Ring(i)
    \/ Answered
    \/ Tick
    \/ Reset

Spec == Init /\ [][Next]_vars

=============================================================================
