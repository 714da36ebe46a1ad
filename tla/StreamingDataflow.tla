------------------------- MODULE StreamingDataflow --------------------------
(***************************************************************************)
(* What hierarchical streaming promises, without warps, tokens or epochs:  *)
(* every task of every segment takes its operands once all the tasks that  *)
(* produce them have stored, and stores into an edge of Slots[e]           *)
(* transforms once the transform that used the same slot before has been   *)
(* taken by every consumer.  Each task does both exactly once per launch.  *)
(***************************************************************************)
EXTENDS StreamingGeometry

CONSTANTS Batch, Slots, Launches

VARIABLES
    launch,
    taken,    \* per segment: the tasks <<transform, k>> that have their operands
    stored    \* per segment: the tasks whose results are in the next edge

dvars == <<launch, taken, stored>>

Nothing == [s \in Segment |-> {}]

Init ==
    /\ launch = 1
    /\ taken = Nothing
    /\ stored = Nothing

\* A task c = <<t, k>> is task k of transform t in its segment.
AllTasks(s) == (0 .. Batch - 1) \X Task(s)

Producers(s, c) ==
    { <<c[1], ProducerWithin(s - 1, Address(s, c[2], i))>> : i \in 0 .. SegmentN[s] - 1 }

\* The consumer tasks that must have given back the slot c stores into.
PreviousReaders(s, c) ==
    IF s \in Edge /\ c[1] >= Slots[s] THEN {c[1] - Slots[s]} \X Task(s + 1) ELSE {}

Take(s, c) ==
    /\ s # 0 => Producers(s, c) \subseteq stored[s - 1]
    /\ taken' = [taken EXCEPT ![s] = @ \cup {c}]
    /\ UNCHANGED <<launch, stored>>

Store(s, c) ==
    /\ s \in Edge => PreviousReaders(s, c) \subseteq taken[s + 1]
    /\ stored' = [stored EXCEPT ![s] = @ \cup {c}]
    /\ UNCHANGED <<launch, taken>>

AllStored == \A s \in Segment : stored[s] = AllTasks(s)

NextLaunch ==
    /\ AllStored
    /\ launch < Launches
    /\ launch' = launch + 1
    /\ taken' = Nothing
    /\ stored' = Nothing

Work ==
    \E s \in Segment :
        \/ \E c \in AllTasks(s) \ taken[s] : Take(s, c)
        \/ \E c \in taken[s] \ stored[s] : Store(s, c)

Next == Work \/ NextLaunch

Spec == Init /\ [][Next]_dvars

FairSpec == Spec /\ WF_dvars(Work)
=============================================================================
