------------------------- MODULE MCStreamingKernel --------------------------
(***************************************************************************)
(* Instances of StreamingKernel for TLC.  Sizes are chosen per cfg; the    *)
(* prefix and remaining sizes follow from them as in the descriptor loop   *)
(* of launch_hierarchical_streaming (src/ntt.cu).                          *)
(***************************************************************************)
EXTENDS StreamingKernel, Sequences, TLC

\* Two segments of two elements each: n = 4.
TwoSegments == [s \in 0 .. 1 |-> 2]
TwoPrefixes == 0 :> 1 @@ 1 :> 2
TwoRemaining == 0 :> 2 @@ 1 :> 1

\* Three segments of two elements each: n = 8.
ThreeSegments == [s \in 0 .. 2 |-> 2]
ThreePrefixes == 0 :> 1 @@ 1 :> 2 @@ 2 :> 4
ThreeRemaining == 0 :> 4 @@ 1 :> 2 @@ 2 :> 1

OneSlot == 0 :> 1
TwoSlots == 0 :> 2
RingThenFull == 0 :> 1 @@ 1 :> 2

OneWorkerEach == [s \in Segment |-> 1]
TwoProducers == 0 :> 2 @@ 1 :> 1
TwoConsumers == 0 :> 1 @@ 1 :> 2
TwoWorkersEach == [s \in Segment |-> 2]

\* Warp number of a launch, in role order.
Index(w) ==
    Cardinality({ v \in Worker : v[1] < w[1] \/ (v[1] = w[1] /\ v[2] < w[2]) })

\* The threads of a launch stride over each array: consecutive words fall to
\* different warps.
StridedShare ==
    [w \in Worker |->
        { word \in ReadyWord \cup StateWord :
            (word[1] + word[2] + (IF Len(word) = 3 THEN word[3] ELSE 0))
                % Cardinality(Worker) = Index(w) }]
=============================================================================
