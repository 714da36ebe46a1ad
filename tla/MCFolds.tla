------------------------------ MODULE MCFolds -------------------------------
(***************************************************************************)
(* The two kernels whose warps pass tokens of a fold to each other, the    *)
(* one-CTA pipeline and the fold pipeline of a cooperative launch.  A      *)
(* behaviour is one launch of either; the folds, the packets and the       *)
(* replicas of every launch are ragged somewhere.                          *)
(***************************************************************************)
EXTENDS HybridPipeline

CONSTANTS
    Pipelines,       \* the cooperative launches to try
    PipelineWarp     \* threads of a warp of theirs

VARIABLES item, processed, tile, tile_index, scratch    \* of the fold pipeline

OneCta(b, p, h, layout) ==
    [logN |-> 6, flowTileLogN |-> 5, stageSpace |-> 3, dataTime |-> 3, roleStages |-> 1,
     tokenInterleave |-> 1, buffers |-> b, pingPong |-> p, handoff |-> h, dataSpace |-> 2,
     layout |-> layout]

\* Three roles of one stage: folds of 3, 2 and 1 stages over two rounds, ragged
\* packets; each layout, state mode and handoff, with one slot and with two.
OneStageRoles ==
    { OneCta(2, FALSE, "barrier", "linear"), OneCta(2, TRUE, "barrier", "hermes-xor"),
      OneCta(1, FALSE, "atomic", "hermes-xor"), OneCta(1, TRUE, "atomic", "linear") }

\* Two roles of two stages on two replicas, two tokens at a time, one slot.
FusedRoles ==
    { [logN |-> 6, flowTileLogN |-> 6, stageSpace |-> 3, dataTime |-> 4, roleStages |-> 2,
       tokenInterleave |-> 2, buffers |-> 1, pingPong |-> FALSE, handoff |-> h,
       dataSpace |-> 2, layout |-> "hermes-xor"] : h \in {"barrier", "atomic"} }

Both == OneStageRoles \cup FusedRoles

\* Two blocks with one pipeline each; folds of 2, 2 and 1 stages.
TwoBlocks ==
    [logN |-> 5, stageSpace |-> 2, roleStages |-> 1, transforms |-> 1, dataTime |-> 2,
     tokenInterleave |-> 1, buffers |-> 1, replicas |-> 1, ctas |-> 2, wordBytes |-> 8,
     transposeTile |-> 3]

\* One block with two pipelines, two tokens per handshake, ragged packets and
\* groups; folds of 2 and 2 stages.
TwoReplicas ==
    [logN |-> 4, stageSpace |-> 2, roleStages |-> 1, transforms |-> 2, dataTime |-> 3,
     tokenInterleave |-> 2, buffers |-> 1, replicas |-> 2, ctas |-> 1, wordBytes |-> 4,
     transposeTile |-> 8]

\* One pipeline of three roles with two slots; folds of 3 and 1 stages.
ThreeRoles ==
    [TwoReplicas EXCEPT !.stageSpace = 3, !.replicas = 1, !.buffers = 2]

ThreePipelines == {TwoBlocks, TwoReplicas, ThreeRoles}

Appt == INSTANCE ApptPipeline WITH Launches <- Pipelines, WarpSize <- PipelineWarp

\* Only a cooperative launch has a grid.
ASSUME PipelinesAssumption ==
    /\ Appt!ValidLaunches
    /\ \A p \in Launches : "ctas" \notin DOMAIN p
    /\ \A p \in Pipelines : "ctas" \in DOMAIN p

mvars == <<hvars, item, processed, tile, tile_index, scratch>>

OfAppt == "ctas" \in DOMAIN launch

\* What is the other kernel's own stays empty.
MCInit ==
    \/ /\ Init
       /\ item = <<>> /\ processed = <<>> /\ tile = <<>> /\ tile_index = <<>> /\ scratch = <<>>
    \/ /\ Appt!Init
       /\ round = 0 /\ group = <<>> /\ state = <<>> /\ current = 0

MCNext ==
    \/ ~OfAppt /\ Next /\ UNCHANGED <<item, processed, tile, tile_index, scratch>>
    \/ OfAppt /\ Appt!Next /\ UNCHANGED <<round, group, state, current>>

MCSpec == MCInit /\ [][MCNext]_mvars

\* The warps of a launch are resident: while some warp can run, some warp does.
MCFairSpec == MCSpec /\ WF_mvars(MCNext)

----------------------------------------------------------------------------

\* Every cursor of a warp stays in its range.
CursorsInRange == IF OfAppt THEN Appt!TypeOK ELSE TypeOK

\* However the roles overlap, every butterfly has the two operands of its stage and
\* their twiddle, and the launch leaves every element through all stages, in order.
TransformRight ==
    IF OfAppt THEN Appt!OperandsRight /\ Appt!OutputRight
              ELSE OperandsRight /\ OutputRight

\* A role never writes a channel slot that the next role reads; in the one-CTA pipeline
\* every slot is free between two folds, and warps that meet at a named barrier are at
\* the same packet of one edge.
SlotsExclusive ==
    IF OfAppt THEN Appt!SlotExclusive ELSE SlotExclusive /\ FoldBoundaryClean /\ BarrierMatched

\* Every launch ends: no cycle of waits for slots, packets, barriers or blocks.
LaunchesEnd == <>(IF OfAppt THEN Appt!Done ELSE Done)

----------------------------------------------------------------------------
(* Two replicas whose channels, not the transposition tile, size the shared *)
(* memory of the cooperative launch.                                        *)

SmallTile == { [TwoReplicas EXCEPT !.transposeTile = 2] }

Undersized == INSTANCE ApptPipeline WITH Launches <- SmallTile, WarpSize <- 2

UndersizedSpec ==
    /\ Undersized!Init /\ round = 0 /\ group = <<>> /\ state = <<>> /\ current = 0
    /\ [][Undersized!Next /\ UNCHANGED <<round, group, state, current>>]_mvars

\* Every flag a warp polls or sets lies in the shared memory of the launch, as two
\* supported replicas need it (docs/hierarchical_dataflow_ntt.md:391, ntt.cu:9854).
FlagsInside == Undersized!FlagsAllocated

=============================================================================
