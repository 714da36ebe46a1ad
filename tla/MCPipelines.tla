---------------------------- MODULE MCPipelines -----------------------------
(***************************************************************************)
(* The two stream schedulers; a behaviour runs one plan of either.  Of the *)
(* four plans of the runs, Overlap is the batch pipeline with a short last *)
(* tile; in Failing a launch may be refused.  Sliced is the factor         *)
(* pipeline on four digits, three edges, so that a buffer shared by        *)
(* nonadjacent edges would be live twice; Tiled has a last digit wider     *)
(* than the others, tiles of two columns, and launches that may be refused.*)
(***************************************************************************)
EXTENDS BatchPipeline

CONSTANT FactorPlans    \* plans of the factor pipeline; Plans are the batch pipeline's

VARIABLE scratch        \* of the factor pipeline

Overlap == [groups |-> 3, batch |-> 5, tile |-> 2, mayFail |-> FALSE]

Failing == [groups |-> 2, batch |-> 3, tile |-> 1, mayFail |-> TRUE]

Even == INSTANCE FactorGeometry WITH Factors <- <<1, 1, 1, 1>>, Columns <- 1, Slices <- 2, Batch <- 1
Wide == INSTANCE FactorGeometry WITH Factors <- <<1, 2>>, Columns <- 2, Slices <- 2, Batch <- 2

Sliced == Even!Plan(FALSE)
Tiled == Wide!Plan(TRUE)

BatchPlans == {Overlap, Failing}
DigitPlans == {Sliced, Tiled}

MCStream == (0 .. 3) \cup Caller
MCEvent == EventsOf(4)

Digits == INSTANCE FactorPipeline WITH Plans <- FactorPlans

\* Only a factor plan has slices.
ASSUME PlansAssumption ==
    /\ ValidPlans /\ Digits!ValidPlans
    /\ \A p \in Plans : "slices" \notin DOMAIN p
    /\ \A p \in FactorPlans : "slices" \in DOMAIN p

\* The geometry of the plans below.
ASSUME FactorsAssumption == Even!ValidFactors /\ Wide!ValidFactors /\ Even!Powers

mvars == <<pvars, scratch>>

OfFactors == "slices" \in DOMAIN plan

\* What is the other scheduler's own stays as it is.
MCInit ==
    \/ Init /\ scratch = <<>>
    \/ Digits!Init /\ slots = <<>> /\ executed = <<>>

MCNext ==
    \/ ~OfFactors /\ Next /\ UNCHANGED scratch
    \/ OfFactors /\ Digits!Next /\ UNCHANGED <<slots, executed>>

MCSpec == MCInit /\ [][MCNext]_mvars

\* The batch plans whose launches all succeed.
Overlapped == ~OfFactors /\ ~MayFail

----------------------------------------------------------------------------

\* When a caller's stream reaches the use of an output, all of it was computed from
\* this invocation's input, whoever else submitted to the plan and whatever call
\* failed before (both enqueue functions).
EveryResultReady == IF OfFactors THEN Digits!ResultsReady ELSE ResultsReady

\* On a plan whose launches succeed no launch writes what another pending or running
\* one reads or writes: not a slot of a boundary that its consumer still has, not a
\* slice or a buffer of another factor (batch_pipeline.cuh:59-62, factor_pipeline.cuh:8-10).
BuffersExclusive == ~MayFail => IF OfFactors THEN Digits!NoConflict ELSE SlotReuse

Launches(field) == [g \in Group |-> IF Overlapped THEN executed[g][field] ELSE 0]

Flow == INSTANCE BatchDataflow
    WITH groups <- Groups, tiles <- IF Overlapped THEN TilesEach ELSE 1,
         started <- Launches("started"), finished <- Launches("finished")

\* The streams and events implement the tile dataflow: two tiles per boundary,
\* stages concurrent within an invocation, invocations in turn (lines 46-72).
ImplementsTiles == Flow!Spec
=============================================================================
