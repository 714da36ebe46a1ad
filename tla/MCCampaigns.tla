---------------------------- MODULE MCCampaigns -----------------------------
(***************************************************************************)
(* Four programs that measure over several calls and resume from what they *)
(* wrote, of which a behaviour runs one.  "research": two groups of which  *)
(* one has nothing that fits in memory, one composition whose first        *)
(* channel is the exact contract of a cell, two plans of which one is too  *)
(* large.  "controlled": a study of one case with three variants (the      *)
(* third may resolve to the first), one of two cases, and one whose        *)
(* comparison changes an undeclared axis.  "application": two composed     *)
(* workloads, one with a channel of an earlier search and one of its own.  *)
(* "sweep": two requests for three forms of which one does not fit, one of *)
(* them alone, and one for a form that does not fit.                       *)
(***************************************************************************)
EXTENDS ResearchCampaign, TLC

CONSTANTS Experiments, Derived, Boundaries, Resolutions, Builds, Gpus,      \* controlled experiment
          Earlier, Found, Workloads, Gates, Patterns, PatternTrials,    \* application study
          Requests,                                                     \* sweep
          OtherCalls, OtherSetbacks                                     \* of these three

ASSUME StudyAssumption ==
    /\ Earlier \in Seq(ToSet(Earlier))
    /\ Workloads \in Seq(ToSet(Workloads)) \ {<<>>}
    /\ \A s \in Experiments :
          /\ s.trials \in Nat /\ s.cases \in Seq(ToSet(s.cases))
          /\ \A c \in ToSet(s.cases) :
                /\ c.order \in Seq(DOMAIN c.variants) /\ ToSet(c.order) = DOMAIN c.variants
                /\ c.comparisons \in Seq(ToSet(c.comparisons))

VARIABLES
    program,                                          \* which of the four
    study, build, journal, driver,                    \* controlled experiment
    frozen, compiled, journals, lock, other, gate,    \* application study
    composed, summary, runner,
    partial, table, sweeper                           \* sweep

MCGroups == <<"core", "crypto">>
MCGroupCells == ("core" :> <<"ntt-a", "huge">>) @@ ("crypto" :> <<"huge">>)
MCCompositions == << [id |-> "coset", channels |-> <<"ntt-a", "ntt-b">>] >>
MCPlans == <<"1000", "huge">>
MCInputBytes == ("ntt-a" :> 1) @@ ("huge" :> 100) @@ ("coset" :> 2) @@ ("1000" :> 1)
MCBaselines == ("ntt-a" :> <<"cufft">>) @@ ("huge" :> <<>>)

-----------------------------------------------------------------------------

Plain == [tile |-> 1, edges |-> <<"direct">>]
Wide == [tile |-> 2, edges |-> <<"direct">>]
Mixed == [tile |-> 2, edges |-> <<"staged">>]

Case(ids, variants, comparisons) == [order |-> ids, variants |-> variants, comparisons |-> comparisons]
OnTile(b, t) == [baseline |-> b, treatment |-> t, axes |-> {"tile"}]

PlainWide == Case(<<"base", "wide">>, [base |-> Plain, wide |-> Wide], <<OnTile("base", "wide")>>)
PlainMixed == Case(<<"base", "wide">>, [base |-> Plain, wide |-> Mixed], <<OnTile("base", "wide")>>)

\* The wide mapping may resolve as asked, with the boundaries of another
\* partition, or fall back to the plain one.
MCResolutions == (Plain :> {Plain}) @@ (Wide :> {Wide, Plain, Mixed}) @@ (Mixed :> {Mixed})

MCExperiments == {[trials |-> 2, cases |-> <<PlainWide>>],
                  [trials |-> 1, cases |-> <<PlainWide, PlainWide>>],
                  [trials |-> 1, cases |-> <<PlainMixed>>]}

MCEarlier == <<"basis", "batch">>
MCFound == ("basis" :> {"p"}) @@ ("batch" :> {}) @@ ("own" :> {"q"})
MCWorkloads == << [id |-> "coset", channels |-> <<"p", "q">>], [id |-> "cyclic", channels |-> <<"r">>] >>
MCGates == <<"smoke">>
MCPatterns == <<"random", "boundary">>

Point(name, fits) == [name |-> name, fits |-> fits]
Forms == <<Point("tile", TRUE), Point("wide", FALSE), Point("warp", TRUE)>>

MCRequests == {[points |-> Forms, trials |-> 2, exclusive |-> TRUE],
               [points |-> <<Point("warp", TRUE)>>, trials |-> 1, exclusive |-> FALSE],
               [points |-> <<Point("wide", FALSE)>>, trials |-> 1, exclusive |-> FALSE]}

-----------------------------------------------------------------------------

Controlled == INSTANCE ControlledExperiment WITH
    Studies <- Experiments, MaxCalls <- OtherCalls, MaxSetbacks <- OtherSetbacks

Application == INSTANCE ApplicationStudy WITH
    Trials <- PatternTrials, MaxCalls <- OtherCalls, MaxSetbacks <- OtherSetbacks

Sweep == INSTANCE MappingSweep WITH
    MaxCalls <- OtherCalls, MaxSetbacks <- OtherSetbacks

OfResearch == <<campaign, output, conductor, command, compilation>>
OfControlled == <<study, journal, driver>>
OfApplication == <<frozen, compiled, journals, lock, other, gate, composed, summary, runner>>
OfSweep == <<partial, table, sweeper>>
World == <<inputs, foreign, build>>

mvars == <<program, OfResearch, OfControlled, OfApplication, OfSweep, World, calls, setbacks>>

\* What belongs to the other programs stays empty.
NoResearch == campaign = 0 /\ output = 0 /\ conductor = 0 /\ command = 0 /\ compilation = 0
NoControlled == study = 0 /\ journal = 0 /\ driver = 0
NoApplication == /\ frozen = 0 /\ compiled = 0 /\ journals = 0 /\ lock = 0 /\ other = 0
                 /\ gate = 0 /\ composed = 0 /\ summary = 0 /\ runner = 0
NoSweep == partial = 0 /\ table = 0 /\ sweeper = 0

MCInit ==
    \/ program = "research" /\ Init /\ NoControlled /\ NoApplication /\ NoSweep /\ build = 0
    \/ /\ program = "controlled" /\ Controlled!Init /\ NoResearch /\ NoApplication /\ NoSweep
       /\ inputs = 0 /\ foreign = 0
    \/ program = "application" /\ Application!Init /\ NoResearch /\ NoControlled /\ NoSweep /\ build = 0
    \/ program = "sweep" /\ Sweep!Init /\ NoResearch /\ NoControlled /\ NoApplication /\ inputs = 0

MCNext ==
    \/ /\ program = "research" /\ Next
       /\ UNCHANGED <<program, OfControlled, OfApplication, OfSweep, build>>
    \/ /\ program = "controlled" /\ Controlled!Next
       /\ UNCHANGED <<program, OfResearch, OfApplication, OfSweep, inputs, foreign>>
    \/ /\ program = "application" /\ Application!Next
       /\ UNCHANGED <<program, OfResearch, OfControlled, OfSweep, build>>
    \/ /\ program = "sweep" /\ Sweep!Next
       /\ UNCHANGED <<program, OfResearch, OfControlled, OfApplication, inputs>>

MCSpec == MCInit /\ [][MCNext]_mvars

-----------------------------------------------------------------------------

\* While the application study measures, every study it depends on has resolved its
\* matrix and is at rest.
EarlierStudiesRest == program = "application" => Application!EarlierAtRest

\* What is called complete holds everything it declares: every phase of a campaign
\* its cells and trials, every comparison its pairs, every composed cell its grid,
\* an output of a sweep that nothing cut its candidates and trials.
CompleteIsWhole ==
    /\ program = "research" => PhasesAreWhole
    /\ program = "controlled" => Controlled!CompleteIsPaired
    /\ program = "application" => Application!CellsWhole
    /\ program = "sweep" => Sweep!TableWhole

\* A comparison rests on one program, one GPU and a validated basis, and the trials of
\* a swept form on one call.
ComparisonsSound ==
    /\ program = "research" => ComparisonsRestOnBasis
    /\ program = "controlled" => Controlled!OneTargetPerVerdict
    /\ program = "sweep" => Sweep!TrialsTogether

\* Nothing measured is lost, replaced or measured twice by a later call, except the
\* phase under a guard that saw another client; a completed phase is never run again
\* or altered.
MeasurementsKept ==
    [][/\ program = "research" => (EvidenceStays /\ PhasesStay)
       /\ program = "controlled" => Controlled!JournalStays
       /\ program = "application" => Application!RowsStay
       /\ program = "sweep" => Sweep!RowsKept]_mvars

\* A call of the research campaign that nothing disturbs walks it to its end.
UndisturbedResolves == program = "research" => UndisturbedRunResolves
=============================================================================
