-------------------------- MODULE ResearchCampaign --------------------------
(***************************************************************************)
(* A research campaign on one target (run_research_target --mode run): the *)
(* files it leaves, the process that conducts it and the commands it       *)
(* guards.  It calibrates the target, then makes one acceptance run per    *)
(* group, the compositions and the plans, phase by phase, each in a        *)
(* directory of its own.  Another client of the GPU stops a command and    *)
(* puts its phase's directory aside.  Completed phases are bound to the    *)
(* contents of their files and never run again.                            *)
(***************************************************************************)
EXTENDS Naturals, Sequences, FiniteSets, SequencesExt

CONSTANTS Groups,           \* the acceptance groups, in order
          GroupCells,       \* group -> its cells, in order
          Compositions,     \* composed workloads: [id, channels], in order
          PlanWorkloads,    \* shapes timed through the public plans, in order
          InputBytes,       \* workload -> bytes of its input
          MemoryBytes,      \* of the target
          Baselines,        \* cell -> the external programs it is compared with
          Trials, Modules,
          MaxCalls, MaxSetbacks

VARIABLES inputs,           \* revision of binaries, sources, workloads, protocol
          foreign,          \* another process uses the GPU
          campaign,         \* campaign.json
          output,           \* phase -> its directory
          conductor,        \* the running run_target
          command,          \* the guarded command
          compilation,      \* the compile journal and the module cache
          calls, setbacks

research == <<inputs, foreign, campaign, output, conductor, command, compilation,
              calls, setbacks>>

MemoryFactor == 16

\* The conservative envelope of a workload's footprint.
WorkspaceBytes(w) == InputBytes[w] * MemoryFactor

\* The workloads whose envelope fits in nine tenths of the target's memory.
Accepted(workloads) ==
    SelectSeq(workloads, LAMBDA w : WorkspaceBytes(w) * 10 <= MemoryBytes * 9)

CellsOf(group) == Accepted(GroupCells[group])
ComposedIds == Accepted([i \in DOMAIN Compositions |-> Compositions[i].id])
AcceptedPlans == Accepted(PlanWorkloads)

\* The commands of the calibration: capabilities, two schedule probes, the basis.
CalibrationItems == <<"capabilities", "schedule", "pipeline", "basis">>

Phases == <<"calibration">> \o Groups \o <<"composed", "plans">>

ASSUME CampaignAssumption ==
    /\ Groups \in Seq(ToSet(Groups))
    /\ ToSet(Groups) \cap {"calibration", "composed", "plans"} = {}

Nothing == [identity |-> 0]
Probes == [items |-> {}, validated |-> FALSE]

EmptyOutput == [phase \in ToSet(Phases) |->
                   IF phase \in {"calibration", "plans"} THEN Probes ELSE Nothing]

NoCampaign == [identity |-> 0, status |-> "absent", phases |-> [p \in {} |-> Nothing]]
NoCommand == [kind |-> "none"]
Idle == [at |-> "idle", phase |-> 0]

Init == /\ inputs = 1 /\ foreign = FALSE
        /\ campaign = NoCampaign /\ output = EmptyOutput
        /\ conductor = Idle /\ command = NoCommand
        /\ compilation = [status |-> "absent", results |-> <<>>, cache |-> {}]
        /\ calls = 0 /\ setbacks = 0

Phase == Phases[conductor.phase]
Complete(phase) == phase \in DOMAIN campaign.phases

Setback == setbacks < MaxSetbacks /\ setbacks' = setbacks + 1

\* The command under way ends with a code; what it wrote is on disk.
Exit(code) == command' = [kind |-> "ended", code |-> code]

Sample(name, trial) == [name |-> name, trial |-> trial]

\* Mutant: one row of a program stands for all its trials.
HasAnyTrial(rows, name, trial) == \E i \in DOMAIN rows : rows[i].name = name

HasRow(rows, name, trial) ==
    \E i \in DOMAIN rows : rows[i].name = name /\ rows[i].trial = trial

\* Every trial times the names in order, every other trial in reverse.
Alternating(names, trials) ==
    FlattenSeq([t \in 1..trials |->
        [k \in DOMAIN names |->
            <<IF t % 2 = 0 THEN names[Len(names) + 1 - k] ELSE names[k], t>>]])

-----------------------------------------------------------------------------
(* --mode precompile (precompile_research): a pool of workers builds the    *)
(* modules of the manifest; every result is journalled as it comes in.  An   *)
(* interrupted parent leaves its busy workers to finish.  --mode run wants   *)
(* a complete journal and every module still in the cache.                   *)

JournalledAs(status) ==
    {m \in DOMAIN compilation.results : compilation.results[m] = status}

\* The journal of a finished compilation.
CompilationComplete ==
    compilation.status = "complete" /\ JournalledAs("compiled") = Modules

\* Every module a result names is still a file.
ModulesPresent == JournalledAs("compiled") \subseteq compilation.cache

\* The gate of --mode run.
Compiled == CompilationComplete /\ ModulesPresent

StartPrecompile ==
    /\ conductor.at = "idle" /\ calls < MaxCalls /\ calls' = calls + 1
    /\ conductor' = [at |-> "precompile", phase |-> 0, waiting |-> Modules]
    /\ compilation' = [compilation EXCEPT !.status = "running", !.results = <<>>]
    /\ UNCHANGED <<inputs, foreign, campaign, output, command, setbacks>>

\* A worker's module is in the cache, or its compilation failed.
WorkerEnds(m) ==
    /\ conductor.at = "precompile" /\ m \in conductor.waiting
    /\ conductor' = [conductor EXCEPT !.waiting = @ \ {m}]
    /\ LET Journalled(status) == [x \in DOMAIN compilation.results \cup {m} |->
                                     IF x = m THEN status ELSE compilation.results[x]]
       IN  \/ /\ compilation' = [compilation EXCEPT !.results = Journalled("compiled"),
                                                    !.cache = @ \cup {m}]
              /\ UNCHANGED setbacks
           \/ /\ compilation' = [compilation EXCEPT !.results = Journalled("failed")]
              /\ Setback
    /\ UNCHANGED <<inputs, foreign, campaign, output, command, calls>>

PrecompileEnds ==
    /\ conductor.at = "precompile" /\ conductor.waiting = {}
    /\ conductor' = Idle
    /\ compilation' = [compilation EXCEPT !.status =
           IF JournalledAs("failed") = {} THEN "complete" ELSE "failed"]
    /\ UNCHANGED <<inputs, foreign, campaign, output, command, calls, setbacks>>

\* ctrl-C: what was journalled stays, some busy workers still fill the cache.
PrecompileInterrupted ==
    /\ conductor.at = "precompile" /\ Setback
    /\ conductor' = Idle
    /\ \E late \in SUBSET conductor.waiting :
          compilation' = [compilation EXCEPT !.status = "partial", !.cache = @ \cup late]
    /\ UNCHANGED <<inputs, foreign, campaign, output, command, calls>>

\* The cache is cleaned from outside.
Evict(m) ==
    /\ m \in compilation.cache /\ Setback
    /\ compilation' = [compilation EXCEPT !.cache = @ \ {m}]
    /\ UNCHANGED <<inputs, foreign, campaign, output, conductor, command, calls>>

Precompile == \/ \E m \in Modules : WorkerEnds(m)
              \/ PrecompileEnds

-----------------------------------------------------------------------------
(* run_research_acceptance, for a group: for every cell a resumable search,  *)
(* its winner promoted and replayed, then trials paired with external        *)
(* baselines.  The journal is saved after the search of a cell, after every  *)
(* trial and on every failure.                                               *)

NewCell(id) == [id |-> id, status |-> "pending", rows |-> <<>>]

PreparedAcceptance(group) ==
    [identity |-> inputs, status |-> "prepared",
     cells |-> [c \in DOMAIN CellsOf(group) |-> NewCell(CellsOf(group)[c])]]

Accepting == command.kind = "acceptance"
Journal == output[Phase]
CellNow == Journal.cells[command.cell]

\* What is timed against what: the library first, then its baselines.
Comparisons(id) == Alternating(<<"cuButterfly">> \o Baselines[id], Trials)

\* The row the comparison of a cell has to add next.
Missing(cell) ==
    SelectSeq(Comparisons(cell.id), LAMBDA c : ~ HasRow(cell.rows, c[1], c[2]))

Save(journal) == output' = [output EXCEPT ![Phase] = journal]
SaveCell(cell) == Save([Journal EXCEPT !.cells[command.cell] = cell])

\* prepare(): a journal is bound to the target, build, matrix and protocol.
AcceptanceStart ==
    /\ Accepting /\ command.cell = 0
    /\ IF Journal = Nothing
       THEN /\ Save([PreparedAcceptance(Phase) EXCEPT !.status = "running"])
            /\ command' = [command EXCEPT !.cell = 1]
       ELSE IF Journal.identity # inputs
       THEN Exit(1) /\ UNCHANGED output
       ELSE /\ Save([Journal EXCEPT !.status = "running"])
            /\ command' = [command EXCEPT !.cell = 1]
    /\ UNCHANGED <<inputs, foreign, campaign, conductor, compilation, calls, setbacks>>

\* The journal is there once the run has started.
AcceptanceBegun == Accepting /\ command.cell # 0
CellOpen == AcceptanceBegun /\ command.cell <= Len(Journal.cells) /\ ~ command.flying

\* main's except clause: the journal says interrupted, its rows stay.
AcceptanceFails ==
    /\ Save([Journal EXCEPT !.status = "interrupted"])
    /\ Exit(1)

\* Cells that are resolved are passed over.
SkipCell ==
    /\ CellOpen /\ CellNow.status \in {"complete", "unavailable"}
    /\ command' = [command EXCEPT !.cell = @ + 1]
    /\ UNCHANGED <<inputs, foreign, campaign, output, conductor, compilation, calls, setbacks>>

\* The search of a cell: a winner, promoted and replayed; only capability
\* rejections, which make it unavailable; or a failure.
SearchCell ==
    /\ CellOpen /\ CellNow.status = "pending"
    /\ \/ foreign /\ AcceptanceFails /\ UNCHANGED setbacks
       \/ /\ ~ foreign
          /\ SaveCell([CellNow EXCEPT !.status = "search-complete"])
          /\ UNCHANGED <<command, setbacks>>
       \/ /\ ~ foreign /\ Setback
          /\ \/ /\ SaveCell([CellNow EXCEPT !.status = "unavailable"])
                /\ command' = [command EXCEPT !.cell = @ + 1]
             \/ AcceptanceFails
    /\ UNCHANGED <<inputs, foreign, campaign, conductor, compilation, calls>>

\* Start the next trial that has no row yet.
LaunchTrial ==
    /\ CellOpen /\ CellNow.status \in {"search-complete", "comparing"}
    /\ Missing(CellNow) # <<>>
    /\ IF foreign THEN AcceptanceFails
       ELSE command' = [command EXCEPT !.flying = TRUE] /\ UNCHANGED output
    /\ UNCHANGED <<inputs, foreign, campaign, conductor, compilation, calls, setbacks>>

Landing == Accepting /\ command.flying

\* A trial returns: its row is saved unless the GPU was shared or it is invalid.
RecordTrial ==
    /\ Landing
    /\ LET next == Missing(CellNow)[1]
       IN  \/ foreign /\ AcceptanceFails /\ UNCHANGED setbacks
           \/ /\ ~ foreign
              /\ SaveCell([CellNow EXCEPT !.status = "comparing",
                                          !.rows = Append(@, Sample(next[1], next[2]))])
              /\ command' = [command EXCEPT !.flying = FALSE]
              /\ UNCHANGED setbacks
           \/ ~ foreign /\ Setback /\ AcceptanceFails
    /\ UNCHANGED <<inputs, foreign, campaign, conductor, compilation, calls>>

CompleteCell ==
    /\ CellOpen /\ CellNow.status \in {"search-complete", "comparing"}
    /\ Missing(CellNow) = <<>>
    /\ SaveCell([CellNow EXCEPT !.status = "complete"])
    /\ command' = [command EXCEPT !.cell = @ + 1]
    /\ UNCHANGED <<inputs, foreign, campaign, conductor, compilation, calls, setbacks>>

AcceptanceEnds ==
    /\ AcceptanceBegun /\ command.cell > Len(Journal.cells)
    /\ Save([Journal EXCEPT !.status =
           IF \E c \in DOMAIN Journal.cells : Journal.cells[c].status = "unavailable"
           THEN "complete-with-unavailable-cells" ELSE "complete-measured-matrix"])
    /\ Exit(0)
    /\ UNCHANGED <<inputs, foreign, campaign, conductor, compilation, calls, setbacks>>

Acceptance == \/ AcceptanceStart \/ SkipCell \/ SearchCell \/ LaunchTrial
              \/ RecordTrial \/ CompleteCell \/ AcceptanceEnds

-----------------------------------------------------------------------------
(* run_crypto_composition: transforms composed of cyclic cores, timed with   *)
(* the public proposal and, where an acceptance journal holds the exact      *)
(* cyclic contract, with the mappings searched for it.  A manifest freezes   *)
(* the inputs, and every measurement is written at once and validated again  *)
(* on a resume.                                                              *)

Composing == command.kind = "composition"
Composed == output["composed"]

\* Every acceptance journal there is.
MappingSources == {g \in ToSet(Groups) : output[g] # Nothing}

\* The identity of a composition: the build and the journals it may replay.
CompositionManifest == <<inputs, [g \in MappingSources |-> output[g]]>>

\* An exact mapping comes from a complete cell of a journal of this build.
Searched(channel) ==
    \E g \in MappingSources :
        /\ output[g].identity = inputs
        /\ \E c \in DOMAIN output[g].cells :
              output[g].cells[c].id = channel /\ output[g].cells[c].status = "complete"

Portfolios(w) ==
    <<"public-default">> \o
    (IF \E k \in DOMAIN w.channels : Searched(w.channels[k])
     THEN <<"searched-cyclic-cores">> ELSE <<>>)

Workload(id) == Compositions[CHOOSE i \in DOMAIN Compositions : Compositions[i].id = id]

PreflightRow == "preflight"

NewComposition == [identity |-> CompositionManifest, status |-> "partial",
                   preflight |-> <<>>, cells |-> <<>>]

SaveComposition(document) == output' = [output EXCEPT !["composed"] = document]

\* A first run writes the manifest; --resume wants one that is still true.
\* Without a workload there is nothing to run, which is an error.
CompositionStart ==
    /\ Composing /\ command.cell = 0
    /\ IF command.resume
       THEN IF Composed # Nothing /\ Composed.identity = CompositionManifest
                 /\ ComposedIds # <<>>
            THEN command' = [command EXCEPT !.cell = 1] /\ UNCHANGED output
            ELSE Exit(2) /\ UNCHANGED output
       ELSE IF Composed # Nothing \/ ComposedIds = <<>> THEN Exit(2) /\ UNCHANGED output
            ELSE /\ SaveComposition(NewComposition)
                 /\ command' = [command EXCEPT !.cell = 1]
    /\ UNCHANGED <<inputs, foreign, campaign, conductor, compilation, calls, setbacks>>

\* The cell under way; it enters the document when its turn comes.
Slot == command.cell
Started == Slot \in DOMAIN Composed.cells
CompositionOpen == Composing /\ Slot # 0 /\ Slot <= Len(ComposedIds)
ComposedCell == Composed.cells[Slot]

OpenCell ==
    /\ CompositionOpen /\ Composed.preflight # <<>> /\ ~ Started
    /\ LET w == Workload(ComposedIds[Slot])
       IN  SaveComposition([Composed EXCEPT !.cells = Append(@,
               [id |-> w.id, status |-> "pending", portfolios |-> Portfolios(w), rows |-> <<>>])])
    /\ UNCHANGED <<inputs, foreign, campaign, conductor, command, compilation, calls, setbacks>>

Pending(cell) ==
    SelectSeq(Alternating(cell.portfolios, Trials), LAMBDA c : ~ HasRow(cell.rows, c[1], c[2]))

\* What is to be timed: the correctness gate first, then the cell's next trial.
NextTiming ==
    IF Composed.preflight = <<>> THEN <<PreflightRow, 0>> ELSE Pending(ComposedCell)[1]

CompositionFails ==
    /\ SaveComposition(
           IF Started THEN [Composed EXCEPT !.cells[Slot].status =
                               IF foreign THEN "interrupted" ELSE "failed"]
           ELSE Composed)
    /\ Exit(IF foreign THEN 75 ELSE 2)

\* The mappings of a cell begun by an earlier run must still be the ones there are.
SamePortfolios == ComposedCell.portfolios = Portfolios(Workload(ComposedIds[Slot]))

LaunchComposition ==
    /\ CompositionOpen /\ ~ command.flying
    /\ Composed.preflight = <<>> \/ (Started /\ Pending(ComposedCell) # <<>>)
    /\ IF Composed.preflight # <<>> /\ ~ SamePortfolios
       THEN Exit(2) /\ UNCHANGED output
       ELSE IF foreign THEN CompositionFails
       ELSE command' = [command EXCEPT !.flying = TRUE] /\ UNCHANGED output
    /\ UNCHANGED <<inputs, foreign, campaign, conductor, compilation, calls, setbacks>>

\* measure() and validate_sample(): excluded when shared, refused when invalid.
RecordComposition ==
    /\ CompositionOpen /\ command.flying
    /\ LET next == NextTiming
           row == Sample(next[1], next[2])
       IN  \/ foreign /\ CompositionFails /\ UNCHANGED setbacks
           \/ /\ ~ foreign
              /\ SaveComposition(
                     IF next[1] = PreflightRow
                     THEN [Composed EXCEPT !.preflight = Append(@, row)]
                     ELSE [Composed EXCEPT !.cells[Slot] =
                              [ComposedCell EXCEPT !.status = "partial", !.rows = Append(@, row)]])
              /\ command' = [command EXCEPT !.flying = FALSE]
              /\ UNCHANGED setbacks
           \/ ~ foreign /\ Setback /\ CompositionFails
    /\ UNCHANGED <<inputs, foreign, campaign, conductor, compilation, calls>>

CompleteComposition ==
    /\ CompositionOpen /\ Composed.preflight # <<>> /\ Started
    /\ Pending(ComposedCell) = <<>>
    /\ IF ~ SamePortfolios THEN Exit(2) /\ UNCHANGED output
       ELSE /\ SaveComposition([Composed EXCEPT !.cells[Slot].status = "complete"])
            /\ command' = [command EXCEPT !.cell = @ + 1]
    /\ UNCHANGED <<inputs, foreign, campaign, conductor, compilation, calls, setbacks>>

CompositionEnds ==
    /\ Composing /\ Slot # 0 /\ Slot > Len(ComposedIds)
    /\ SaveComposition([Composed EXCEPT !.status = "complete"])
    /\ Exit(0)
    /\ UNCHANGED <<inputs, foreign, campaign, conductor, compilation, calls, setbacks>>

Composition == \/ CompositionStart \/ OpenCell \/ LaunchComposition \/ RecordComposition
               \/ CompleteComposition \/ CompositionEnds

-----------------------------------------------------------------------------
(* run_target: the phases, every command guarded.                            *)

\* --resume continues a campaign of the same inputs, nothing else does.
RunTarget(resume) ==
    /\ conductor.at = "idle" /\ calls < MaxCalls /\ calls' = calls + 1
    /\ Compiled
    /\ campaign.status # "absent" => resume /\ campaign.identity = inputs
    /\ LET begun == IF campaign.status = "absent"
                    THEN [NoCampaign EXCEPT !.identity = inputs, !.status = "prepared"]
                    ELSE campaign
       IN  IF foreign
           THEN campaign' = [begun EXCEPT !.status = "interrupted"] /\ UNCHANGED conductor
           ELSE campaign' = begun /\ conductor' = [at |-> "phase", phase |-> 1]
    /\ UNCHANGED <<inputs, foreign, output, command, compilation, setbacks>>

\* An exception: the campaign says interrupted, the phase's files stay.
Interrupt ==
    /\ campaign' = [campaign EXCEPT !.status = "interrupted"]
    /\ conductor' = Idle /\ command' = NoCommand

\* The command of a phase that is one command.
CommandOf(phase) ==
    IF phase = "composed"
    THEN [kind |-> "composition", resume |-> TRUE, cell |-> 0, flying |-> FALSE]
    ELSE [kind |-> "acceptance", cell |-> 0, flying |-> FALSE]

\* A group of which nothing fits in memory has no phase.
PassGroup ==
    /\ conductor.at = "phase" /\ conductor.phase <= Len(Phases)
    /\ Phase \in ToSet(Groups) /\ CellsOf(Phase) = <<>>
    /\ conductor' = [conductor EXCEPT !.phase = @ + 1]
    /\ UNCHANGED <<inputs, foreign, campaign, output, command, compilation, calls, setbacks>>

\* phase(): completed ones are compared with their artifacts and passed over.
EnterPhase ==
    /\ conductor.at = "phase" /\ conductor.phase <= Len(Phases)
    /\ Phase \in ToSet(Groups) => CellsOf(Phase) # <<>>
    /\ IF Complete(Phase)
       THEN IF campaign.phases[Phase] = output[Phase]
            THEN /\ conductor' = [conductor EXCEPT !.phase = @ + 1]
                 /\ UNCHANGED <<campaign, command>>
            ELSE Interrupt
       ELSE /\ campaign' = [campaign EXCEPT !.status = IF foreign /\ Phase \notin {"calibration", "plans"}
                                                       THEN "interrupted" ELSE "running"]
            /\ IF Phase \in {"calibration", "plans"}
               THEN conductor' = [conductor EXCEPT !.at = "probes"] /\ UNCHANGED command
               ELSE IF foreign
               THEN conductor' = Idle /\ UNCHANGED command
               ELSE /\ conductor' = [conductor EXCEPT !.at = "guarding"]
                    /\ command' = CommandOf(Phase)
    /\ UNCHANGED <<inputs, foreign, output, compilation, calls, setbacks>>

PhaseDone ==
    /\ campaign' = [campaign EXCEPT !.phases =
           [p \in DOMAIN @ \cup {Phase} |-> IF p = Phase THEN output[Phase] ELSE @[p]]]
    /\ conductor' = [at |-> "phase", phase |-> conductor.phase + 1]

\* What calibrate() and run_plans() still have to run; the basis until validated.
Remaining ==
    LET have(item) == \E row \in output[Phase].items : row.name = item
    IN  IF Phase = "plans" THEN SelectSeq(AcceptedPlans, LAMBDA w : ~ have(w))
        ELSE SelectSeq(CalibrationItems, LAMBDA item : ~ have(item)
                           \/ (item = "basis" /\ ~ output[Phase].validated))

NextProbe ==
    /\ conductor.at = "probes"
    /\ IF Remaining = <<>> THEN PhaseDone /\ UNCHANGED command
       ELSE IF foreign THEN Interrupt
       ELSE /\ command' = [kind |-> "probe", item |-> Remaining[1]]
            /\ conductor' = [conductor EXCEPT !.at = "guarding"]
            /\ UNCHANGED campaign
    /\ UNCHANGED <<inputs, foreign, output, compilation, calls, setbacks>>

\* A probe returns; a failing one leaves nothing.
ProbeReturns ==
    /\ command.kind = "probe"
    /\ \/ /\ command' = [kind |-> "ended", code |-> 0, item |-> command.item]
          /\ UNCHANGED setbacks
       \/ Exit(1) /\ Setback
    /\ UNCHANGED <<inputs, foreign, campaign, output, conductor, compilation, calls>>

\* guarded(): the phase's directory is renamed, the campaign interrupted.
Quarantine ==
    /\ output' = [output EXCEPT ![Phase] = EmptyOutput[Phase]]
    /\ Interrupt

Guarding == conductor.at = "guarding"

\* Once a second the monitor looks for other clients; it stops its own command.
Monitor ==
    /\ Guarding /\ command.kind # "ended" /\ foreign
    /\ Quarantine
    /\ UNCHANGED <<inputs, foreign, compilation, calls, setbacks>>

\* The command has ended: contaminated, failed, or one step further.  A basis
\* whose holdouts do not validate is kept and fails the phase.
CommandEnds ==
    /\ Guarding /\ command.kind = "ended"
    /\ IF foreign THEN Quarantine /\ UNCHANGED setbacks
       ELSE IF command.code # 0 THEN Interrupt /\ UNCHANGED <<output, setbacks>>
       ELSE IF Phase \notin {"calibration", "plans"}
       THEN PhaseDone /\ command' = NoCommand /\ UNCHANGED <<output, setbacks>>
       ELSE LET item == Sample(command.item, 0)
                With(validated) == output' =
                    [output EXCEPT ![Phase].items = {row \in @ : row.name # command.item} \cup {item},
                                   ![Phase].validated = validated]
            IN  \/ /\ With(command.item = "basis")
                   /\ conductor' = [conductor EXCEPT !.at = "probes"]
                   /\ command' = NoCommand /\ UNCHANGED <<campaign, setbacks>>
                \/ /\ command.item = "basis" /\ Setback
                   /\ With(FALSE) /\ Interrupt
    /\ UNCHANGED <<inputs, foreign, compilation, calls>>

FinishCampaign ==
    /\ conductor.at = "phase" /\ conductor.phase > Len(Phases)
    /\ campaign' = [campaign EXCEPT !.status = "resolved-declared-campaign"]
    /\ conductor' = Idle
    /\ UNCHANGED <<inputs, foreign, output, command, compilation, calls, setbacks>>

Conducting == conductor.at \in {"phase", "probes", "guarding"}

\* ctrl-C: the command's process group is stopped, its checkpoints stay.
CtrlC ==
    /\ Conducting /\ Setback
    /\ Interrupt
    /\ UNCHANGED <<inputs, foreign, output, compilation, calls>>

\* The machine goes down: nothing is written any more.
PowerLoss ==
    /\ conductor.at # "idle" /\ Setback
    /\ conductor' = Idle /\ command' = NoCommand
    /\ UNCHANGED <<inputs, foreign, campaign, output, compilation, calls>>

-----------------------------------------------------------------------------
(* The compositions started by hand, in the campaign's directory *)

ComposeByHand ==
    /\ conductor.at = "idle" /\ command.kind = "none" /\ calls < MaxCalls /\ calls' = calls + 1
    /\ conductor' = [at |-> "by hand", phase |-> Len(Phases) - 1]
    /\ command' = [CommandOf("composed") EXCEPT !.resume = FALSE]
    /\ UNCHANGED <<inputs, foreign, campaign, output, compilation, setbacks>>

HandEnds ==
    /\ conductor.at = "by hand" /\ command.kind = "ended"
    /\ conductor' = Idle /\ command' = NoCommand
    /\ UNCHANGED <<inputs, foreign, campaign, output, compilation, calls, setbacks>>

-----------------------------------------------------------------------------
(* The world around the campaign *)

ClientArrives ==
    /\ ~ foreign /\ Setback /\ foreign' = TRUE
    /\ UNCHANGED <<inputs, campaign, output, conductor, command, compilation, calls>>

\* It stays as long as it likes: one that is gone before the next look is not seen.
ClientLeaves ==
    /\ foreign /\ foreign' = FALSE
    /\ UNCHANGED <<inputs, campaign, output, conductor, command, compilation, calls, setbacks>>

\* A rebuild or an edited workload, between two calls.
InputsChange ==
    /\ conductor.at = "idle" /\ Setback /\ inputs' = inputs + 1
    /\ UNCHANGED <<foreign, campaign, output, conductor, command, compilation, calls>>

Next ==
    \/ StartPrecompile \/ Precompile \/ PrecompileInterrupted
    \/ \E m \in Modules : Evict(m)
    \/ \E resume \in BOOLEAN : RunTarget(resume)
    \/ PassGroup \/ EnterPhase \/ NextProbe \/ ProbeReturns \/ Monitor \/ CommandEnds \/ FinishCampaign
    \/ Acceptance \/ Composition \/ ComposeByHand \/ HandEnds
    \/ CtrlC \/ PowerLoss \/ ClientArrives \/ ClientLeaves \/ InputsChange

Spec == Init /\ [][Next]_research

-----------------------------------------------------------------------------
(* Properties *)

RowsIn(phase) ==
    IF phase \in {"calibration", "plans"} THEN output[phase].items
    ELSE IF output[phase] = Nothing THEN {}
    ELSE UNION {ToSet(output[phase].cells[c].rows) : c \in DOMAIN output[phase].cells}

\* A completed phase holds everything it declares that fits in memory: every cell
\* of a group is paired with every baseline in every trial or known unavailable,
\* every composed cell has each portfolio in every trial, every plan is timed.
PhasesAreWhole ==
    \A phase \in DOMAIN campaign.phases :
        LET files == campaign.phases[phase]
        IN  CASE phase = "calibration" -> files.validated
              [] phase = "plans" -> {row.name : row \in files.items} = ToSet(AcceptedPlans)
              [] phase = "composed" ->
                    /\ [c \in DOMAIN files.cells |-> files.cells[c].id] = ComposedIds
                    /\ \A c \in DOMAIN files.cells :
                          {<<r.name, r.trial>> : r \in ToSet(files.cells[c].rows)}
                             = ToSet(files.cells[c].portfolios) \X (1..Trials)
              [] OTHER ->
                    /\ [c \in DOMAIN files.cells |-> files.cells[c].id] = CellsOf(phase)
                    /\ \A c \in DOMAIN files.cells : LET cell == files.cells[c] IN
                          \/ cell.status = "unavailable"
                          \/ /\ Len(cell.rows) = Trials * (1 + Len(Baselines[cell.id]))
                             /\ Cardinality({<<r.name, r.trial>> : r \in ToSet(cell.rows)}) = Len(cell.rows)

\* Nothing is compared before the target's own basis is validated, and the
\* mappings a composition replayed are those of the complete cells of its build
\* that are still there.
ComparisonsRestOnBasis ==
    /\ \A phase \in ToSet(Groups) \cap DOMAIN output : RowsIn(phase) # {} =>
           Complete("calibration") /\ campaign.phases["calibration"].validated
    /\ Complete("composed") /\ campaign.identity = inputs =>
           \A c \in DOMAIN output["composed"].cells :
               LET cell == output["composed"].cells[c]
               IN  cell.portfolios = Portfolios(Workload(cell.id))

\* Only a client that the guard itself saw costs evidence, and only its phase's: one
\* that a command saw, an ordinary failure, ctrl-C, a crash or a resumed run keeps
\* every measured row (docs/hardware/v100.md:104).
EvidenceStays ==
    \A phase \in DOMAIN output :
        \/ {<<r.name, r.trial>> : r \in RowsIn(phase)} \subseteq {<<r.name, r.trial>> : r \in RowsIn(phase)'}
        \/ foreign /\ conductor.at = "guarding" /\ phase = Phase

EvidenceKept == [][EvidenceStays]_research

\* "Earlier complete phases retained": once recorded complete, a phase is never run
\* again, put aside or altered (docs/hardware/v100.md:104).
PhasesStay ==
    \A phase \in DOMAIN campaign.phases :
        /\ phase \in DOMAIN campaign'.phases
        /\ campaign'.phases[phase] = campaign.phases[phase]
        /\ output'[phase] = output[phase]

CompletePhasesKept == [][PhasesStay]_research

\* A call that nothing disturbs walks the declared campaign to its end
\* (docs/hardware/v100.md:112, tests/test_research_target.py:172-175).
UndisturbedRunResolves ==
    setbacks = 0 /\ conductor.at = "idle" /\ campaign.status # "absent" =>
        campaign.status = "resolved-declared-campaign"
=============================================================================
