# Verification of cuButterfly

TLA+ models of cuButterfly, the TLC instances that check them, and TLAPS proofs
about the parts where small instances say least. Paths are relative to the
repository; module names are files of this directory. (The repository keeps its
C++ in a directory `src`, which `PROJECT.json` names `src/src/...`.)

cuButterfly computes butterfly transforms (NTT, FFT, FWHT, ...) on a GPU. A plan
names a *mapping*: how the stages of a transform are cut into folds, roles, tiles
and launches. The repository has two halves. The library executes mappings; its
arithmetic is tested against references, and what tests hardly reach is the
*synchronisation* between warps, blocks, streams, threads and processes. The
scripts find mappings: they enumerate and edit them, measure them in campaigns of
hours that are interrupted and resumed, and predict what they cost; what tests
hardly reach there is *what a resumed program believes of the files it left*, and
whether the predictions agree with what the library does. A value in these models
is therefore its provenance (which invocation, transform, element and stage; which
build, trial and call), never a number modulo a prime or a time in milliseconds.

## 1. Inventory

### The library

| component | source | state | operations |
|---|---|---|---|
| hierarchical streaming kernel | `src/ntt.cu` 2763-3070 | readiness tokens and wave counters, packed `consume_state`, `consumed_epoch`, ring and full-scratch edges, per-warp task number and tile | clear, grid barrier, acquire slot, await wave/tokens, load, CAS the consume count, signal the epoch, compute, store, publish, relaunch |
| batch pipeline | `src/batch_pipeline.cuh` | one stream per group, two slots per boundary, events `begin_`, `done_`, `ready_`, `consumed_` | `enqueue` from any caller stream, a launch that throws, `release` |
| factor pipeline | `src/factor_pipeline.cuh`, `src/fft_factor_plan.cpp` | one stream per factor, one scratch per edge, a ready event per slice | `enqueue`, `factor_tile_range`, throw, `release` |
| one-CTA role pipeline | `src/hybrid_dataflow.cuh` 1-378 | state (one or two copies), channels, flags in shared memory, named barriers | load, packets through roles, handoff by barrier or by flag, fold and round boundaries, output |
| APPT fold pipeline | `src/ntt.cu` 421-660 | two global buffers, channels, flags, transpose tile | packets through roles, grid barriers, tile-wise transposition |
| selection cache | `src/c_api.cpp` 478-520 | text file, `flock` descriptors | `lookup_cache`, `store_cache` |
| on-demand module cache | `src/jit_module.cpp`, `scripts/compile_module.py` | `module_mutex`, loaded modules, cache directory, manifest, `compile.lock`, budget file | prepare, render/compile/verify, charge the budget, describe, publish |
| C API, plan lifecycle | `src/c_api.cpp`, `src/plan_registry.cpp` | handles, descriptors, workspaces | create, execute, destroy |
| other kernels, planners, references | see `PROJECT.json` | none, or as above with fixed digits | arithmetic, enumeration, scoring |

### The scripts

| component | source (`scripts/`) | state | operations |
|---|---|---|---|
| hardware installation | `tune_hardware.py`, `calibrate_hardware.py`, `calibrate_local_hardware.py` | `tuner_state.json`, `migration_manifest.json`, device profile, search audit and journal, seeds, operator calibration, replay | rounds of an installation under a time budget; a calibration with its search; replay and grading |
| hardware registry | `hardware_registry.py` | one JSON file, its lock, a copy per promoter | locked read, merge, rename |
| stage-service calibration | `stage_service_calibration.py`, `stage_checkpoint_import.py`, `stage_acquisition_order.py`, `stage_service_model.py` | the checkpoint (rows, descriptions, candidates, coverage), two sidecars per state, the running call | describe, order, measure loads, adaptive midpoints, promote a failed holdout, reuse, resume, import, refresh under a newer curve model |
| research campaign | `run_research_target.py`, `run_research_acceptance.py`, `run_crypto_composition.py`, `precompile_research.py` | `campaign.json`, a directory per phase, the guarded command, compile journal and module cache | precompile, calibrate, accept a group, compose, time plans; quarantine, resume |
| controlled experiments | `run_controlled_experiment.py` | the journal of one study | prepare, preflight, paired trials, verdict |
| application study | `run_crypto_application_study.py` | frozen inputs, journals of three searches, two locks of other studies, composed cells, summary | prepare, wait, gate, search, compose, report |
| mapping sweep | `sweep_cubutterfly_designs.py` | `OUTPUT.partial`, the output, rows in memory | enumerate forms, measure, append, resume, write |
| mapping search | `evolutionary_search.py`, `calibration_space.py`, `resident_mapping.py`, `butterfly_design_space.py`, `calibration_seeds.py`, ... | none | edits of a mapping, rounds of proposals, order of screening, projections, seeds |
| cost models | `stage_cost_model.py`, `fit_local_cost_model.py`, `schedule_cost_model.py`, `pipeline_schedule_model.py`, `select_mapping.py`, `stage_composition.py` | two cached probe artifacts | terms and schedules, holdout gates, probe curves, interpolation, ranking |
| oracles | `factor_dependency_oracle.py`, `fft_cooperative_oracle.py` | none | dependencies of factors; a cooperative tile |
| generators, analyses, summaries | some 110 scripts | none | print code, tables, figures |

### How they interact

* `cubutterflyCreatePlan` asks the **selection cache** (or a measurement, whose
  result it stores) for a mapping, then the plan's constructor asks the **module
  cache** for compiled code. The two share only the process: its threads, its
  death, and the file descriptors a forked compiler inherits.
* Batched multi-group plans go through the **batch pipeline** and factor-streamed
  FFTs through the **factor pipeline**, which launch kernels on streams of their own
  and meet the caller only at events. A kernel may itself be a pipeline: of warps
  over *segments* (**streaming**), of roles in one block (**hybrid**) or in every
  block with grid-wide transpositions between folds (**APPT**).
* The tuner runs `calibrate_hardware`, which runs `calibrate_local_hardware`, each a
  child process that the parent knows by its exit code and its files. A
  calibration runs the **stage calibration** and the **search**, whose rounds take
  their candidates from the **mapping search** and the **cost models**, and promotes
  what it measured into the **registry**, where the calibrations of other GPUs
  promote too and later searches find their seeds.
* A **campaign** guards one command after another and moves a disturbed phase's
  directory aside; its compositions read the journals of its acceptance runs. An
  **application study** waits for, and then holds, the locks of earlier studies.
* Everyone that measures polls for other clients of the GPU. There is no lock on it.

### What is hard

| component | hazard | properties |
|---|---|---|
| streaming | stale tokens of an earlier launch; slot reuse under a slow consumer; racing CAS counts; two wave formulas that must agree; circular waits | `OperandsFresh`, `SlotHandover`, `ConsumeCountExact`, `WaveCounterExact`, `EpochsAdvance`, `OutputComplete`, `EveryLaunchEnds`, `ImplementsDataflow` |
| batch, factor | a wait names the record an event had *when the call was made*; alternating callers; half an invocation left by an exception; slices that are not dependency-closed | `EveryResultReady`, `BuffersExclusive`, `ImplementsTiles` |
| hybrid, APPT | unchecked first packets of a fold; ragged folds, packets and groups; barriers that only count threads; flags and tile sharing memory | `TransformRight`, `SlotsExclusive`, `CursorsInRange`, `LaunchesEnd`, `FlagsInside` |
| caches | torn records, an unlocked first read, two builders, a crash between manifest and rename, the shared budget, locks that survive their owner | `LookupFresh`, `TornNotReplayed`, `BuildsPublished`, `BudgetKept`, `EveryCallReturns` |
| installation, registry | files of two ages after a kill; a torn profile; two promoters; a session killed with the lock; budgets over several invocations | `CompleteIsInstalled`, `EvidenceKept`, `PromotionsKept`, `InvocationEnds` |
| stage calibration | a row without its notes after a kill; verdicts recorded under another curve model; imports; reuse that stands for what was not measured; a loop over promotions | `CompleteHolds`, `SidecarsResolve`, `EvidenceKept`, `CallEnds` |
| campaigns | phases set aside when another client is seen; studies that start while another takes their locks; a phase called complete with a trial missing; trials of two builds in one verdict; a resumed command that never began; appends that are cut | `EarlierStudiesRest`, `CompleteIsWhole`, `ComparisonsSound`, `MeasurementsKept`, `UndisturbedResolves` |
| search, models | fields of a mapping that every edit must keep in step; rounds that repeat or starve; costs that drift from what the runtime enqueues; identities drawn too wide | `MappingsFit`, `SearchComplete`, `CostsFollowRuntime`, `ServicesHold`, `OraclesAgree` |

`PROJECT.json` lists each hazard with its line. Three have no property, each with
the reason: weak memory ordering of a consumer's loads, templates edited during a
build, and the 32-bit role-weight product. Section 6 lists what else a reader of
these models should know the code does.

## 2. Modules

```
StreamingGeometry <-- StreamingDataflow (abstract)
       ^                      ^ refinement
StreamingKernel --------------'
  ^   ^-- StreamingKernelProofs
MCStreamingKernel
CudaStreams <-- BatchPipeline --refinement--> BatchDataflow (abstract)
            <-- FactorPipeline, on the addresses of FactorGeometry (FactorGeometryProofs)
BatchPipeline <-- MCPipelines --INSTANCE--> FactorPipeline, FactorGeometry
                  ^-- PipelineProofs
ButterflyStages <-- HybridPipeline <-- MCFolds --INSTANCE--> ApptPipeline
                                      ^-- FoldProofs
PlanCreation --INSTANCE--> SelectionCache, ModuleCache
  ^-- MCPlanCreation, PlanCreationProofs

CompiledSearch <-- HardwareCalibration <-- HardwareTuner <-- MCHardwareTuner, HardwareTunerProofs
StageCandidates <-- StageCalibration <-- MCStageCalibration, StageCalibrationProofs
ResearchCampaign <-- MCCampaigns <-- CampaignProofs
MCCampaigns --INSTANCE--> ControlledExperiment, ApplicationStudy, MappingSweep
ResidentAxes <-- MappingSearch, CandidateSpace, ServiceIdentity
MCModels --INSTANCE--> these three, PlanCosts, ProbeCurves, VerificationOracles,
                       FactorGeometry, BatchPipeline, FactorPipeline
```

`A <-- B` reads "B extends A". An `MC...` module supplies constants; `MCPipelines`,
`MCFolds` and `MCCampaigns` also compose: a behaviour of theirs runs one of several
systems, chosen by the initial state. In every module, operators named in a comment
"Mutant:" are plausible bugs of the operator below them; no specification uses
them, and `PROJECT.json` pairs each with the property that finds it.

### StreamingGeometry, StreamingKernel, StreamingDataflow

`StreamingGeometry` is the index arithmetic. The code keeps logarithms and
shifts; the module keeps sizes, so `>>` is `\div`, a mask is `%`, and an OR of
disjoint digits is a sum. `Address` is an element of a task, `ProducerWithin` the
producer token a consumer polls, `ConsumerWave`/`ProducerWave` the two wave
formulas of full-scratch edges, `OutputAddress` the final digit reversal.

`StreamingKernel` has one action per memory operation that another warp can see:
`Clear` (a warp's strided share of the readiness words), `GridSync`,
`AcquireSlot`, `AwaitWave`, `AwaitToken`, `LoadElement`, `ObserveConsume`, the CAS
`SwapConsume`/`RetrySwap`, `SignalConsumed`, `Compute`, `StoreElement`, `Publish`,
`Relaunch`. A warp's 32 lanes poll tokens and load in any order (`granted`,
`pending`), a lane its own elements in order; a `WarpSize` of 1 makes the whole
warp do so, which bounds the state space of `streaming_chain`.
`ready` holds tokens on ring edges and counters on full-scratch edges, and a
launch begins on whatever `StaleWords` the last use of the workspace left.

`StreamingDataflow` promises, without warps, tokens or epochs: a task takes its
operands once all its producers have stored; stores once its slot's earlier
consumers have taken theirs; and does each once per launch. `ImplementsDataflow`
maps it to task counters and phases.

### CudaStreams, BatchPipeline, BatchDataflow, FactorGeometry, FactorPipeline

`CudaStreams` is the runtime as these files use it (external): streams are queues,
an event is a count of its records, a wait captures the latest record and is void
if there is none. A host step (`Begin`, `EnqueueGroup`, `EnqueueSlice`, `End`, ...)
is what `enqueue` does between two launches: enqueueing into distinct queues
commutes with what the device does except through those queues, so nothing is lost
by taking it at once. A launch on the device is two steps, and it destroys its
destination at the first, so an overlap is visible. `LaunchFails` is a launch that
throws in the middle of `enqueue`, with everything already enqueued left behind.
Calls of `enqueue` on a plan come one after another (`docs/c_api.md:31`: "One plan
must not be submitted concurrently from multiple host threads"), from any stream.

A behaviour runs one *plan*, a record of the scheduler's parameters, chosen in the
initial state from `Plans` (batch) or `FactorPlans`. `ValidPlans` says what a plan is.
For the factor pipeline that includes `DependencyClosed`, the contract of its slices
(`src/factor_pipeline.cuh:7-10`): what a launch reads and writes are sets of addresses,
and it is `FactorGeometry`, the digit rotations, that computes them for the plans of
the run, and for any other: `ValidFactors` is what `normalize_factor_mapping` accepts,
`Plan` the plan it makes, and section 4 shows that the contract holds.

`BatchDataflow` is the promise: tiles in order through concurrent stages, at most
two between neighbours, invocations in turn.

### ButterflyStages, HybridPipeline, ApptPipeline

`ButterflyStages` is a radix-2 stage on provenance: an element at level `s`
advances only with its own partner and twiddle offset, anything else becomes
`Garbage`. Register shuffles between lanes are abstracted to "the stage maps the
token". Both pipelines take the kernels' template arguments as a record, and the
initial state chooses one of `Launches`. A warp's waiting, taking, storing,
announcing and releasing are separate steps. `HybridPipeline!Meet` is a named barrier
between two warps, `ApptPipeline`'s `StartFold`, `SyncTile`, `NextTile`, `EndFold`,
`NextFold` are the block and grid barriers.

### SelectionCache, ModuleCache, PlanCreation

`SelectionCache` is a file of tokens (key, tab, algorithm, newline). A record
reaches it in one write or two, a full disk keeps a prefix, a kill may come
between; a lookup that finds no file takes no lock. `ModuleCache` has the thread
inside `module_mutex`, its compiler process, `compile.lock`, the budget lock held
across nvcc, the manifest, and the rename that publishes. `PlanCreation` composes
the two as `cubutterflyCreatePlan` does, with one thing neither has alone: the
descriptors of `CacheLock` are opened without `O_CLOEXEC`, so a compiler forked by
another thread keeps a dead process's `flock` until it exits.

### CompiledSearch, HardwareCalibration, HardwareTuner

Four programs that call each other, and the files that are all one of them sees of
another. The modules are stacked as the programs are; the steps of one are named for
its functions, and `HardwareTuner!Next` interleaves them with what comes from
outside: a kill of any of them (a parent's death takes its session along), a tuner
that runs out of time, a GPU someone else uses, binaries built anew between two
invocations, a replay or a model gate that fails.

`CompiledSearch` has the audit (`search_coverage.json`), the journal
(`search_measurements.json`) and the seed snapshot. Each is written aside and renamed,
so a kill leaves an old file next to a newer one, never a torn one.
`HardwareCalibration` has the registry, which is `locked_registry` and `promote` for any
set of promoting processes, each with the copy of the document it changes; and two
programs: the local calibration, with three files that are rewritten in place and can be
torn, and the installation around it, which writes its manifest before and after, and
grades what it finds. `HardwareTuner` decides from grades, exit codes and the remaining
time whether to run another round.

A measurement is the trial it was taken in and the build of the binary; its latency is
a constant function of the design. What the stage calibration
does inside a calibration is `StageCalibration`'s matter.

### StageCandidates, StageCalibration

The first part of `StageCandidates` is what may be predicted from rows: the training loads of a curve,
linear interpolation, no extrapolation, and the driver's holdout check.
The rest is a library of functions on a checkpoint document: aliases, merging
of a larger request, the intervals to validate, the reuse of a validated curve,
coverage and status, the order of acquisition, the merge of an import.
`StageCalibration` is the call as a state machine. `driver` is the running process with
its copy of the document, `disk` the checkpoint, `sidecars` the audit files it refers to.
`MeasureLoad`, `MeasureHoldout` and `DescribeNext` write it after each probe, in the
program's order; a kill returns to `idle` with `disk` as it is, and the next call goes on
from `LoadCheckpoint`. The stream visits the known configurations, then the requested
plans: one that is resolved at a load as large is passed over (`SkipKnown`). A later call may ask for more, import another checkpoint
(`ImportCheckpoint`) or run under a newer revision of the curve model (`Upgrade`), whose
curves are finer. Binary, device and protocol
identity are one constant: a call under others raises before it touches a file.

### ResearchCampaign, ControlledExperiment, ApplicationStudy, MappingSweep

Four programs that measure for hours and resume from what they wrote.
`ResearchCampaign` is the program that orders the phases, puts a disturbed phase's
directory aside and binds completed phases to the contents of their files, with the
guard that polls for other clients while a command runs, and the commands themselves
(`run_research_acceptance`, `run_crypto_composition`, the plans, the precompilation). `ControlledExperiment` is one study's
journal: preflights, alternating paired trials, verdicts. `ApplicationStudy` waits for
two earlier studies, holds their locks, runs a search of its own and times composed
cells. `MappingSweep` appends to `OUTPUT.partial`, possibly cut by a kill, and writes the
output from memory. Every journal entry keeps, for the properties alone, the call and the
build; no guard reads these. Other clients of the GPU come and go at any moment, looked at
or not. `MCCampaigns` chooses the program in the initial state.

### The algorithms of the scripts

`MCModels` evaluates pure functions on every small input. A state is one input, a
record `case` with a `kind`; a first step (`Choose`) picks the parts of the input that an
initial state leaves open, which keeps TLC's enumeration incremental. `Edit` walks
from a mapping to its neighbours, so that "however many edits" is reachability, and
`Rebuild` and `Calibrate` walk the probe artifacts through several calls.

* `ResidentAxes`: register tiles, warp prefixes, groups, and which mappings are legal.
  `MappingSearch`: the neighbours `evolutionary_search` proposes and a round's choice.
  `CandidateSpace`: architecture space, kernel forms, residency, screening order,
  projection of mappings that are not compiled, seeds.
* `PlanCosts`: schedules and terms, what the durations of kernels compose to, and the
  gates a regression passes before it may rank. `ProbeCurves`: what the empty-kernel
  and pipeline probes mean, and ranking across batches. `ServiceIdentity`: what a
  measurement may stand for.
* `VerificationOracles`: the two oracle scripts, the cooperative one over the
  prime field of 193 elements, which has the roots of unity a complex FFT uses.

They are compared with a definition that does not share their text: the schedule of a
plan with what `BatchPipeline` and `FactorPipeline` enqueue, the dependencies of factors with
the slices of `FactorGeometry`, the neighbours with all legal mappings one change away,
a cooperative tile with the transform's defining sum, curves with a scan of the rows.

## 3. Runs

| run | instance | shows |
|---|---|---|
| `streaming_ring` | n = 4 in 2 segments of 2, 3 transforms, ring of 2 slots, 2 warps per role, 2 launches, stale words 0 and 3 | operands, slot handover, exact counts, monotone epochs, complete output |
| `streaming_chain` | n = 8 in 3 segments, 2 transforms, a ring of 1 slot and then a full-scratch edge, 2 launches, fair | wave counters, no circular wait, refinement of `StreamingDataflow` |
| `pipelines` | 2 callers, 2 invocations, on one of four plans. Batch: 3 groups and 5 transforms in tiles of 2 (a short last tile); 2 groups, 3 tiles, any launch may throw. Factor: 4 factors of 1 bit in 2 slices; factors of 1 and 2 bits, tiles of 2 columns, may throw | results, no two running launches conflict, refinement of `BatchDataflow` |
| `folds` | one of nine launches, fair. One CTA, 64 elements: 3 roles or 2 fused ones, 1 or 2 slots, both handoffs, both layouts, in place or ping-pong. APPT, 32 or 16 elements: 2 blocks over 3 folds; 2 replicas with ragged groups; 3 roles with 2 slots | the transform, slots, cursors, end |
| `appt_shared_memory` (violation) | 2 replicas, channels larger than the tile | Findings |
| `plan_creation` | 2 threads of one process, 1 of another, 1 key, 2 mappings, budget 2, one fault, fair | freshness, one published build, its manifest, budget, every call returns |
| `selection_cache_torn` (violation) | 2 threads, 1 key, 2 algorithms | Findings |
| `install` | 2 workloads, one with an alias and 2 designs; 2 trials, 1 finalist, 1 seed, 2 rounds, 2 setbacks, 1 promoting peer, fair | what is complete is installed and backed, trials and promotions are kept, an invocation ends |
| `stage_calibration` | 3 plans of 4 kernels, 3 requests, 3 calls, 1 setback, 2 curve-model revisions, 2 memory sizes | what a complete checkpoint predicts, kept and unrepeated probes, sidecars, a call ends |
| `campaigns` | research: 2 groups, 2 trials, 5 calls, 3 setbacks; the other three: 3 calls, 2 setbacks | whole, sound and kept measurements, earlier studies at rest |
| `campaigns_first` (violation) | research alone matters: 4 calls, 2 setbacks | Findings |
| `models` | factored lengths to 2^4 in at most 3 factors, mappings of 2^6 (projections 2^7, online 2^10), partitions of up to 5 stages, 2 edits, 4 artifact calls | oracles, edits, screening, costs, identities |

Deadlock is checked in `streaming_*`, `pipelines`, `folds`, `appt_shared_memory` and
`plan_creation`, whose systems end in an explicit stuttering step. The other runs say
`CHECK_DEADLOCK FALSE`: the programs may really stop, once the calls and setbacks the
bounds allow are spent, and an input of `models` has no next one.

### Bounds, and why they are enough

* *Streaming.* Three transforms over two slots is the least number for which a
  slot is reused and a straggler of the older epoch meets it. Two warps per role
  race on each count; two launches expose what the first leaves. Three segments
  are the least in which a middle role waits both ways, and put a ring next to a
  full-scratch edge. Segments have two elements: with more, a task has more
  operands of the same kinds.
* *Pipelines.* Three tiles are the least that reuse a slot within an invocation, three
  groups the least with a stage that both consumes and produces. Two callers and
  two invocations alternate. Four factors have three edges, where two
  buffers used alternately would be live twice, and `Tiled` has a last digit that differs
  and tiles of two columns. The slices of longer factorisations with uneven digits are
  compared in `models`.
* *Folds.* Folds of full, partial and single-stage size, odd packet counts,
  both parities of the fold count. Warps have 4 or 2 lanes, tiles 2 to 8: the
  kernels' own limits on these (`log_n >= 6` or `12`, 32 lanes, 32x33 tiles) are
  sizes a state space cannot hold and no branch of the protocol depends on.
* *Plan creation.* `MaxFaults = 1`: one kill, full disk or compiler error, at every
  step; the second fault of the torn record is in `selection_cache_torn`. `Tuned`
  bounds which mappings a thread's measurement may favour. The small mapping costs
  1 and the large one 2 of a budget of 2, so that order decides who is refused. A
  record is cut in front of its tab, its algorithm or its newline.
* *Installation.* A workload with two designs has something to screen out and, over
  one finalist, a second round that may overturn the first; the alias is a second
  name for one design. Two setbacks put a kill into the repair of an earlier
  kill, or a rebuild behind one. Two trials are the least with a partial trial set.
* *Stage calibration.* The third plan's kernels are the other two's, which is what
  reuse is about; two of the kernels are one curve under revision 1 and two under
  revision 2, so a verdict can be recorded under a model that no longer holds. Three calls: request,
  larger request or import, resume. A memory of 4 refuses loads that 9 takes.
* *Campaigns.* Five research calls suffice to be disturbed or killed in one phase, resume,
  be killed in a later one, and finish. One group has nothing that fits, one plan is too large, one
  composition matches an acceptance cell, so each way to skip occurs. The experiment
  studies include one that must be refused and one whose variants coincide.
* *Models.* Every factorisation into up to three factors of one to `MaxBits` bits with
  uneven digits; radices 2, 4, 8; the batch 1 (where the code often takes another branch)
  and a larger one; two edits on top of every base mapping, since a field can only be left
  behind by one edit and read by the next.

### Fairness

Liveness is claimed only where the scheduler is known.

* `cudaLaunchCooperativeKernel` makes every block resident or fails, and a resident
  warp is scheduled: weak fairness per warp (`StreamingKernel`). In `folds` a weaker
  assumption suffices: while some warp can run, some warp runs.
* `pipelines` claims none: `cudaStreamWaitEvent` can only name a record that was already
  enqueued, so every wait points backwards and no schedule can close a circle.
* In `PlanCreation`, as long as a thread or a compiler can go on, one of them does.
  Kills, full disks and errors are never forced. Nothing stronger is needed since
  every wait is for a lock whose holder can go on, and the calls are finitely many.
* In `HardwareTuner`, the running program goes on (`Running`) and a peer that promotes
  finishes its rename, so the registry's lock is given back. Nobody has to invoke the
  tuner, kill, rebuild or promote. In `StageCalibration`, a call in progress takes its
  next step; `Fairness` says the same with the program counter, which spares TLC an
  `ENABLED` of a large action.

## 4. Proofs

TLAPS proves the following for every value of the constants.

**The streaming kernel** (`StreamingKernelProofs`), under
`GeometryAssumption` (the digits multiply to `N` and prefixes and remainders are their
partial products), `KernelAssumption` (every role has a worker, an edge has between one
slot and one per transform) and `ClearAssumption` (the warps' shares cover the words to
clear). They hold of the descriptor loop of `launch_hierarchical_streaming`; TLC
evaluates them on each instance. Every safety and action property the streaming runs
check is proved, and so is the refinement; only the liveness is left to TLC.

* The arithmetic the protocol rests on: a right wait on a wrong
  token would be worthless. `AddressInRange`, `EveryElementAddressed` (each position is
  written, by some task at some item), `ProducerOfAddress` (the token a consumer derives
  from an address names the task that writes it). For full-scratch edges `WaveOfProducer`
  (the wave a consumer polls is the one its producers increment, though the kernel
  computes the two differently) and `FeederCount` (that wave has as many producers as the
  consumer waits for). `OutputPermutes`: the digit reversal of the last segment's stores
  is a permutation. It is proved digit by digit: the smallest number of digits at which a
  partial reversal left its range, or gave two numbers one image, would have a
  predecessor at which it did so already.
* `TypeCorrect`, the first of the protocol. `TypeOK` is not inductive, since an index is in
  range only while the task number is and the phase is one the role goes through;
  `PhaseOK` adds that, and `TypeInv == TypeOK /\ PhaseOK` is. Then
  `CountCorrect` and `HandoverCorrect`, from `RingInv`. Its
  parts tell the story of a slot. A warp only has its own residue class of task
  numbers (`OwnTask`), and behind the barrier its share of the words is clear
  (`BeforeBarrier`, `ShareCleared`). A token's value bounds the transform its producer
  has stored (`TokenTrue`), so an operand granted or taken had been stored (`LoadFed`,
  `TakenFed`). A producer in a slot came after all releases of earlier transforms
  (`HandedOver`). The packed word counts exactly the released tasks of its epoch
  (`CountTrue`), a warp that goes on to signal saw the full count (`SignalTrue`), and
  `consumed_epoch` never exceeds a fully released transform (`EpochTrue`). `TakenFed`
  and `HandedOver` need each other: a task of the next transform in a slot cannot be
  taken before it is stored, nor stored before the slot was given back; without the
  pair a straggler could reset a newer count. One lemma per part shows that a step
  keeps it.
* `EpochsAdvanceCorrect`, an action property, from `EpochInv`. The kernel *stores*
  `consumed_epoch`, it does not take a maximum, so a signaller that was overtaken would
  set it back. `EpochReached` (a producer in a slot found the epoch of the transform before
  it signalled) and `SignalFirst` (while a warp is about to signal a transform, the
  epoch is still below it) exclude that.
* `OperandsCorrect`, `WaveCounterCorrect`, `OutputCorrect`, from
  `DataInv`, which adds to `RingInv` what memory holds. A wave counter is the number
  of its feeders that have stored (`WaveTrue`), and a warp past its poll, or one that took
  operands over such an edge, had them all (`WaveFed`, `FullTakenFed`; `UnreadTile`
  says that behind the poll nothing is taken yet). The results of a stored task stay in
  their slot until a later transform's task enters it (`CellsTrue`), and
  a warp in the middle of its stores has written what is no longer pending (`StoringTrue`,
  `StoringOut`, `OutputTrue`). `DoneTrue` says that a warp leaves when its role's tasks are
  used up, so behind the last one every task is stored; by `EveryElementAddressed` and
  `OutputPermutes` the output is then complete.
* `DataflowImplemented`, the refinement: the mapped initial state is one of
  `StreamingDataflow`, and each step takes operands, computes, stores, relaunches, or
  stutters. The enabling conditions of the abstract steps are consequences of `DataInv`.

**Plan creation** (`PlanCreationProofs`), over the composed specification, whose steps are
those of both caches, for any processes, threads, keys, mappings, durations and number of
faults. All safety properties of the run `plan_creation` are proved.

* `BuildsCorrect` and `BudgetCorrect`, from `ModuleInv == ModuleTypes /\ BuildInv /\
  BudgetInv`. A build is tied to its process's state through four facts: who
  works in a mapping's directory holds `compile.lock` (`LockHeld`), and then nothing is
  published there before its rename (`Unpublished`); the manifest that lies there when the
  rename comes describes the build about to be renamed (`DescribesNext`); what a process
  has loaded is what was published (`BuildsPublished` itself). For the budget, a compiler
  that has nvcc running or has to charge its time holds the budget's lock, and what the
  file or that compiler says is what was spent (`NoCompiler`, `BudgetHeld`, `SpentTrue`)
  until one dies with the file in its hands. A thread that has not entered `prepare` has
  no compiler.
* `LookupCorrect`, from `FileInv`. A writer is alone with the file from its lock to its
  newline (`WriterLocks`, which kills and inherited descriptors do not break: whoever
  inherits a descriptor keeps the lock, nobody gains one); a record that has its text and not
  its newline is the end of the file (`PendingRecord`). A lookup does not read a last line
  without newline (`TextUnread`), and appending changes no line that is there
  (`LineAppended`), so the answer for a key is its last complete record as soon as the
  newline is (`RecordCompleted`, `AnswersLatest`) unless a record was joined to a cut
  one. What was the last record while a lookup ran may be its answer (`FreshLatest`); this needs
  no lock, which is why the unlocked first lookup is right too.
* `PlanTypesCorrect`, from `CreationInv`, which adds to these `RangeInv` (no module, manifest
  or compiler names a build that was not made; a thread that waits for a compiler has one)
  and `InheritInv` (descriptors are inherited within a process, and a lock whose
  owner is dead is kept by a compiler that still runs).

The assumptions are `ClientAssumption` (the value that stands for a free lock is no
client), `PlanAssumption` (keys, mappings and the separators are different tokens) and
`PartAssumption` (a cut key or algorithm contains no newline).

**Installation** (`HardwareTunerProofs`), over the composed specification: tuner,
installation, calibration, search, registry, kills, time-outs, new binaries and the
promotions of other GPUs, for any workloads, inventories, neighbours, latencies, trials,
promoters and bounds. All safety and action properties of the run `install` are proved, from
one invariant, `Inv`. Its parts are invariants of that instance too: TLC was asked
before each was proved.

* `EvidenceCorrect`, from `SearchInv`. That a row of full trials is never overwritten by a
  worse one is a matter of what the running search knows. `RowsKnown`: it has
  every full correct row of the journal among its own, but for the finalist it is adding
  trials to (`InTrial`). This would be false of a search that did not take over the
  journal; so `Kept` says that then there was nothing to lose (no full row, no complete cell
  that names one), and `AuditFirst` that full trials come after the first audit, without which a
  kill between journal and audit would lose them. `CellsTrue`: a cell the audit calls complete,
  on disk, in the running search or among the cells it resumes, has its rows in the journal, full
  trials behind each "measured" (`Backed`); that is half of `CompleteIsInstalled`.
  `FilesOK`, `SearchOK` and `CellNow` are types, of partial documents and of the search's step.
* `TypesCorrect`, from `SessionInv` (`TunerOK`, `MigrationOK`, `CalibrationOK`,
  `IncumbentsOK`), `SearchInv` and `RegistryInv`. `TypeOK` relates neighbours (no calibration
  without installation); the invariant adds in which step each waits for the other, that the
  registry's lock is held exactly between `LockRegistry` and `Publish`, and that
  the incumbents' rows are of full trials, which the rows the search returns must not undo.
* `PromotionsCorrect`, from `RegistryInv`: records have an owner
  (`OwnersKnown`), at most one process is between lock and rename (`Alone`), and its
  copy has everything the file did when it read it and still does
  (`CopyComplete`); a promotion that returned survives every later rename.
* `InstallationCorrect`, from `InstallInv`, which follows a row from the search to the
  registry. A search that has ended has the audit it wrote (`AuditIsDone`), so what audit and
  journal confirm is among the rows it returns; these go to
  `operator_calibration.json`, to the copy of the registry and to the registry
  (`RowsInstalled`). There the record of a design may be the measurement of an alias: the best of
  the rows of that design, each with enough trials, all of one workload. Another
  GPU's promoter that publishes later publishes a copy in which this GPU's records are as
  they were (`PeersCopy`). A grade of complete asks for a confirmed mapping of each
  workload, so each has its record (`GradeTrue`); the tuner's own "complete" is such a
  grade, and an invocation that still runs has called nothing complete.

The assumptions are `SearchAssumption` (workloads and inventories are sequences, latencies
numbers, neighbours candidates), `CalibrationAssumption` (candidates, their
neighbours and their designs are of one workload; incumbents have names of their own, as
`calibrate_local_hardware.py:724` gives them; other promoters are of other GPUs) and
`TunerAssumption` (a round adds to the budget, at least one round).

**The fold pipelines** (`FoldProofs`), over `MCFolds`, whose behaviours are a launch of one
kernel or the other, for any launches under `LaunchAssumption` and `PipelinesAssumption`
(the sizes that plan validation admits; only a cooperative launch has a grid), any warp
size and whatever shared memory held before.

* `SlotsStayExclusive`, from one invariant for each kernel, `HybridInv` and `ApptInv`. Both
  rest on `Ring`, about one edge: with `published` packets put in and `taken` given back, a
  flag is 1 just for the slots of the packets in between, of which there are at most as many
  as slots. Then a flag of 0 leaves room (`RingFree`), a flag of 1 means
  a packet to take (`RingFull`), and writing one flag changes one number by one
  (`RingPublish`, `RingRelease`). `Handshake` ties the numbers to the counters and program
  counters of the two warps of an edge. The wait a producer skips for its first packets is
  harmless because the ring is empty when the fold begins, and that is what has to be
  shown: both ends work through all packets of the fold, so at its end as many are given
  back as were put in (`FoldEnds`). Before the first fold it is the shares of the
  entry clear that cover every flag (`FlagsCleared`); in the cooperative kernel this
  happens at every fold, after a transposition that used the same memory.
* With the barrier handoff the two warps of an edge have passed equally many barriers at every
  moment of the fold (`Announced`, `Received`); a barrier number names edge and replica
  (`BarrierDistinct`), so whoever meets there is at one packet.

`CursorsInRange` and `TransformRight` of these kernels are left to TLC: positions are built
from powers of two, and `2^n > 0` is beyond the provers; the proof above never needs
what a packet contains.

**The stream schedulers** (`PipelineProofs`), over `MCPipelines`, for any plans that satisfy
`PlansAssumption` (which is `ValidPlans` of both schedulers, and that only factor plans
have slices): any numbers of groups, callers, invocations and slices, batches and tiles
of any size, calls that throw at any launch. Both safety properties of the run are proved
(`ResultsAreReady`, `BuffersAreExclusive`) and so is the refinement (`TilesImplemented`),
from one invariant, `PipelineInv`.

* What a wait protects is a matter of which record it captured when it was enqueued. The
  proof therefore speaks of *order*: an operation is `Behind` an operation of another stream
  when a wait ahead of it names a record that follows the other one; `BehindCaller` is the
  same through the caller's begin record. A record still in a stream has not happened
  (`RecordsPending`), so what is behind something cannot be the head of its stream
  (`HeadFree`). Popping a stream and enqueueing in others keep this order, whatever the
  operations are.
* `CallInv` says which operations must be behind which. `Ordered`: a use behind the last group's
  launches, an upload behind the earlier calls of its caller, a launch behind what its caller
  enqueued before, behind the launches of the group before for its own piece and
  all earlier ones, and behind the consumers of the slot it fills. `Fenced`: a
  launch behind the last group's launches of all earlier invocations that did not throw. The host's
  side of each is an invariant too: `HostFenced`, `DoneLatest`, `ReadyLatest`, and
  `ConsumedLatest` say what a wait for the *latest* record of an event would now be behind.
  `ConsumedLatest` is where the two slots enter: the latest record of a slot's `consumed_`
  follows every launch still in the stream that reads the slot, so the wait of the tile
  two ahead covers them all.
  `OrderInv` says that the pieces of a group are launched in order and downstream groups lag.
  A tile is called a piece, and so is a slice, so `CallInv` is one proof for both schedulers.
* `BatchInv` and `FactorInv` add the data. While a launch still to come needs a piece
  (`Needed`), its slot or its addresses hold it; while a caller awaits a piece (`Delivered`),
  the output does. A launch that would overwrite such a value is for a later piece of the same
  invocation (`Intact`), hence in the other slot, or at other addresses. An invocation that
  threw is never needed: its own buffers may be overwritten, as section 6 notes, and the
  later invocations are right all the same, which is what the proof has to show.
* The refinement needs `CountTrue`: a group has finished at most as many launches as a
  tile's number just when that tile's launch is still to come. The guards of `BatchDataflow` then follow from `Ordered` and
  `Fenced`.

**The slices of a factor plan** (`FactorGeometryProofs`). `ResultsAreReady` and
`BuffersAreExclusive` assume of a factor plan that its slices are `DependencyClosed`.
`SlicesClosed` proves it of the slices that `factor_tile_range` chooses and the addresses
the range kernel computes, for every factorisation, tile width, number of slices and batch that
`ValidFactors` admits.

* The unprocessed last digit decides. Group `g` works on runs of `Run(g)` transforms, the
  `F(Last) / Slices` values of that digit a slice has times the `P(g)` columns behind the
  digits already processed; tiles of slice `s` are the transforms `t` with
  `(t \div Run(g)) % Slices = s` (`SliceTransforms`, where `factor_tile_range`'s period and span
  are undone). An address `a` has a slice too, `SliceAt(g, a)`. A transform of a slice stores into
  its addresses and no others (`StoresInSlice`), every address is stored (`EveryAddressStored`),
  and what the next group's transform loads is in that transform's slice, because a row is a
  whole number of slices of that group (`LoadsInSlice`).
* Sizes are powers of two, so what has to divide does: `GroupSizes`, `TileSizes`. The
  provers know nothing of `2^n`, and they are told by the hypothesis `Powers` (products and
  order of powers up to `2^30`), which TLC evaluates with `FactorsAssumption`.

**The stage calibration** (`StageCalibrationProofs`), for any plans, kernels, requests,
modes and budgets, any timings and memory sizes, any number of calls, setbacks, imports and
revisions of the curve model. `SidecarsAlwaysResolve` and `EvidenceIsKept` (an action property
of two parts: nothing leaves the checkpoint, and no load that has a result is timed again) are
proved from one invariant, `StageInv`. What is on disk is not inductive by
itself: a call works on a copy of the document, which it writes back after every probe.

* `Evident`: while a call holds a document, it has the descriptions and every probe, request
  and composition of the checkpoint on disk; and while it measures it has no *other* row, so
  that what it has not seen is not on disk either. That is what makes `NothingRerun`
  true after a kill between a timing and the notes about it: the row was written before the notes,
  and the next call looks at rows, not at notes.
* `KeysKnown`: a configuration that is visited next is in the document under that key. A curve
  model renames keys only while a document is loaded, before any is queued.
* `Filing`: the audit files of the checkpoint on disk exist, and once a call is past
  `WriteComposition` and `WriteInventory`, those of the document in memory do too; between the two writes the first does. Every later write of the call
  changes rows and descriptions, never the requests that name these files.
* `DocumentOK` and `DriverOK` are types: of rows, configurations and descriptions, whose
  batches are numbers, so that a merge of two descriptions keeps the larger.
* Configurations are filed, merged and rebuilt, rows appended and holdouts judged again by
  folds over sequences. A fold is a recursive function inside the library; for each there is
  a lemma that unrolls it (`FiledFold`, `MergedFold`, `RebuiltFold`, `UniqueFold`, `JudgedFold`: first value, next
  value, last value), and what it preserves is shown by induction on the unrolling. Thus `AppendUnique`
  keeps every row of both documents up to their derived fields (`ProbesIn`), and a judgement
  changes verdicts, never probes.

`CalibrationAssumption` is what the request parser guarantees: finitely many plans, loads and
waves that are numbers, at least one. That an ordering of the plans omits none of
them (`OrderingComplete`, evaluated by TLC) is no hypothesis: a plan that
was dropped would be described too late, and nothing would be lost.

**The campaigns** (`CampaignProofs`), over `MCCampaigns`, for any groups, cells, compositions,
plans, studies, earlier studies, workloads and requests, any numbers of trials, calls
and setbacks. `EarlierStudiesAtRest` and `NothingMeasuredIsLost` (an action property, one
part for each program) are proved from an invariant per program, of which the running
one's is maintained (`MCInv`). The document on disk is again never enough: each invariant
relates it to the process that works on it.

* Research (`ResearchInv`): a complete phase is the contents of its
  directory (`CampaignTypes`), and the phase a command writes to is never a complete one
  (`CommandTypes`, `ConductorTypes`), also when the composition is begun by hand.
* Application (`AppInv`): from `locking`, the first locks are held in order, and the study
  of a held lock has resolved its matrix and runs no more (`Ours`, `LockTypes`): it is looked at under
  the lock, and what is resolved stays so whoever writes (`ResolvedStays`). Whoever times has
  them all (`RunnerTypes`); and the cell in memory has the rows of the saved
  one, so that saving it loses none.
* Sweep (`SweepInv`): files are of whole rows but for what a kill cut, and what a call has in memory contains
  the rows of the file it resumed.
* Controlled (`ControlledInv`): a call's document is the journal, or the journal and the effect of
  one step that is not written yet (`Kept`). A later call derives every verdict again; that it
  finds the same rests on `Reached`, which ties the place in the loops to what is recorded:
  a case is evaluated when every accepted variant has a row for every trial. A
  verdict is then about complete sets of trials (`AllRan`), no trial has two rows, so
  no later call adds one and the verdict stands.

`CampaignAssumption` and `StudyAssumption` say that the lists are lists, no group is named
like a fixed phase, there is a workload, and a case's variants are those in its order.

Only model-checked: of streaming, folds, plan creation and installation, that launches,
calls and invocations end (`EveryLaunchEnds`, `LaunchesEnd`, `EveryCallReturns`,
`InvocationEnds`); of the stage calibration, that what is complete is validated
(`CompleteHolds`) and that a call ends (`CallEnds`); of the campaigns, that what is complete is
whole (`CompleteIsWhole`: the rows still to be timed come from `SelectSeq`, of which the provers
know nothing) and that comparisons rest on one target (`ComparisonsSound`); and what the folds compute. Out of the prover's reach: liveness under fairness, `ENABLED`,
and facts about recursively computed data for every input (`models`, the butterflies, the
schedules). Documents are extended with `++` and `Entry` in `CompiledSearch` because tlapm
cannot expand `@@` and `:>`.

## 5. Findings

* **APPT, flags of the second replica** (`appt_shared_memory`). The launch at
  `src/ntt.cu:7655` allocates flags for one pipeline; the kernel uses those of every
  replica. They stay within the allocation only while the transpose tile is the
  larger part.
* **Selection cache, completed torn record** (`selection_cache_torn`).
  `src/c_api.cpp:502` says an incomplete last record is not replayable. True until the
  next append, which supplies the missing newline: the cut key now answers with
  text that runs into the next record, whose own key is lost. `LookupFresh` is
  therefore stated for files in which no record was joined to a cut one.
* **Research campaign, first composition** (`campaigns_first`).
  `scripts/run_research_target.py:517` gives every composition `--resume`, which
  `run_crypto_composition.py:712` refuses when there is no manifest yet. A first
  composed phase therefore fails, and fails again on every resume, unless a manifest
  already lies in its directory. `campaigns` reaches the later phases because the model,
  like an operator, may begin the composition by hand.

## 6. Abstracted or not modelled

* Butterfly arithmetic, codelets, numeric formats: tested against references, no
  protocol. Weak memory: models are sequentially consistent. Fences and `__syncwarp`
  order operations on the hardware; that they suffice is not shown.
* Lane-level register exchange, timing traces, host-side argument checks, JSON and
  registry formats; digests and rendering of modules (an identity is its mapping,
  templates stay constant).
* Milliseconds, bootstrap statistics and regression coefficients: a latency is an input
  or a constant, an experiment's statistics are left to the code. The cost models' verdicts are
  computed, from errors in thousandths.
* The other APPT kernels, the fixed-digit streaming kernels and the stage pipeline: variants
  of the three protocols above with parameters fixed, each with its own indices.
  The resident radix folds, radix, Bluestein, cuFFTDx, TurboFFT and direct kernels have
  no protocol between blocks. The C++ planners are sequential. The descriptor's role
  weights and byte offsets are the constants of `StreamingKernel`.
* Generators, analyses and summaries (some 110 scripts): they run once over finished
  measurements and keep nothing.

### What a reader should know the code does

Modelled as it is, or outside the properties; none of it is a claim of the repository
that a run refutes, unless a line is quoted.

* *Batch pipeline.* After a launch throws, `done_` is not recorded
  (`src/batch_pipeline.cuh:65`): the next invocation's first tiles wait for no consumer
  and fill slots the failed invocation's consumers have yet to read, in spite of line 12.
  Only the failed output suffers, so `EveryResultReady` holds of the later ones.
* *Module cache.* A killed compiler's time is not charged (`compile_module.py:43`); the
  identity digests templates long before nvcc reads them (473).
* *Installation.* `calibration_device.json`, `operator_calibration.json` and
  `calibration_manifest.json` are rewritten in place (`calibrate_local_hardware.py` 803, 881, 975),
  where `docs/hardware_profile_install.md:101-103` speaks of atomic evidence. An
  incomplete round ends `calibrate_hardware.py` with 1, which the tuner takes for a failure
  (`tune_hardware.py:583`). A session killed outright leaves its child running (359), as
  does a guarded command of a campaign (`run_research_target.py` 255-297).
* *Stage calibration.* An omission noted at 2198 is lost by a kill before the next save.
  `resolve_resources` (`stage_service_model.py:511`) overwrites known resources when
  the shape was measured under a single regime; `predicted_sample`
  (`calibration_space.py` 369-375) changes an empty `stage_partition` of its caller.
* *Campaigns.* Other clients are looked for once a second and after a command
  (`run_research_target.py` 264-283), or before and after a launch. One that comes and goes
  between two looks is never seen and its rows are kept, in the models too: no property says
  that a row was measured alone.
* *Controlled experiments.* A rebuild between two preflights is not compared (756-816), only
  one between trials; two runners on one journal meet no lock.
* *Application study, compositions.* A dependency's journal that is rewritten makes a
  begun cell impossible to resume (273); `run_crypto_composition.py` looks for a rebuild
  only when it starts (483-520).
* *Sweep.* `--resume` compares no identity of binary or device, where
  `docs/hardware_profile_install.md:551-555` describes one; an append that was cut makes
  the final write raise (527), at every later resume too. `CompleteIsWhole` is stated
  for outputs that nothing cut.
* *Search.* A factor's elements per thread and I/O policies can outlive the factors they were
  named for (`evolutionary_search.py` 1057-1113), and the register-tile moves at 583-621 apply to
  no mapping the rules admit. The cooperative oracle accepts columns its kernel does not.
* *Models.* `select_mapping.py` 105-107 clamps a slope of natural logarithm per doubling;
  `schedule_cost_model.calibrate` (60-83) returns a cached summary without refitting.

## 7. Plan

Done, in this order: the streaming core with its proofs; the stream schedulers; the fold
pipelines and the proof of their handshake; the proofs of the stream schedulers and of the slices they run; plan creation and its proofs; installation,
registry and their proofs; stage calibration with the proof of what it keeps; the campaigns and the proof
of what they keep; the algorithms of search and
cost models. Next:

1. `StreamingDescriptor`: role weights with 32-bit products, workspace layout against
   the kernel's use of it; it discharges `GeometryAssumption` and `KernelAssumption`
   from the host code.
2. The online APPT kernels and `src/stage_pipeline.cuh` on the ring of `ApptPipeline`.
3. Template updates against module identity; plan handles and workspaces of the C API.
