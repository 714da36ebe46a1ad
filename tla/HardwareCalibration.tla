------------------------ MODULE HardwareCalibration -------------------------
(***************************************************************************)
(* calibrate_hardware.py and the program it runs.                          *)
(*                                                                         *)
(* calibrate_local_hardware.py: the device's identity, the independent     *)
(* stage calibration, the incumbents of the installed selector             *)
(* (run_operator_calibration), the search, the cost model, the promotion   *)
(* into the registry, the manifest.  Most files are renamed into place;    *)
(* calibration_device.json, operator_calibration.json at the end of the    *)
(* run, and calibration_manifest.json are truncated and rewritten, and a   *)
(* kill in between leaves a file that no JSON reader accepts.              *)
(*                                                                         *)
(* calibrate_hardware.py: one installation of the measured mappings.  It   *)
(* records what it is about to do in migration_manifest.json, runs the     *)
(* calibration, replays the mappings it measured through the common        *)
(* selector, and grades the evidence the run left on disk: coverage of the *)
(* workloads, the search protocol, the cost model, the stage profile and   *)
(* the replay are judged apart.                                            *)
(***************************************************************************)
EXTENDS CompiledSearch, SequencesExt

CONSTANTS
    Promoter,        \* the processes that promote
    Hardware,        \* this GPU
    Promoting,       \* this process, as a promoter
    IncumbentOf,     \* per workload: the name of what the installed selector runs
    WorkOf           \* per candidate or incumbent: its workload

\* The names of everything that is measured.
Name == Candidates \cup {IncumbentOf[w] : w \in Members(Workloads)}

\* A candidate is of one workload, and so are the ones made of it; an incumbent has a
\* name of its own; a design is of one workload (the identity of a record has the
\* semantics of its workload); other promoters are of other GPUs.
ASSUME CalibrationAssumption ==
    /\ Promoting \in Promoter
    /\ Hardware \notin Promoter \ {Promoting}
    /\ \A w \in Members(Workloads) :
          /\ WorkOf[IncumbentOf[w]] = w /\ Latency[IncumbentOf[w]] \in Nat
          /\ IncumbentOf[w] \notin Candidates
          /\ \A c \in Members(Inventory[w]) : WorkOf[c] = w
    /\ \A c \in Candidates : \A d \in Neighbours[c] : WorkOf[d] = WorkOf[c]
    /\ \A c, d \in Name : DesignOf[c] = DesignOf[d] => WorkOf[c] = WorkOf[d]

VARIABLES
    registry,       \* the registry's file: a record per (hardware, design)
    held,           \* the promoters that have its lock
    document,       \* per promoter: the copy it is changing
    device,         \* calibration_device.json: "absent", "torn" or "whole"
    operator,       \* operator_calibration.json
    operator_build, \* operator_measurement_identity.json
    stages,         \* stage_service_profile.json
    model,          \* cost_model.json
    calibration,    \* calibration_manifest.json
    cal             \* the running calibration

files == <<device, operator, operator_build, stages, model, calibration>>
calvars == <<files, cal>>

(***************************************************************************)
(* The hardware registry (hardware_registry.py): one JSON file that the    *)
(* calibrations of every GPU of a machine merge their measured mappings    *)
(* into.  A writer takes the file's lock, reads the document, changes its  *)
(* own copy and renames a new file over the old one; a reader that only    *)
(* looks for seeds takes no lock.                                          *)
(***************************************************************************)
registryvars == <<registry, held, document>>

NoDocument == [x \in {} |-> x]

RegistryInit(records) ==
    /\ registry = records
    /\ held = {}
    /\ document = [p \in Promoter |-> NoDocument]

\* What promote makes of a list of candidates: of those that name one design, the
\* fastest; a measurement of an earlier calibration is replaced, never compared.
Promoted(hardware, candidates) ==
    [id \in {<<hardware, c.design>> : c \in candidates} |->
        LET same == {c \in candidates : c.design = id[2]}
            best == CHOOSE c \in same : \A d \in same : c.latency <= d.latency
        IN [latency |-> best.latency, samples |-> best.samples, work |-> best.work]]

\* The records of a document with those of a promotion in their places.
Merged(promoted, records) ==
    [id \in DOMAIN promoted \cup DOMAIN records |->
        IF id \in DOMAIN promoted THEN promoted[id] ELSE records[id]]

\* Mutant: the lock is not waited for.
ReadUnlocked(p, hardware, candidates) ==
    /\ held' = held \cup {p}
    /\ document' = [document EXCEPT ![p] = Merged(Promoted(hardware, candidates), registry)]
    /\ UNCHANGED registry

\* Lock, read, merge.
ReadRegistry(p, hardware, candidates) ==
    /\ held = {}
    /\ held' = held \cup {p}
    /\ document' = [document EXCEPT ![p] = Merged(Promoted(hardware, candidates), registry)]
    /\ UNCHANGED registry

\* Rename and unlock.
WriteRegistry(p) ==
    /\ p \in held
    /\ registry' = document[p]
    /\ held' = held \ {p}
    /\ document' = [document EXCEPT ![p] = NoDocument]

\* Mutant: a dead promoter keeps its lock.
AbandonDocument(p) ==
    /\ document' = [document EXCEPT ![p] = NoDocument]
    /\ UNCHANGED <<registry, held>>

\* A promoter that dies loses the lock with its descriptor and leaves the file.
AbandonRegistry(p) ==
    /\ held' = held \ {p}
    /\ document' = [document EXCEPT ![p] = NoDocument]
    /\ UNCHANGED registry

(***************************************************************************)
(* The calibration.                                                        *)
(***************************************************************************)
Torn == [file |-> "torn"]
Out == [pc |-> "out"]
NoBuild == 0

CalibrationInit ==
    /\ device = "absent" /\ operator = Absent /\ operator_build = NoBuild
    /\ stages = "absent" /\ model = "absent" /\ calibration = Absent
    /\ cal = Out

Fail(cause) == cal' = [pc |-> "exit", code |-> 1, cause |-> cause]
Go(pc) == cal' = [cal EXCEPT !.pc = pc]

StartCalibration(build, budget, full) ==
    /\ cal = Out
    /\ cal' = [pc |-> "device", build |-> build, budget |-> budget, full |-> full]
    /\ UNCHANGED <<files, setbacks>>

\* A resumed run reads the old file before it replaces it.
CheckDevice ==
    /\ cal.pc = "device"
    /\ \/ device = "torn" /\ Fail("unreadable") /\ UNCHANGED device
       \/ device # "torn" /\ Go("write-device") /\ device' = "torn"
    /\ UNCHANGED <<operator, operator_build, stages, model, calibration, setbacks>>

WriteDevice ==
    /\ cal.pc = "write-device"
    /\ device' = "whole" /\ Go("stages")
    /\ UNCHANGED <<operator, operator_build, stages, model, calibration, setbacks>>

\* The stage calibration, unless it is skipped: how it ends.
CalibrateStages ==
    /\ cal.pc = "stages"
    /\ \/ ~ cal.full /\ Go("identity") /\ UNCHANGED <<stages, setbacks>>
       \/ cal.full /\ Go("identity") /\ stages' = "complete" /\ UNCHANGED setbacks
       \/ cal.full /\ Go("identity") /\ stages' = "incomplete" /\ Setback
       \/ cal.full /\ "busy" \in Outcomes /\ Fail("busy") /\ Setback /\ UNCHANGED stages
    /\ UNCHANGED <<device, operator, operator_build, model, calibration>>

----------------------------------------------------------------------------
(* The incumbents.                                                         *)
CheckOperator ==
    /\ cal.pc = "identity"
    /\ LET read == operator # Absent /\ operator_build # NoBuild
       IN IF read /\ (operator_build # cal.build \/ operator = Torn)
          THEN /\ Fail(IF operator_build # cal.build THEN "identity" ELSE "unreadable")
               /\ UNCHANGED operator_build
          ELSE /\ operator_build' = cal.build
               /\ cal' = [rows |-> IF read THEN operator.rows ELSE Empty, next |-> 1]
                         ++ [cal EXCEPT !.pc = "incumbents"]
    /\ UNCHANGED <<device, operator, stages, model, calibration, setbacks>>

AtIncumbent == cal.pc = "incumbents" /\ cal.next <= Len(Workloads)
Incumbent == IncumbentOf[Workloads[cal.next]]
IncumbentSamples ==
    IF Incumbent \in DOMAIN cal.rows /\ cal.rows[Incumbent].correct
    THEN cal.rows[Incumbent].samples ELSE 0

SaveIncumbent(row, next) ==
    LET rows == Entry(Incumbent, row) ++ cal.rows
    IN /\ operator' = [rows |-> rows]
       /\ cal' = [cal EXCEPT !.rows = rows, !.next = next]

IncumbentMeasured ==
    /\ AtIncumbent /\ IncumbentSamples >= Trials
    /\ SaveIncumbent([cal.rows[Incumbent] EXCEPT !.status = "measured"], cal.next + 1)
    /\ UNCHANGED <<device, operator_build, stages, model, calibration, setbacks>>

IncumbentRun ==
    /\ AtIncumbent /\ IncumbentSamples < Trials
    /\ \/ /\ "correct" \in Outcomes
          /\ SaveIncumbent(Row(TRUE, IncumbentSamples + 1, TRUE, "screened"), cal.next)
          /\ UNCHANGED setbacks
       \/ /\ "failed" \in Outcomes /\ Setback
          /\ SaveIncumbent(Row(TRUE, IncumbentSamples, FALSE, "unavailable"), cal.next + 1)
       \/ /\ "busy" \in Outcomes /\ Setback
          /\ Fail("busy") /\ UNCHANGED operator
    /\ UNCHANGED <<device, operator_build, stages, model, calibration>>

----------------------------------------------------------------------------
(* The search.                                                             *)

\* The seeds the registry offers a workload: the designs it holds a record of, the
\* winner of each context; exact semantics are all the model has.
Offered ==
    [w \in Members(Workloads) |->
        SetToSeq({c \in Members(Inventory[w]) :
                    \E id \in DOMAIN registry :
                        registry[id].work = w /\ id[2] = DesignOf[c]})]

IncumbentsDone == cal.pc = "incumbents" /\ cal.next > Len(Workloads)
StartSearch ==
    /\ IncumbentsDone
    /\ BeginSearch(cal.build, cal.budget, Offered)
    /\ Go("search")
    /\ UNCHANGED <<files, setbacks>>

\* The rows of the search: what each workload screened, and of a workload that was
\* complete before, whatever the journal has.
ResultRows ==
    LET named(cell) ==
            Members(cell.order) \cup
            IF cell \in Members(search.previous) THEN Members(Inventory[cell.work]) ELSE {}
        names == DOMAIN journal \cap UNION {named(search.done[i]) : i \in DOMAIN search.done}
    IN [c \in names |-> journal[c]]

SearchReturns ==
    /\ cal.pc = "search" /\ search.pc = "done"
    /\ search' = Idle
    /\ operator' = Torn
    /\ cal' = [cal EXCEPT !.pc = "output", !.rows = ResultRows ++
                    [i \in {IncumbentOf[w] : w \in Members(Workloads)} |-> cal.rows[i]]]
    /\ UNCHANGED <<coverage, journal, snapshot, device, operator_build, stages, model, calibration,
                   setbacks>>

SearchRaised ==
    /\ cal.pc = "search" /\ search.pc = "raised"
    /\ search' = Idle
    /\ Fail(search.cause)
    /\ UNCHANGED <<coverage, journal, snapshot, files, setbacks>>

WriteOperator ==
    /\ cal.pc = "output"
    /\ operator' = [rows |-> cal.rows]
    /\ Go("model")
    /\ UNCHANGED <<device, operator_build, stages, model, calibration, setbacks>>

\* The cost model is fitted by a process of its own and may miss its holdout gate.
FitModel ==
    /\ cal.pc = "model"
    /\ \/ model' = "calibrated" /\ UNCHANGED setbacks
       \/ model' = "warning" /\ Setback
    /\ Go("promote")
    /\ UNCHANGED <<device, operator, operator_build, stages, calibration>>

----------------------------------------------------------------------------
(* Promotion and the manifest.                                             *)
Promotable ==
    {[design |-> DesignOf[c], latency |-> Latency[c], samples |-> cal.rows[c].samples,
      work |-> WorkOf[c]] :
        c \in {c \in DOMAIN cal.rows : cal.rows[c].status = "measured" /\ cal.rows[c].correct}}

LockRegistry ==
    /\ cal.pc = "promote"
    /\ ReadRegistry(Promoting, Hardware, Promotable)
    /\ Go("publish")
    /\ UNCHANGED <<files, setbacks>>

PublishRegistry ==
    /\ cal.pc = "publish"
    /\ WriteRegistry(Promoting)
    /\ calibration' = Torn
    /\ Go("manifest")
    /\ UNCHANGED <<device, operator, operator_build, stages, model, setbacks>>

WriteCalibration ==
    /\ cal.pc = "manifest"
    /\ calibration' = [status |-> IF Promotable # {} THEN "ready" ELSE "fallback"]
    /\ cal' = [pc |-> "exit", code |-> 0, cause |-> "none"]
    /\ UNCHANGED <<device, operator, operator_build, stages, model, setbacks>>

\* The steps that leave the search and the registry alone.
CalibrationStep ==
    \/ CheckDevice \/ WriteDevice \/ CalibrateStages \/ CheckOperator
    \/ IncumbentMeasured \/ IncumbentRun \/ WriteOperator \/ FitModel \/ WriteCalibration

----------------------------------------------------------------------------
(* The installation.                                                       *)

VARIABLES
    migration,    \* migration_manifest.json
    results,      \* selector_replay.json: the mappings the verifier confirmed
    replay,       \* selector_replay_status.json
    mig           \* the running installation

migvars == <<migration, results, replay, mig>>

MigrationInit(full) ==
    /\ migration = [status |-> "planned", full |-> full]
    /\ results = Absent /\ replay = Absent
    /\ mig = Out

----------------------------------------------------------------------------
(* What the evidence on disk amounts to.                                   *)
Required == IF Trials < 2 THEN 2 ELSE Trials
Enough(row) == row.status = "measured" /\ row.correct /\ row.samples >= Required

Audited == coverage # Absent /\ journal # Absent
CellsOf(w) ==
    IF Audited
    THEN {coverage.cells[i] : i \in {i \in DOMAIN coverage.cells : coverage.cells[i].work = w}}
    ELSE {}

\* A mapping counts when the audit and the journal agree that it was measured.
SearchConfirmed(w) ==
    UNION {{c \in Members(cell.order) \cap DOMAIN journal :
                cell.status[c] = "measured" /\ Enough(journal[c])} : cell \in CellsOf(w)}
IncumbentConfirmed(w) ==
    IF operator \in {Absent, Torn} THEN {}
    ELSE {i \in DOMAIN operator.rows : WorkOf[i] = w /\ Enough(operator.rows[i])}
Covered(w) == SearchConfirmed(w) \cup IncumbentConfirmed(w) # {}

Valid(cell) ==
    {c \in Members(cell.order) \cap DOMAIN journal :
        cell.status[c] \in {"screened", "measured"} /\ journal[c].correct}
ProtocolComplete(w) ==
    /\ CellsOf(w) # {}
    /\ \A cell \in CellsOf(w) :
          /\ cell.complete /\ ~ cell.stop /\ cell.requested > 0
          /\ cell.screened >= cell.requested
          /\ LET valid == Cardinality(Valid(cell))
             IN Cardinality(SearchConfirmed(w)) >= IF valid < Finalists THEN valid ELSE Finalists

ProtocolMatches == Audited /\ coverage.protocol.budget = mig.budget

\* What the selector must replay: the fastest measured mapping of each workload.
Selected ==
    IF operator \in {Absent, Torn} THEN {}
    ELSE {c \in DOMAIN operator.rows :
            /\ operator.rows[c].correct /\ operator.rows[c].status = "measured"
            /\ \A d \in DOMAIN operator.rows :
                 (operator.rows[d].correct /\ operator.rows[d].status = "measured"
                    /\ WorkOf[d] = WorkOf[c])
                 => Latency[c] <= Latency[d]}
ReplayConfirms(names) == names # {} /\ names = Selected

ReplaySummary ==
    IF replay # Absent /\ replay.status # "passed" THEN replay.status
    ELSE IF results # Absent /\ ReplayConfirms(results.names)
    THEN IF replay # Absent /\ replay.of # operator THEN "stale" ELSE "passed"
    ELSE IF replay # Absent \/ results # Absent THEN "failed" ELSE "not-run"

ManifestRead == calibration # Absent /\ calibration # Torn
\* Mutant: the coverage of the workloads is not asked for.
CompleteUncovered ==
    /\ ManifestRead
    /\ \A w \in Members(Workloads) : ProtocolComplete(w)
    /\ ProtocolMatches
    /\ model = "calibrated"
    /\ ReplaySummary = "passed"
    /\ migration.full => stages = "complete"

Complete ==
    /\ ManifestRead
    /\ \A w \in Members(Workloads) : Covered(w) /\ ProtocolComplete(w)
    /\ ProtocolMatches
    /\ model = "calibrated"
    /\ ReplaySummary = "passed"
    /\ migration.full => stages = "complete"

ExitCode ==
    IF \/ migration.full /\ ~ Complete
       \/ ~ ManifestRead
       \/ ReplaySummary \in {"failed", "missing", "stale"}
       \/ model = "absent" \/ ~ Audited
    THEN 1 ELSE 0

----------------------------------------------------------------------------
(* The installation.                                                       *)
Step(pc) == mig' = [mig EXCEPT !.pc = pc]

\* The manifest says "running" from before the child starts until it is graded.
StartMigration(budget) ==
    /\ mig = Out
    /\ mig' = [pc |-> "child", budget |-> budget]
    /\ migration' = [migration EXCEPT !.status = "running"]
    /\ UNCHANGED <<results, replay, setbacks>>

StartChild(build) ==
    /\ mig.pc = "child" /\ cal = Out
    /\ StartCalibration(build, mig.budget, migration.full)
    /\ Step("wait")
    /\ UNCHANGED <<migration, results, replay>>

\* The child failed: its cause reaches the output of this process.
ChildFailed ==
    /\ mig.pc = "wait" /\ cal.pc = "exit" /\ cal.code # 0
    /\ migration' = [migration EXCEPT !.status = "failed"]
    /\ mig' = [pc |-> "exit", code |-> cal.code, cause |-> cal.cause]
    /\ cal' = Out
    /\ UNCHANGED <<results, replay, files, setbacks>>

ChildDone ==
    /\ mig.pc = "wait" /\ cal.pc = "exit" /\ cal.code = 0
    /\ cal' = Out
    /\ Step("replay")
    /\ UNCHANGED <<migration, results, replay, files, setbacks>>

\* The verifier confirms every selected mapping, or the replay has failed.
Replay ==
    /\ mig.pc = "replay"
    /\ \/ /\ ReplayConfirms(Selected) /\ UNCHANGED setbacks
          /\ results' = [names |-> Selected]
          /\ Step("note") /\ UNCHANGED replay
       \/ /\ IF Selected = {} THEN UNCHANGED setbacks ELSE Setback
          /\ replay' = [status |-> "failed", of |-> operator]
          /\ Step("grade") /\ UNCHANGED results
    /\ UNCHANGED migration

NoteReplay ==
    /\ mig.pc = "note"
    /\ replay' = [status |-> "passed", of |-> operator]
    /\ Step("grade")
    /\ UNCHANGED <<migration, results, setbacks>>

Grade ==
    /\ mig.pc = "grade"
    /\ migration' = [migration EXCEPT !.status = IF Complete THEN "complete" ELSE "incomplete"]
    /\ mig' = [pc |-> "exit", code |-> ExitCode, cause |-> "graded"]
    /\ UNCHANGED <<results, replay, setbacks>>

=============================================================================
