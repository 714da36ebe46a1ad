-------------------------- MODULE StageCalibration --------------------------
(***************************************************************************)
(* The calibration of the stage services (stage_service_calibration): a    *)
(* call describes the requested plans, times each of them at a few loads,  *)
(* validates the intervals between them by independent midpoints and ends  *)
(* with a model and a status.  After every probe the checkpoint is         *)
(* replaced on disk, so a later call goes on where one was killed, where   *)
(* the GPU was busy or where the budget ended; later calls may ask for     *)
(* more plans or larger batches, import another checkpoint, or run under a *)
(* newer revision of the curve model.                                      *)
(*                                                                         *)
(* The identity of binary, device and protocol is one and the same here: a *)
(* call under another one raises before it touches the file.               *)
(***************************************************************************)
EXTENDS StageCandidates

CONSTANTS
    Calls,       \* what the callers may ask for
    Revisions,   \* the revisions of the curve model, 1 .. n
    Memory,      \* the largest batch that fits into an idle GPU, and into a crowded one
    Timings,     \* the kernel times there may be: kernel -> load -> time
    MaxCalls, MaxSetbacks

ASSUME CalibrationAssumption ==
    /\ MaxCalls \in Nat /\ MaxSetbacks \in Nat /\ DefaultPoints \in Nat \ {0}
    /\ Memory \subseteq Nat \ {0}
    /\ IsFiniteSet(Points) /\ \A p \in Points : Waves[p] \subseteq Nat
    /\ \A c \in Calls : /\ DOMAIN c.points \subseteq Points
                        /\ \A p \in DOMAIN c.points : c.points[p] \in Nat \ {0}
                        /\ c.mode \in {"full", "bounded"}

VARIABLES
    disk,        \* the checkpoint file
    saved,       \* a copy of it, kept elsewhere
    sidecars,    \* the content-addressed audit files
    driver,      \* the call in progress
    revision,    \* of the curve model, in the installed scripts
    timing,      \* the kernel times of this GPU
    probes,      \* how many plans were timed so far
    calls, setbacks   \* what may still happen (bounds)

vars == <<disk, saved, sidecars, driver, revision, timing, probes, calls, setbacks>>
world == <<saved, revision, timing, calls>>

Blank == [status |-> "absent", version |-> 1, rows |-> <<>>,
          described |-> [p \in Points |-> NotDescribed],
          candidates |-> <<>>, composed |-> {}, inventory |-> {}]
NoCall == [pc |-> "idle"]

Pending(doc) == doc.inventory \ Described(doc.described)
Setback == setbacks > 0 /\ setbacks' = setbacks - 1
Doc == driver.doc

StageInit ==
    /\ disk = Blank /\ saved = Blank /\ sidecars = {}
    /\ driver = NoCall /\ revision = 1 /\ timing \in Timings
    /\ probes = 0 /\ calls = MaxCalls /\ setbacks = MaxSetbacks

----------------------------------------------------------------------------
(* The start of a call                                                      *)

Refreshed(doc) == IF doc.version = revision THEN doc ELSE RefreshCurveModel(revision, doc)
Loaded == IF disk.status = "absent" THEN [Blank EXCEPT !.version = revision] ELSE Refreshed(disk)

\* The audit files are written before the checkpoint that names them.
CompositionFile(doc) == <<"composition", doc.composed>>
InventoryFile(doc) == <<"inventory", doc.inventory>>

BeginCall(call) ==
    /\ driver.pc = "idle" /\ calls > 0
    /\ call.imports => saved.status # "absent"
    /\ driver' = [pc |-> IF call.imports THEN "import" ELSE "load", call |-> call]
    /\ calls' = calls - 1
    /\ UNCHANGED <<disk, saved, sidecars, revision, timing, probes, setbacks>>

ImportCheckpoint ==
    /\ driver.pc = "import"
    /\ LET target == IF disk.status = "absent" THEN [saved EXCEPT !.rows = <<>>, !.candidates = <<>>] ELSE disk
           merged == MergeDocuments(revision, target, saved)
       IN  /\ disk' = merged
           /\ sidecars' = sidecars \cup {CompositionFile(merged), InventoryFile(merged)}
    /\ driver' = [driver EXCEPT !.pc = "load"]
    /\ UNCHANGED <<world, probes, setbacks>>

\* A complete checkpoint answers a call that asks for nothing new.
Answers(doc, call) ==
    /\ doc.status \in FinalStatuses
    /\ \A p \in DOMAIN call.points : call.points[p] <= doc.described[p].batch
    /\ call.composed \subseteq doc.composed
    /\ Pending(doc) = {}

LoadCheckpoint ==
    /\ driver.pc = "load"
    /\ LET doc == Loaded
           call == driver.call
       IN  driver' =
             IF Answers(doc, call)
             THEN [pc |-> "answered", call |-> call, doc |-> doc,
                   status |-> IF call.mode = "full" THEN "complete" ELSE "complete-bounded"]
             ELSE [pc |-> "sidecars", call |-> call,
                   doc |-> [doc EXCEPT !.composed = @ \cup call.composed,
                                       !.inventory = @ \cup DOMAIN call.points
                                                       \cup Described(doc.described)]]
    /\ UNCHANGED <<disk, sidecars, world, probes, setbacks>>

WriteComposition ==
    /\ driver.pc = "sidecars"
    /\ sidecars' = sidecars \cup {CompositionFile(Doc)}
    /\ driver' = [driver EXCEPT !.pc = "inventory"]
    /\ UNCHANGED <<disk, world, probes, setbacks>>

\* Mutant: the inventory of the checkpoint as it was, without the plans of the call.
WriteOldInventory ==
    /\ driver.pc = "inventory"
    /\ sidecars' = sidecars \cup {InventoryFile(disk)}
    /\ driver' = [driver EXCEPT !.pc = "first"]
    /\ UNCHANGED <<disk, world, probes, setbacks>>

WriteInventory ==
    /\ driver.pc = "inventory"
    /\ sidecars' = sidecars \cup {InventoryFile(Doc)}
    /\ driver' = [driver EXCEPT !.pc = "first"]
    /\ UNCHANGED <<disk, world, probes, setbacks>>

\* The plans of a call, in the order in which they are described ...
Requested(call) == OrderPoints(SetToSeq(DOMAIN call.points))

\* ... unless they are known at a load as large.
Known(doc, call, p) ==
    doc.described[p].status = "resolved" /\ call.points[p] <= doc.described[p].batch

Written(doc) == [doc EXCEPT !.status = "running"]

\* The first write: known descriptions are filed again, then the known
\* configurations are visited and after them the plans that are requested.
WriteFirst ==
    /\ driver.pc = "first"
    /\ LET doc == [Doc EXCEPT !.candidates = Refiled(revision, @, Doc.described)]
       IN  /\ disk' = Written(doc)
           /\ driver' = [pc |-> "stream", call |-> driver.call, doc |-> doc,
                         visits |-> [i \in DOMAIN doc.candidates |-> doc.candidates[i].key],
                         statics |-> Requested(driver.call),
                         at |-> {}, stuck |-> FALSE, turn |-> 0, exhausted |-> FALSE, interrupted |-> FALSE,
                         cap |-> IF driver.call.cap = 0 THEN DefaultPoints ELSE driver.call.cap]
    /\ UNCHANGED <<sidecars, world, probes, setbacks>>

----------------------------------------------------------------------------
(* The stream of configurations                                             *)

\* The budget of timed probes; the wall clock, read in the same places, is TimeOver.
BudgetOver ==
    \/ driver.exhausted
    \/ driver.call.budget # 0 /\ Cardinality(Measured(Doc.rows)) >= driver.call.budget

Candidates(doc, key) == doc.candidates[CHOOSE i \in DOMAIN doc.candidates : doc.candidates[i].key = key]
Updated(doc, c) ==
    [doc EXCEPT !.candidates = [i \in DOMAIN @ |-> IF @[i].key = c.key THEN c ELSE @[i]]]

\* A full call without an explicit limit reserves room for the seeds, the
\* midpoint of every interval and one refinement of it.
ReservedCap(c) ==
    LET wide == {iv \in Adjacent(c.seeds) : iv[2] - iv[1] > 1}
        needed == Cardinality(c.seeds) + 3 * Cardinality(wide)
    IN  IF driver.call.cap = 0 /\ driver.call.mode = "full" /\ needed > driver.cap
        THEN needed ELSE driver.cap

WithoutReuse(c) == [c EXCEPT !.reuse = {}]

Visit ==
    /\ driver.pc = "stream" /\ driver.visits # <<>>
    /\ LET c == Candidates(Doc, Head(driver.visits))
           cap == ReservedCap(c)
           fresh == WithoutReuse(c)
           cited == IF RowsOf(Doc.rows, c.key) = {} THEN ReusableServices(Doc, fresh, cap) ELSE {}
           next == [driver EXCEPT !.visits = Tail(@), !.cap = cap]
       IN  driver' =
             IF c.description.status # "resolved"
             THEN [next EXCEPT !.doc = Updated(@, [c EXCEPT !.omitted = @ \cup {"non-executable"}])]
             ELSE IF fresh.reuse = {} /\ cited # {}
             THEN [next EXCEPT !.doc = Updated(@, [fresh EXCEPT !.reuse = cited])]
             ELSE [next EXCEPT !.doc = Updated(@, fresh), !.pc = "measure", !.at = c.key, !.stuck = FALSE]
    /\ UNCHANGED <<disk, sidecars, world, probes, setbacks>>

\* What a probe may do besides its work: find another process on the GPU before
\* or after the run.
Interrupt(doc) == [driver EXCEPT !.pc = "finish", !.interrupted = TRUE, !.doc = doc]
Busy == Setback /\ driver' = Interrupt(Doc)

Row(p, key, batch, role, outcome) ==
    [point |-> p, candidate |-> key, batch |-> batch, role |-> role,
     status |-> IF outcome = "wrong" THEN "measured" ELSE outcome,
     correct |-> outcome = "measured",
     roles |-> [i \in DOMAIN GroupsOf[p] |-> role],
     times |-> [i \in DOMAIN GroupsOf[p] |-> timing[GroupsOf[p][i]][batch]],
     checks |-> <<>>, probe |-> probes + 1]

DescribeContaminated(p) ==
    /\ Setback
    /\ driver' = Interrupt([Doc EXCEPT !.rows = Append(@,
                     Row(p, {p}, driver.call.points[p], "train", "contaminated"))])
    /\ probes' = probes + 1
    /\ UNCHANGED disk

Describe(p, status, room) ==
    /\ IF status = "rejected" \/ room # Max(Memory) THEN Setback ELSE UNCHANGED setbacks
    /\ LET d == [status |-> status, batch |-> driver.call.points[p], room |-> room]
           c == Candidate(revision, p, d)
           doc == [Doc EXCEPT !.described[p] = d, !.candidates = Filed(@, c)]
       IN  /\ disk' = Written(doc)
           /\ driver' = [driver EXCEPT !.doc = doc, !.visits = <<c.key>>, !.statics = Tail(@)]
    /\ UNCHANGED probes

\* The loop over the requested plans has come to p.
Reached(p) == driver.visits = <<>> /\ driver.statics # <<>> /\ p = Head(driver.statics)

SkipKnown ==
    /\ driver.pc = "stream"
    /\ \E p \in DOMAIN driver.call.points : Reached(p) /\ Known(Doc, driver.call, p)
    /\ driver' = [driver EXCEPT !.statics = Tail(@)]
    /\ UNCHANGED <<disk, sidecars, world, probes, setbacks>>

DescribeNext ==
    /\ driver.pc = "stream"
    /\ \E p \in DOMAIN driver.call.points :
          /\ Reached(p) /\ ~Known(Doc, driver.call, p) /\ ~BudgetOver
          /\ \/ Busy /\ UNCHANGED <<disk, probes>>
             \/ DescribeContaminated(p)
             \/ \E status \in {"resolved", "rejected"}, room \in Memory : Describe(p, status, room)
    /\ UNCHANGED <<sidecars, world>>

\* The budget ends the stream before the next plan is described.
EndStream ==
    /\ driver.pc = "stream"
    /\ \/ /\ driver.visits = <<>> /\ driver.statics = <<>>
          /\ driver' = [driver EXCEPT !.pc = "finish"]
       \/ /\ \E p \in DOMAIN driver.call.points : Reached(p) /\ ~Known(Doc, driver.call, p)
          /\ BudgetOver
          /\ driver' = [driver EXCEPT !.pc = "finish", !.exhausted = TRUE]
    /\ UNCHANGED <<disk, sidecars, world, probes, setbacks>>

----------------------------------------------------------------------------
(* The measurement of one configuration                                     *)

At == Candidates(Doc, driver.at)
Seen(doc, key) ==
    {doc.rows[r].batch : r \in {x \in RowsOf(doc.rows, key) : doc.rows[x].status # "contaminated"}}

SeenHere == Seen(Doc, driver.at)
Room == Cardinality(SeenHere) < driver.cap /\ ~driver.stuck
LoadsLeft == At.loads \ SeenHere
IntervalLeft == Unresolved(Doc.rows, At) # {}

Measuring == driver.pc = "measure"
LeaveCandidate(exhausted) ==
    driver' = [driver EXCEPT !.pc = "stream", !.exhausted = @ \/ exhausted]

EndCandidate ==
    /\ Measuring
    /\ \/ ~Room /\ LeaveCandidate(FALSE)
       \/ Room /\ BudgetOver /\ LeaveCandidate(TRUE)
       \/ Room /\ ~BudgetOver /\ LoadsLeft = {} /\ ~IntervalLeft /\ LeaveCandidate(FALSE)
    /\ UNCHANGED <<disk, sidecars, world, probes, setbacks>>

\* In bounded mode the wall clock may run out at any check.
TimeOver ==
    /\ driver.pc \in {"stream", "measure"} /\ driver.call.mode = "bounded"
    /\ ~BudgetOver /\ Setback
    /\ \/ Measuring /\ Room /\ LeaveCandidate(TRUE)
       \/ /\ driver.pc = "stream"
          /\ \E p \in DOMAIN driver.call.points : Reached(p) /\ ~Known(Doc, driver.call, p)
          /\ driver' = [driver EXCEPT !.pc = "finish", !.exhausted = TRUE]
    /\ UNCHANGED <<disk, sidecars, world, probes>>

\* A seed load is timed and checkpointed.  Its omission, when there is no usable
\* result, is noted after the write and so reaches the disk with the next one.
MeasureLoad(outcome) ==
    LET batch == Min(LoadsLeft)
        doc == [Doc EXCEPT !.rows = Append(@, Row(At.point, driver.at, batch, "train", outcome))]
        noted == Updated(doc, [At EXCEPT !.omitted = @ \cup {"batch-unavailable"}])
    IN  /\ disk' = Written(doc)
        /\ driver' = CASE outcome = "measured" -> [driver EXCEPT !.doc = doc]
                       [] outcome = "contaminated" -> Interrupt(doc)
                       [] OTHER -> [driver EXCEPT !.doc = noted, !.stuck = TRUE]

\* A midpoint is timed, checked against the training rows and checkpointed.
MeasureHoldout(outcome) ==
    LET iv == NextInterval(Doc.rows, At)
        row == Row(At.point, driver.at, Midpoint(iv), "validation", outcome)
        rows == AdaptiveValidation(revision, Append(Doc.rows, row), Len(Doc.rows) + 1)
        state == IntervalState(rows[Len(rows)].checks)
        doc == Updated([Doc EXCEPT !.rows = rows],
                       [At EXCEPT !.intervals = (iv :> state) @@ @])
    IN  /\ disk' = Written(doc)
        /\ driver' = IF outcome = "contaminated" THEN Interrupt(doc)
                     ELSE [driver EXCEPT !.doc = doc, !.stuck = (state = "uncovered")]

Outcomes == {"measured", "wrong", "unavailable", "contaminated"}

Measure ==
    /\ Measuring /\ Room /\ ~BudgetOver
    /\ \/ /\ LoadsLeft # {} \/ (IntervalLeft /\ Midpoint(NextInterval(Doc.rows, At)) \notin SeenHere)
          /\ Busy /\ UNCHANGED <<disk, probes>>
       \/ \E outcome \in Outcomes :
             /\ IF outcome = "measured" THEN UNCHANGED setbacks ELSE Setback
             /\ \/ LoadsLeft # {} /\ MeasureLoad(outcome)
                \/ /\ LoadsLeft = {} /\ IntervalLeft
                   /\ Midpoint(NextInterval(Doc.rows, At)) \notin SeenHere
                   /\ MeasureHoldout(outcome)
             /\ probes' = probes + 1
    /\ UNCHANGED <<sidecars, world>>

\* The midpoint was timed by an earlier call: its recorded checks decide.  turn
\* shows that the loop went round, also when it changed nothing else.
ReuseVerdict ==
    /\ Measuring /\ Room /\ ~BudgetOver /\ LoadsLeft = {} /\ IntervalLeft
    /\ LET iv == NextInterval(Doc.rows, At)
           earlier == {r \in RowsOf(Doc.rows, driver.at) :
                         Doc.rows[r].batch = Midpoint(iv) /\ Doc.rows[r].status = "measured"}
           state == IF earlier = {} THEN "uncovered" ELSE IntervalState(Doc.rows[Max(earlier)].checks)
       IN  /\ Midpoint(iv) \in SeenHere
           /\ driver' = [driver EXCEPT
                !.doc = Updated(@, [At EXCEPT !.intervals = (iv :> state) @@ @]),
                !.stuck = (state = "uncovered"), !.turn = 1 - @]
    /\ UNCHANGED <<disk, sidecars, world, probes, setbacks>>

\* The model is built from the rows, and the checkpoint is closed with its status.
Finish ==
    /\ driver.pc = "finish"
    /\ LET status == OverallStatus(revision, Doc, Pending(Doc), driver.call, driver.cap,
                                   driver.interrupted, driver.exhausted)
       IN  /\ disk' = [Doc EXCEPT !.status = IF status \in FinalStatuses THEN "complete" ELSE status]
           /\ driver' = [pc |-> "answered", call |-> driver.call, doc |-> Doc, status |-> status]
    /\ UNCHANGED <<sidecars, world, probes, setbacks>>

----------------------------------------------------------------------------
(* The callers and the machine                                              *)

Return ==
    /\ driver.pc = "answered" /\ driver' = NoCall
    /\ UNCHANGED <<disk, sidecars, world, probes, setbacks>>

Kill ==
    /\ driver.pc # "idle" /\ Setback /\ driver' = NoCall
    /\ UNCHANGED <<disk, sidecars, world, probes>>

SaveCopy ==
    /\ driver.pc = "idle" /\ calls > 0 /\ disk.status # "absent" /\ saved.status = "absent"
    /\ saved' = disk
    /\ UNCHANGED <<disk, sidecars, driver, revision, timing, probes, calls, setbacks>>

StartOver ==
    /\ driver.pc = "idle" /\ calls > 0 /\ disk.status # "absent" /\ saved.status # "absent"
    /\ Setback /\ disk' = Blank
    /\ UNCHANGED <<sidecars, driver, world, probes>>

Upgrade ==
    /\ driver.pc = "idle" /\ calls > 0 /\ disk.status # "absent" /\ revision + 1 \in Revisions
    /\ revision' = revision + 1
    /\ UNCHANGED <<disk, saved, sidecars, driver, timing, probes, calls, setbacks>>

Working ==
    \/ ImportCheckpoint \/ LoadCheckpoint \/ WriteComposition
    \/ WriteInventory \/ WriteFirst
    \/ Visit \/ SkipKnown \/ DescribeNext \/ EndStream
    \/ EndCandidate \/ TimeOver \/ Measure \/ ReuseVerdict \/ Finish \/ Return

Next ==
    \/ \E call \in Calls : BeginCall(call)
    \/ Working
    \/ Kill \/ SaveCopy \/ StartOver \/ Upgrade

\* A call in progress goes on: weak fairness of Working, which is enabled exactly
\* while there is a call, written out so that its guard is not evaluated twice.
Fairness == []<>(driver.pc = "idle") \/ []<><<driver.pc # "idle">>_driver

Spec == StageInit /\ [][Next]_vars /\ Fairness

----------------------------------------------------------------------------
(* Properties                                                               *)

ResolvedPoints(doc) == {p \in Points : doc.described[p].status = "resolved"}

\* A checkpoint that says complete has described every plan that was ever
\* requested, and the curves of its rows predict each resolved one at the largest
\* batch requested of it: also a plan whose curves were reused from others, one
\* merged into an alias, one imported or carried over to another curve model
\* (calibrate, _coverage, _overall_status, _reusable_shared_services).
CompletePredicts ==
    disk.status = "complete" =>
        /\ disk.inventory \subseteq Described(disk.described)
        /\ \A p \in ResolvedPoints(disk) : \A key \in KeysOf(disk.version, p) :
              LET loads == LoadsOf(disk.rows, Samples(disk.version, disk.rows, key, "train"))
              IN  \E low, high \in loads : disk.described[p].batch \in low .. high

\* In a complete checkpoint every interval a configuration is trained on holds a
\* usable row that was timed as a holdout of that interval, or there is no load
\* inside it; a pass recorded for another interval, or under another curve model,
\* does not stand in for it (calibrate, _interval_coverage).
Held(doc, c, iv) ==
    \E r \in RowsOf(doc.rows, c.key) :
        /\ Usable(doc.rows[r]) /\ doc.rows[r].role = "validation"
        /\ iv[1] < doc.rows[r].batch /\ doc.rows[r].batch < iv[2]

CompleteIsValidated ==
    disk.status = "complete" =>
        \A i \in Curves(disk) :
            LET c == disk.candidates[i] IN
            c.reuse = {} => \A iv \in Adjacent(TrainingBatches(disk.rows, c)) :
                                iv[2] - iv[1] <= 1 \/ Held(disk, c, iv)

\* A complete checkpoint predicts what was asked of it, from validated intervals.
CompleteHolds == CompletePredicts /\ CompleteIsValidated

\* The probes (also those of an imported checkpoint, every independent trial of
\* them), the resolved descriptions and the requests in the checkpoint are never lost,
\* by a resume, an import, a smaller request or a new curve model, unless the
\* operator starts over (write_checkpoint, import_stage_checkpoints,
\* _refresh_curve_model_state, _acquisition_inventory).
ProbesOf(doc) == {doc.rows[r].probe : r \in DOMAIN doc.rows}

ProbesStay ==
    [][~StartOver =>
        /\ ProbesOf(disk) \subseteq ProbesOf(disk')
        /\ ImportCheckpoint => ProbesOf(saved) \subseteq ProbesOf(disk')
        /\ disk.inventory \subseteq disk'.inventory
        /\ disk.composed \subseteq disk'.composed
        /\ \A p \in ResolvedPoints(disk) : disk.described[p].batch <= disk'.described[p].batch]_vars

\* No configuration is timed again at a load whose result is in the checkpoint: not
\* after a kill between the timing and the notes about it, not after an import or
\* under the keys of another curve model ("never execute the same load").
NothingRerun ==
    [][Len(disk'.rows) = Len(disk.rows) + 1 /\ probes' # probes =>
        LET new == disk'.rows[Len(disk'.rows)]
        IN  \A r \in RowsOf(disk.rows, new.candidate) :
                disk.rows[r].batch = new.batch => disk.rows[r].status = "contaminated"]_vars

\* Every probe is kept, and paid for once.
EvidenceKept == ProbesStay /\ NothingRerun

\* The audit files a checkpoint names are there whenever the checkpoint is, after
\* a kill between any two writes and after an import (_composition_sidecar_ref,
\* _acquisition_inventory): a resume that misses one raises.
SidecarsResolve ==
    disk.status # "absent" => {CompositionFile(disk), InventoryFile(disk)} \subseteq sidecars

\* Every call is answered or interrupted: the loop over intervals, verdicts and
\* promotions ends, whatever an earlier call, an import or another curve model
\* left in the checkpoint (calibrate).
CallEnds == driver.pc # "idle" ~> driver.pc = "idle"
=============================================================================
