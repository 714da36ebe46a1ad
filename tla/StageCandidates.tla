-------------------------- MODULE StageCandidates ---------------------------
(***************************************************************************)
(* What a stage calibration knows, as functions of a checkpoint document.  *)
(*                                                                         *)
(* First the measured service curves of stage_service_model and the        *)
(* holdout check of stage_service_calibration: kernel time against load,   *)
(* piecewise linear between the training loads of a curve, never beyond    *)
(* them.  A row of the journal is one timed probe of a plan at a load.     *)
(* Its groups are the kernels of the plan; which curve a kernel belongs to *)
(* depends on the revision of the curve model (curve_key).  Work blocks    *)
(* grow in proportion to the batch, so the batch stands for the load K.    *)
(*                                                                         *)
(* Then the configurations: what is to be measured of a described plan,    *)
(* how aliases and larger requests merge, which intervals of a curve are   *)
(* validated, when a validated curve is reused for another plan, and what  *)
(* coverage and status follow; the order in which plans are visited, and   *)
(* the merging of another checkpoint.                                      *)
(***************************************************************************)
EXTENDS Integers, SequencesExt

CONSTANTS
    Points,     \* the plans, by static key
    GroupsOf,   \* the kernels of a plan, in order
    CurveOf     \* per revision of the curve model: the curve of a kernel

Key(v, p, i) == CurveOf[v][GroupsOf[p][i]]
KeysOf(v, p) == {Key(v, p, i) : i \in DOMAIN GroupsOf[p]}

Usable(row) == row.status = "measured" /\ row.correct

\* The groups of the usable rows that are of a curve and have a role.
Samples(v, rows, key, role) ==
    LET Groups(row) == {i \in DOMAIN GroupsOf[row.point] :
                           row.roles[i] = role /\ Key(v, row.point, i) = key}
    IN  UNION {{<<r, i>> : i \in Groups(rows[r])} : r \in {x \in DOMAIN rows : Usable(rows[x])}}

LoadOf(rows, s) == rows[s[1]].batch
TimeOf(rows, s) == rows[s[1]].times[s[2]]
LoadsOf(rows, S) == {LoadOf(rows, s) : s \in S}

\* The prediction at load k as <<numerator, denominator>>; Uncovered outside the
\* hull.  low and high are the time to use on the left and on the right of a load.
Uncovered == <<0, 0>>
Interpolated(low, high, k) ==
    LET below == {l \in DOMAIN low : l < k}
        above == {l \in DOMAIN low : l > k}
        left  == Max(below)
        right == Min(above)
    IN  IF k \in DOMAIN low THEN <<low[k], 1>>
        ELSE IF below = {} \/ above = {} THEN Uncovered
        ELSE <<high[left] * (right - left) + (k - left) * (low[right] - high[left]),
               right - left>>

Magnitude(n) == IF n < 0 THEN -n ELSE n
\* The relative error in thousandths, rounded up.
Error(prediction, observed) ==
    LET scale == observed * prediction[2]
    IN  (1000 * Magnitude(prediction[1] - scale) + scale - 1) \div scale

----------------------------------------------------------------------------
(* The holdout check of the driver (_adaptive_validation)                   *)

DriverTraining(v, rows, key, self) ==
    {s \in Samples(v, rows, key, "train") : s[1] # self}

DriverPrediction(v, rows, key, self, k) ==
    LET S == DriverTraining(v, rows, key, self)
        At(l) == {TimeOf(rows, s) : s \in {t \in S : LoadOf(rows, t) = l}}
    IN  Interpolated([l \in LoadsOf(rows, S) |-> Min(At(l))],
                     [l \in LoadsOf(rows, S) |-> Max(At(l))], k)

GroupCheck(v, rows, r, i) ==
    LET p == DriverPrediction(v, rows, Key(v, rows[r].point, i), r, rows[r].batch)
    IN  IF p = Uncovered THEN "uncovered"
        ELSE IF Error(p, rows[r].times[i]) > 100 THEN "failed" ELSE "passed"

\* Mutant: a holdout that fails stays a holdout.
KeptRole(role, check) == role

PromotedRole(role, check) == IF check = "failed" THEN "train" ELSE role

\* Check holdout r; the groups that fail are promoted to training.
AdaptiveValidation(v, rows, r) ==
    LET groups == DOMAIN GroupsOf[rows[r].point]
        checks == [i \in groups |-> GroupCheck(v, rows, r, i)]
    IN  IF Usable(rows[r])
        THEN [rows EXCEPT ![r].checks = checks,
                          ![r].roles = [i \in groups |-> PromotedRole(rows[r].roles[i], checks[i])]]
        ELSE [rows EXCEPT ![r].checks = <<"unavailable">>]

\* Mutant: a midpoint without a verdict passes.
LenientState(checks) == IF "failed" \in ToSet(checks) THEN "failed" ELSE "passed"

\* The state of an interval by the checks of its midpoint.
IntervalState(checks) ==
    IF "failed" \in ToSet(checks) THEN "failed"
    ELSE IF checks # <<>> /\ ToSet(checks) = {"passed"} THEN "passed"
    ELSE "uncovered"

----------------------------------------------------------------------------
(* The profile (build_profile, _validation_report)                          *)

\* The n-th smallest value of f.
Ranked(f, n) ==
    CHOOSE x \in {f[i] : i \in DOMAIN f} :
        /\ Cardinality({i \in DOMAIN f : f[i] < x}) < n
        /\ n <= Cardinality({i \in DOMAIN f : f[i] <= x})

Median(f) ==
    LET n == Cardinality(DOMAIN f)
    IN  (Ranked(f, (n + 1) \div 2) + Ranked(f, n \div 2 + 1)) \div 2

\* The points of a curve under a role: per load the median of all its trials.
CurvePoints(v, rows, key, role) ==
    LET S == Samples(v, rows, key, role)
    IN  [l \in LoadsOf(rows, S) |->
            Median([s \in {t \in S : LoadOf(rows, t) = l} |-> TimeOf(rows, s)])]

CurveKeys(v, rows) == UNION {KeysOf(v, rows[r].point) : r \in DOMAIN rows}

\* The curves of the profile under a role.
Profile(v, rows, role) == [key \in CurveKeys(v, rows) |-> CurvePoints(v, rows, key, role)]

TrainingGroups(v, rows) ==
    {key \in CurveKeys(v, rows) : Samples(v, rows, key, "train") # {}}

\* Every holdout is covered by the training hull, half of them within a tenth
\* and nine in ten within a fifth.
ReportPassed(v, rows) ==
    LET held == Profile(v, rows, "validation")
        train == Profile(v, rows, "train")
        H == UNION {{key} \X DOMAIN held[key] : key \in DOMAIN held}
        predicted == [h \in H |-> Interpolated(train[h[1]], train[h[1]], h[2])]
        errors == [h \in H |-> Error(predicted[h], held[h[1]][h[2]])]
        rank == (Cardinality(H) - 1) * 9
        low == Ranked(errors, rank \div 10 + 1)
        high == Ranked(errors, (rank + 9) \div 10 + 1)
    IN  /\ H # {}
        /\ \A h \in H : predicted[h] # Uncovered
        /\ Median(errors) <= 100
        /\ 10 * low + (rank % 10) * (high - low) <= 2000

----------------------------------------------------------------------------
(* Configurations.                                                         *)

CONSTANTS
    Waves,         \* per plan: the loads at which another wave of CTAs starts
    DefaultPoints, \* the least number of loads a configuration may have
    Template,      \* per plan: its compiled module, or NoTemplate
    StageKeys,     \* per plan: the stage kernels of that module
    Workload,      \* per plan: batch times length
    Identity       \* per plan: its place in the order of static identities

NotDescribed == [status |-> "none", batch |-> 0, room |-> 0]

Midpoint(iv) == (iv[1] + iv[2]) \div 2

RowsOf(rows, key) == {r \in DOMAIN rows : rows[r].candidate = key}

\* The largest load that is legal: what was requested or what fits into memory.
LegalTop(d) == IF d.batch < d.room THEN d.batch ELSE d.room

\* The loads at the two ends and at every change of the number of waves of CTAs.
WaveLoads(p, top) == {1, top} \cup {w \in Waves[p] : w <= top}

\* A configuration from the description of plan p, one interior load held out.  A
\* rejected plan is filed under its static key.
Candidate(v, p, d) ==
    LET top == LegalTop(d)
        middle == Midpoint(<<1, top>>)
        holdout == IF 1 < middle /\ middle < top THEN middle ELSE 0
        loads == WaveLoads(p, top) \ {holdout}
    IN  [key |-> IF d.status = "resolved" THEN KeysOf(v, p) ELSE {p},
         point |-> p, description |-> d, requested |-> d.batch,
         loads |-> loads, seeds |-> loads, holdout |-> holdout,
         intervals |-> <<>>, reuse |-> {},
         omitted |-> IF d.batch > d.room THEN {"memory"} ELSE {}]

\* Merge an alias or a larger request without losing what was measured.
MergeCandidate(old, new) ==
    LET larger == new.requested > old.requested
        description == IF larger THEN new.description ELSE old.description
        held == IF old.holdout = 0 THEN new.holdout ELSE old.holdout
    IN  [old EXCEPT !.requested = IF larger THEN new.requested ELSE @,
                    !.point = IF larger THEN new.point ELSE @,
                    !.description = description,
                    !.holdout = held,
                    !.loads = {l \in @ \cup new.loads : l <= description.room} \ {held},
                    !.seeds = @ \cup new.seeds,
                    !.omitted = @ \cup new.omitted]

\* File a configuration under its key, in order of arrival.
Filed(candidates, new) ==
    IF \E i \in DOMAIN candidates : candidates[i].key = new.key
    THEN [i \in DOMAIN candidates |-> IF candidates[i].key = new.key
                                      THEN MergeCandidate(candidates[i], new) ELSE candidates[i]]
    ELSE Append(candidates, new)

FiledAll(candidates, more) == FoldLeft(Filed, candidates, more)

Described(described) == {p \in Points : described[p].status # "none"}

\* Every description filed into the candidates of a checkpoint.
Refiled(v, candidates, described) ==
    LET plans == SetToSeq(Described(described))
    IN  FiledAll(candidates, [n \in DOMAIN plans |-> Candidate(v, plans[n], described[plans[n]])])

----------------------------------------------------------------------------
(* Intervals                                                                *)

\* The loads a configuration is trained at.  Wrong results count here.
TrainingBatches(rows, c) ==
    {rows[r].batch : r \in {x \in RowsOf(rows, c.key) :
        rows[x].status = "measured" /\ "train" \in ToSet(rows[x].roles)}}

CorrectBatches(rows, c) == {rows[r].batch : r \in {x \in RowsOf(rows, c.key) : Usable(rows[x])}}

Adjacent(loads) ==
    {iv \in loads \X loads : iv[1] < iv[2] /\ \A m \in loads : m <= iv[1] \/ m >= iv[2]}

StateOf(c, iv) ==
    IF iv[2] - iv[1] <= 1 THEN "exact"
    ELSE IF iv \in DOMAIN c.intervals THEN c.intervals[iv] ELSE "unvalidated"

Unresolved(rows, c) ==
    {iv \in Adjacent(TrainingBatches(rows, c)) : StateOf(c, iv) \notin {"passed", "exact"}}

\* The widest interval (by the ratio of its ends) that is still to be validated.
NextInterval(rows, c) ==
    LET U == Unresolved(rows, c)
    IN  CHOOSE iv \in U : \A o \in U :
            \/ (iv[2] + 1) * (o[1] + 1) > (o[2] + 1) * (iv[1] + 1)
            \/ (iv[2] + 1) * (o[1] + 1) = (o[2] + 1) * (iv[1] + 1) /\ iv[1] <= o[1]

LegalMax(c) == LegalTop([batch |-> c.requested, room |-> c.description.room])

ValidationMode(rows, c, cap) ==
    IF LegalMax(c) <= cap /\ CorrectBatches(rows, c) = 1 .. LegalMax(c) THEN "exact-only"
    ELSE IF Adjacent(TrainingBatches(rows, c)) # {} /\ Unresolved(rows, c) = {} THEN "validated"
    ELSE "unvalidated"

----------------------------------------------------------------------------
(* Reuse of validated curves                                                *)

Sources(doc, c, cap) ==
    {i \in DOMAIN doc.candidates :
        LET s == doc.candidates[i] IN
        /\ s.key # c.key /\ s.reuse = {} /\ s.omitted = {}
        /\ s.description.status = "resolved"
        /\ s.requested >= c.requested
        /\ ValidationMode(doc.rows, s, cap) = "validated"
        /\ {1, s.requested} \subseteq CorrectBatches(doc.rows, s)}

\* The configurations cited for the curves of c: for each curve the first source
\* that has it; none unless every curve has one.
ReusableServices(doc, c, cap) ==
    LET S == Sources(doc, c, cap)
        With(k) == {i \in S : k \in doc.candidates[i].key}
    IN  IF c.omitted = {} /\ \A k \in c.key : With(k) # {}
        THEN {doc.candidates[Min(With(k))].key : k \in c.key}
        ELSE {}

----------------------------------------------------------------------------
(* Coverage and status                                                      *)

\* A plan that was rejected and never measured is not a curve.
NonExecutable(doc, c) == RowsOf(doc.rows, c.key) = {} /\ c.description.status # "resolved"
Curves(doc) == {i \in DOMAIN doc.candidates : ~NonExecutable(doc, doc.candidates[i])}

PointCount(rows, c) ==
    Cardinality({rows[r].batch : r \in {x \in RowsOf(rows, c.key) : rows[x].status = "measured"}})

ModeOf(doc, c, cap) ==
    IF c.reuse # {} THEN "reused-validated" ELSE ValidationMode(doc.rows, c, cap)

EntryComplete(doc, c, cap) ==
    \/ c.reuse # {}
    \/ /\ c.requested \in CorrectBatches(doc.rows, c)
       /\ c.omitted = {}
       /\ PointCount(doc.rows, c) >= 2
       /\ ValidationMode(doc.rows, c, cap) # "unvalidated"

Measured(rows) == {r \in DOMAIN rows : rows[r].status = "measured"}

\* The status of a call (_overall_status); the first reason that applies.
OverallStatus(v, doc, pending, call, cap, interrupted, exhausted) ==
    LET entries == {doc.candidates[i] : i \in Curves(doc)}
        modes == {ModeOf(doc, c, cap) : c \in entries}
    IN  CASE interrupted -> "interrupted"
          [] exhausted -> "incomplete-budget"
          [] pending # {} -> "incomplete-inventory"
          [] doc.candidates = <<>> \/ doc.rows = <<>> -> "incomplete-unsupported"
          [] entries = {} \/ TrainingGroups(v, doc.rows) = {} -> "incomplete-unsupported"
          [] \E c \in entries : c.reuse = {} /\ PointCount(doc.rows, c) < 2 -> "incomplete-one-point-only"
          [] \E c \in entries : c.omitted # {} \/ ~EntryComplete(doc, c, cap) -> "incomplete"
          [] ~ReportPassed(v, doc.rows) /\ modes # {"exact-only"} -> "incomplete-validation"
          [] \E r \in DOMAIN doc.rows : doc.rows[r].status = "unavailable" -> "incomplete-unsupported"
          [] OTHER -> IF call.mode = "full" THEN "complete" ELSE "complete-bounded"

FinalStatuses == {"complete", "complete-bounded"}

-----------------------------------------------------------------------------
(* The order of the plans (stage_acquisition_order): plans of shared-iterative  *)
(* modules are grouped by module, the largest plan of a module represents it, and *)
(* the representatives with a stage kernel not seen before come first.  No plan  *)
(* is dropped.                                                               *)

NoTemplate == "none"
Shared(points) == SelectSeq(points, LAMBDA p : Template[p] # NoTemplate)

\* The modules in the order of their first plan.
Modules(points) ==
    FoldLeft(LAMBDA seen, p : IF Contains(seen, Template[p]) THEN seen ELSE Append(seen, Template[p]),
             <<>>, Shared(points))

PlansOf(points, m) == SelectSeq(points, LAMBDA p : Template[p] = m)

Representative(points, m) ==
    LET plans == PlansOf(points, m)
    IN  plans[CHOOSE i \in DOMAIN plans :
                /\ \A j \in DOMAIN plans : Workload[plans[j]] <= Workload[plans[i]]
                /\ \A j \in 1 .. i - 1 : Workload[plans[j]] < Workload[plans[i]]]

ModuleStages(points, m) == StageKeys[PlansOf(points, m)[1]]

\* The lazy-gain selection: first the earliest module with a new stage kernel,
\* when there is none the earliest module left.
GainOrder(points) ==
    LET Take(state, n) ==
          LET fresh == SelectSeq(state.left,
                          LAMBDA m : ~(ModuleStages(points, m) \subseteq state.covered))
              next == IF fresh # <<>> THEN Head(fresh) ELSE Head(state.left)
          IN  [left |-> Remove(state.left, next),
               covered |-> state.covered \cup ModuleStages(points, next),
               order |-> Append(state.order, next)]
        all == Modules(points)
    IN  FoldLeft(Take, [left |-> all, covered |-> {}, order |-> <<>>],
                 [n \in DOMAIN all |-> n]).order

OrderPoints(points) ==
    LET order == GainOrder(points)
        representatives == [n \in DOMAIN order |-> Representative(points, order[n])]
        others == SelectSeq(Shared(points), LAMBDA p : ~Contains(representatives, p))
        rest == SelectSeq(points, LAMBDA p : Template[p] = NoTemplate)
    IN  representatives \o others \o SortSeq(rest, LAMBDA p, q : Identity[p] < Identity[q])

-----------------------------------------------------------------------------
(* Merging another checkpoint (stage_checkpoint_import).  Rows are told apart by  *)
(* what was measured, not by the configuration they were filed under; the merged  *)
(* document is never complete, whatever its parts were.                        *)

\* Mutant: two probes of a plan at the same load are one.
LoadContent(row) == <<row.point, row.batch, row.status>>

\* What identifies a row: everything but the configuration it was filed under.
Content(row) == [row EXCEPT !.candidate = {}, !.checks = <<>>, !.role = "any"]

WithRow(rows, row) ==
    IF \E r \in DOMAIN rows : Content(rows[r]) = Content(row) THEN rows ELSE Append(rows, row)

AppendUnique(rows, more) == FoldLeft(WithRow, rows, more)

\* Per plan the description at the largest load; the target's on a tie.
MergeDescriptions(target, source) ==
    [p \in Points |-> IF source[p].batch > target[p].batch THEN source[p] ELSE target[p]]

\* Merge the notes of two states of a configuration; the first one's intervals win.
MergeMetadata(old, new) ==
    LET larger == new.requested > old.requested
    IN  [old EXCEPT !.loads = @ \cup new.loads, !.seeds = @ \cup new.seeds,
                    !.omitted = @ \cup new.omitted,
                    !.intervals = @ @@ new.intervals,
                    !.requested = IF larger THEN new.requested ELSE @,
                    !.point = IF larger THEN new.point ELSE @,
                    !.description = IF larger THEN new.description ELSE @]

\* File the configurations of both checkpoints, with the merged descriptions, ...
MergedWith(known, c) ==
    IF \E i \in DOMAIN known : known[i].key = c.key
    THEN [i \in DOMAIN known |-> IF known[i].key = c.key THEN MergeMetadata(known[i], c) ELSE known[i]]
    ELSE Append(known, c)

Current(c, described) ==
    IF described[c.point].status = "none" THEN c ELSE [c EXCEPT !.description = described[c.point]]

AllMerged(known, more) == FoldLeft(MergedWith, known, more)

MergedAll(candidates, described) ==
    AllMerged(<<>>, [i \in DOMAIN candidates |-> Current(candidates[i], described)])

\* ... and those of descriptions that neither has a configuration for.
RebuiltWith(known, c) ==
    IF \E i \in DOMAIN known : known[i].point = c.point \/ known[i].key = c.key
    THEN known ELSE Append(known, c)

AllRebuilt(known, more) == FoldLeft(RebuiltWith, known, more)

MergeCandidates(v, target, source, described) ==
    LET plans == SetToSeq(Described(described))
    IN  AllRebuilt(MergedAll(target \o source, described),
                   [n \in DOMAIN plans |-> Candidate(v, plans[n], described[plans[n]])])

\* The keys, the configurations and the holdout decisions of another revision of
\* the curve model, rebuilt from the rows (_refresh_curve_model_state).
Fresh(v, c) == Candidate(v, c.point, c.description)

Remapped(v, candidates, key) ==
    IF \E i \in DOMAIN candidates : candidates[i].key = key
    THEN Fresh(v, candidates[CHOOSE i \in DOMAIN candidates : candidates[i].key = key]).key
    ELSE key

ResetRow(v, candidates, row) ==
    [row EXCEPT !.candidate = Remapped(v, candidates, @), !.checks = <<>>,
                !.roles = [i \in DOMAIN GroupsOf[row.point] |-> row.role]]

\* (A sequence for TLC at once, not a function evaluated row by row.)
ResetRows(v, candidates, rows) == [r \in DOMAIN rows |-> ResetRow(v, candidates, rows[r])] \o <<>>

\* Every holdout checked again, in order.
Rejudged(v, rows, r) ==
    IF rows[r].role = "validation" THEN AdaptiveValidation(v, rows, r) ELSE rows

AllRejudged(v, rows, which) == FoldLeft(LAMBDA known, r : Rejudged(v, known, r), rows, which)

Judged(v, rows) == AllRejudged(v, rows, [r \in DOMAIN rows |-> r])

RefreshCurveModel(v, doc) ==
    [doc EXCEPT
        !.rows = Judged(v, ResetRows(v, doc.candidates, doc.rows)),
        !.candidates = FiledAll(<<>>, [i \in DOMAIN doc.candidates |-> Fresh(v, doc.candidates[i])]),
        !.version = v,
        !.status = "model-rebuild-required"]

\* The target after the import of one other checkpoint.
MergeDocuments(v, target, source) ==
    LET described == MergeDescriptions(target.described, source.described)
        merged == [target EXCEPT
                     !.status = "running",
                     !.rows = AppendUnique(AppendUnique(<<>>, target.rows), source.rows),
                     !.described = described,
                     !.candidates = MergeCandidates(v, target.candidates, source.candidates, described),
                     !.composed = @ \cup source.composed,
                     !.inventory = @ \cup source.inventory]
    IN  IF target.version = v /\ source.version = v THEN merged
        ELSE [RefreshCurveModel(v, merged) EXCEPT !.status = "running"]
=============================================================================
