----------------------------- MODULE PlanCosts ------------------------------
(***************************************************************************)
(* stage_cost_model: what a plan is predicted to cost from the costs of    *)
(* its kernels, and whether the predictions of held-out workloads let them *)
(* rank plans nobody measured.                                             *)
(*                                                                         *)
(* Times are integers, demands parts of Unit; the shares of a duration are *)
(* rounded down.  The coefficients of the regression are an input.         *)
(***************************************************************************)
EXTENDS Integers, SequencesExt

CONSTANTS Unit,         \* of a demand: the whole device
          MaxLaunches   \* above which a schedule is not simulated (20000)

AtMostUnit(x) == IF x > Unit THEN Unit ELSE x

-----------------------------------------------------------------------------
(* The schedule of a plan: a launch <<g, k>> of group g over tile k, from 0.   *)

\* The order in which the runtime enqueues the launches.
Launches(groups, tiles, factor) ==
    LET piped == IF factor THEN groups - 1 ELSE groups
    IN  [i \in 1..(tiles * piped) |-> <<(i - 1) % piped, (i - 1) \div piped>>]
            \o (IF factor THEN <<<<groups - 1, 0>>>> ELSE <<>>)

\* Mutant: the consumer of a slot is the launch of the previous tile.
NearAfter(launch, groups, tiles, factor) ==
    LET g == launch[1] k == launch[2]
    IN  {<<g, j>> : j \in {k - 1} \cap Nat}
        \cup {<<h, IF factor /\ g = groups - 1 THEN tiles - 1 ELSE k>> : h \in {g - 1} \cap Nat}
        \cup {<<g + 1, j>> : j \in IF ~factor /\ k >= 3 /\ g + 1 < groups THEN {k - 3} ELSE {}}

\* The launches a launch follows: its stream's previous one, the producer of what it
\* reads and the consumer of the slot it fills; the last factor reads every slice.
After(launch, groups, tiles, factor) ==
    LET g == launch[1] k == launch[2]
    IN  {<<g, j>> : j \in {k - 1} \cap Nat}
        \cup {<<h, IF factor /\ g = groups - 1 THEN tiles - 1 ELSE k>> : h \in {g - 1} \cap Nat}
        \cup {<<g + 1, j>> : j \in IF ~factor /\ k >= 2 /\ g + 1 < groups THEN {k - 2} ELSE {}}

\* The nodes of a schedule.  The last tile of a batch costs last, a fraction of a
\* tile, or what the stages of the tail do (schedule_nodes).
Nodes(stages, tiles, factor, overlap, last, tail) ==
    LET order == Launches(Len(stages), tiles, factor)
        At(launch) == CHOOSE i \in DOMAIN order : order[i] = launch
        Node(i) ==
            LET g == order[i][1]
                ending == ~factor /\ order[i][2] = tiles - 1
                stage == IF ending /\ tail # <<>> THEN tail[g + 1] ELSE stages[g + 1]
                duration == IF ending /\ tail = <<>>
                            THEN stage.overhead + (stage.body * last[1]) \div last[2]
                            ELSE stage.overhead + stage.body
            IN  [after |-> {At(l) : l \in After(order[i], Len(stages), tiles, factor)}
                               \cup (IF overlap THEN {} ELSE {i - 1} \ {0}),
                 duration |-> duration,
                 demand |-> <<AtMostUnit(stage.sm), AtMostUnit(stage.hbm),
                              AtMostUnit((Unit * stage.overhead) \div duration)>>]
    IN  [i \in DOMAIN order |-> Node(i)]

\* The time, in parts of Unit, that the nodes take when those which run share the
\* device; -1 when some can never start (compose).
Composed(nodes) ==
    LET Ready(finished) == {i \in DOMAIN nodes : nodes[i].after \subseteq finished}
        Begun(set) == [i \in set |-> nodes[i].duration]
        Demand(left, axis) == FoldFunction(LAMBDA x, y : x + y, 0, [i \in DOMAIN left |-> nodes[i].demand[axis]])
        run[n \in 0..Len(nodes)] ==
            IF n = 0 THEN [left |-> Begun(Ready({})), finished |-> {}, elapsed |-> 0]
            ELSE LET s == run[n - 1]
                     work == Min({s.left[i] : i \in DOMAIN s.left})
                     pressure == Max({Unit} \cup {Demand(s.left, axis) : axis \in 1..3})
                     ending == {i \in DOMAIN s.left : s.left[i] = work}
                     finished == s.finished \cup ending
                     going == DOMAIN s.left \ ending
                 IN  IF DOMAIN s.left = {} THEN s
                     ELSE [left |-> [i \in going |-> s.left[i] - work]
                                        @@ Begun(Ready(finished) \ Ready(s.finished)),
                           finished |-> finished,
                           elapsed |-> s.elapsed + work * pressure]
        end == run[Len(nodes)]
    IN  IF end.finished = DOMAIN nodes THEN end.elapsed ELSE -1

Sum(seq) == FoldSeq(LAMBDA x, y : x + y, 0, seq)

\* A schedule of too many launches is charged as if nothing overlapped.
Serial(stages, tiles, last, tail) ==
    LET ending == IF tail = <<>> THEN stages ELSE tail
        Whole(stage) == stage.overhead + stage.body
        Ending(stage) == IF tail = <<>> THEN stage.overhead + (stage.body * last[1]) \div last[2]
                         ELSE Whole(stage)
    IN  Unit * ((tiles - 1) * Sum([g \in DOMAIN stages |-> Whole(stages[g])])
                    + Sum([g \in DOMAIN ending |-> Ending(ending[g])]))

Estimate(stages, tiles, factor, overlap, last, tail) ==
    IF tiles * Len(stages) > MaxLaunches THEN Serial(stages, tiles, last, tail)
    ELSE Composed(Nodes(stages, tiles, factor, overlap, last, tail))

-----------------------------------------------------------------------------
(* The terms of a kernel by the rates of the device (stage_terms).  A plan is     *)
(* [points, batch, tile, overlap, width], a kernel [launches, stages, grid, threads, *)
(* live, registers, units, native, chunk, ept]; units are its resident leaves.  Rates  *)
(* are times per item: of a byte, a butterfly, a shared byte and a barrier.            *)

BetweenStages(kernel) ==
    IF kernel.native /\ kernel.units # <<>> THEN Len(kernel.units) - 1 ELSE kernel.stages - 1

\* A chunked exchange publishes and hands over once more for every later round.
ExchangeBarriers(kernel) ==
    IF kernel.chunk = 0 \/ kernel.ept = 0 THEN 0
    ELSE 2 * ((kernel.ept + kernel.chunk - 1) \div kernel.chunk - 1)

\* The CTAs an SM holds, at least one.
Resident(kernel, device) ==
    Max({1, Min({device.blocks, device.threads \div kernel.threads}
                   \cup (IF kernel.live = 0 THEN {} ELSE {device.shared \div kernel.live})
                   \cup (IF kernel.registers = 0 THEN {}
                         ELSE {device.registers \div (kernel.threads * kernel.registers)}))})

\* One launch of a kernel; the work of a tile is split over its launches.
Term(plan, kernel, rates, device, dispatch) ==
    LET tile == IF plan.overlap THEN Min({plan.batch, Max({1, plan.tile})}) ELSE plan.batch
        points == (plan.points * tile) \div kernel.launches
        boundaries == BetweenStages(kernel)
        memory == 2 * points * plan.width * rates.byte
        compute == (points * kernel.stages * rates.butterfly) \div 2
        shared == IF kernel.live = 0 THEN 0 ELSE 2 * points * plan.width * boundaries * rates.shared
        barriers == IF kernel.live = 0 THEN 0
                    ELSE kernel.grid * (boundaries + ExchangeBarriers(kernel)) * rates.barrier
        slots == device.sms * Resident(kernel, device)
    IN  [points |-> points, memory |-> memory, compute |-> Max({compute, shared, barriers}),
         body |-> Max({memory, compute, shared, barriers, dispatch}),
         occupancy |-> <<Min({kernel.grid, slots}), slots>>]

-----------------------------------------------------------------------------
(* The prediction of a plan (_predict_measured, _predict_batch_composition).   *)
(* A kernel is [service, load, fallback, launches]; a sample [backend, overlap, *)
(* batch, tile, kernels, projection].  measured gives the curves of the profile.  *)

\* A probe measured the whole kernel, its launch included; without a probe in
\* range the fitted terms stand in.
Stage(kernel, measured) ==
    LET hull == DOMAIN measured[kernel.service]
    IN  IF kernel.load \in hull
        THEN [overhead |-> 0, body |-> measured[kernel.service][kernel.load],
              sm |-> kernel.sm, hbm |-> kernel.hbm, launches |-> 1, missing |-> FALSE]
        ELSE [overhead |-> kernel.fallback.overhead, body |-> kernel.fallback.body,
              sm |-> kernel.sm, hbm |-> kernel.hbm, launches |-> kernel.launches, missing |-> TRUE]

StagesOf(kernels, measured) == [g \in DOMAIN kernels |-> Stage(kernels[g], measured)]

TileOf(sample) == IF sample.tile < sample.batch THEN sample.tile ELSE sample.batch
TilesOf(sample) == (sample.batch + TileOf(sample) - 1) \div TileOf(sample)

\* The projection is of the batch and the tile of the sample.
Projected(sample) ==
    LET p == sample.projection
    IN  /\ p.tile = TileOf(sample) /\ p.tiles = TilesOf(sample)
        /\ p.tailBatch = sample.batch % TileOf(sample)
        /\ (p.tail # <<>>) = (p.tailBatch # 0)

Resolved(sample) == sample.overlap /\ sample.backend # "factor-streamed" /\ sample.projection.status = "resolved"

\* A plan of whole kernels, one after the other or by slices.
PredictPlain(sample, measured) ==
    LET stages == StagesOf(sample.kernels, measured)
        factor == sample.backend = "factor-streamed"
        batched == sample.overlap /\ ~factor
        tiles == IF factor THEN Max({stages[g].launches : g \in DOMAIN stages})
                 ELSE IF sample.overlap THEN TilesOf(sample) ELSE 1
        last == IF batched THEN <<sample.batch - (tiles - 1) * TileOf(sample), TileOf(sample)>>
                ELSE <<1, 1>>
    IN  [cost |-> Estimate(stages, tiles, factor, sample.overlap, last, <<>>),
         covered |-> ~batched /\ \A g \in DOMAIN stages : ~stages[g].missing]

\* A plan over tiles whose kernels were described at the tile and at the tail; a
\* measured floor of the pipeline raises the estimate.
PredictBatch(sample, measured, floor) ==
    LET p == sample.projection
        full == StagesOf(p.full, measured)
        tail == StagesOf(p.tail, measured)
        estimate == Estimate(full, p.tiles, FALSE, TRUE, <<1, 1>>, tail)
    IN  [cost |-> IF floor * Unit > estimate THEN floor * Unit ELSE estimate,
         covered |-> /\ \A g \in DOMAIN full : ~full[g].missing
                     /\ \A g \in DOMAIN tail : ~tail[g].missing]

Stale == [cost |-> -1, covered |-> FALSE]

Predict(sample, measured, floor) ==
    IF ~Resolved(sample) THEN PredictPlain(sample, measured)
    ELSE IF Projected(sample) THEN PredictBatch(sample, measured, floor) ELSE Stale

-----------------------------------------------------------------------------
(* The verdict on the model (fit, report).  A row is [workload, design, overlap,  *)
(* ms, primitive, load, guess]: guess is the time the model predicts for it.       *)

\* Overlapped totals are not additive: only serial rows train the regression, and
\* they bound what it covers (fit).
Trained(rows, primitive) == {r \in rows : ~r.overlap /\ r.primitive = primitive}

InRange(rows, row) ==
    LET loads == {r.load : r \in Trained(rows, row.primitive)}
    IN  loads # {} /\ Min(loads) <= row.load /\ row.load <= Max(loads)

Magnitude(n) == IF n < 0 THEN -n ELSE n

\* In thousandths, rounded up.
ErrorOf(row) == (1000 * Magnitude(row.guess - row.ms) + row.ms - 1) \div row.ms

\* The n-th smallest error of a set of rows.
NthError(rows, n) ==
    CHOOSE e \in {ErrorOf(r) : r \in rows} :
        /\ Cardinality({r \in rows : ErrorOf(r) < e}) < n
        /\ n <= Cardinality({r \in rows : ErrorOf(r) <= e})

\* Twice the median error.
Median2(rows) ==
    LET n == Cardinality(rows) IN NthError(rows, (n + 1) \div 2) + NthError(rows, n \div 2 + 1)

P90(rows) == NthError(rows, (9 * Cardinality(rows) + 9) \div 10)

\* _holdout_error_summary of rows of which some are covered.
HoldoutVerdict(rows, covered, least) ==
    IF rows = {} THEN "unvalidated"
    ELSE IF covered # rows THEN "warning-uncovered"
    ELSE IF Cardinality(rows) < least THEN "insufficient-holdout"
    ELSE IF Median2(rows) <= 200 /\ P90(rows) <= 200 THEN "passed" ELSE "warning-accuracy"

WorkloadsOf(rows) == {r.workload : r \in rows}
HeldOut(rows, w) == {r \in rows : r.workload = w}

\* The workloads that are held out: others to train on and two designs to choose from.
Checked(rows) ==
    {w \in WorkloadsOf(rows) : /\ HeldOut(rows, w) # rows
                               /\ \E a, b \in HeldOut(rows, w) : a.design # b.design}

\* The prediction of a held-out row is covered: by a curve of the stage services, or by
\* the other workloads.
RowCovered(rows, row, services) ==
    IF services # {} THEN row.primitive \in services
    ELSE InRange(rows \ HeldOut(rows, row.workload), row)

\* The plan predicted fastest is of the design measured fastest; which of equals comes
\* first the rows' order decides.
Winner(rows, w) ==
    LET held == HeldOut(rows, w)
        selected == {r \in held : \A q \in held : r.guess <= q.guess}
        best == {r \in held : \A q \in held : r.ms <= q.ms}
    IN  \E r \in selected, b \in best : r.design = b.design

\* Whether the curves predict the loads they were not made of: probes has the error of
\* every prediction in thousandths, -1 where no curve covers the load.  The ninetieth
\* percentile lies between the two errors next to it (_validation_report).
ServicesPassed(probes) ==
    LET errors == SortSeq(probes, <)
        n == Len(probes)
        place == 9 * (n - 1)
        low == errors[place \div 10 + 1]
        high == errors[(place + 9) \div 10 + 1]
    IN  /\ n > 0 /\ errors[1] # -1
        /\ errors[(n + 1) \div 2] + errors[n \div 2 + 1] <= 200
        /\ 10 * low + (place % 10) * (high - low) <= 2000

Report(rows, services, probes) ==
    LET checked == Checked(rows)
        held == UNION {HeldOut(rows, w) : w \in checked}
        covered == {r \in held : RowCovered(rows, r, services)}
        serial == {r \in held : ~r.overlap}
        mixed == {w \in checked : \E r \in HeldOut(rows, w) : r.overlap}
        composed == held \ serial
        Right(workloads) == 10 * Cardinality({w \in workloads : Winner(rows, w)})
                                >= 9 * Cardinality(workloads)
        serialVerdict == HoldoutVerdict(serial, serial \cap covered, 3)
        composition == HoldoutVerdict(composed, composed \cap covered, 1)
        global == /\ HoldoutVerdict(held, covered, 3) = "passed"
                  /\ Cardinality(checked) >= 3 /\ Right(checked)
        serially == /\ ServicesPassed(probes) /\ serialVerdict = "passed"
                    /\ Cardinality(checked \ mixed) >= 3 /\ Right(checked \ mixed)
                    /\ \A w \in checked \ mixed : HeldOut(rows, w) \subseteq covered
        wholly == ServicesPassed(probes) /\ global /\ composition = "passed"
        fitted == /\ Cardinality(checked) >= 3 /\ Right(checked)
                  /\ Median2(held) <= 600
                  /\ \A r \in held : Trained(rows \ HeldOut(rows, r.workload), r.primitive) # {}
    IN  IF rows = {} THEN "insufficient-candidates"
        ELSE IF services # {} /\ wholly THEN "calibrated-local"
        ELSE IF services # {} /\ serially THEN "calibrated-local-serial"
        ELSE IF services = {} /\ fitted THEN "calibrated-local"
        ELSE "calibrated-local-warning"

-----------------------------------------------------------------------------
(* The regression on whole plans (fit_local_cost_model).                      *)

\* What it is told of a plan: its launches, and the waits, records and buffers that
\* order them.  A plan is [groups, batch, tile, overlap, streamed, slices].
Features(plan) ==
    LET tiles == IF plan.overlap THEN (plan.batch + plan.tile - 1) \div plan.tile ELSE 1
        boundaries == plan.groups - 1
        early == IF plan.groups > 2 THEN plan.groups - 2 ELSE 0
    IN  IF plan.streamed
        THEN [launches |-> boundaries * plan.slices + 1,
              events |-> IF plan.overlap /\ plan.groups >= 2
                         THEN plan.groups + early * plan.slices + 3 ELSE 0,
              buffers |-> IF plan.slices > 1 \/ boundaries < 2 THEN boundaries ELSE 2]
        ELSE [launches |-> plan.groups * tiles,
              events |-> IF plan.overlap THEN boundaries * (4 * tiles - 2) ELSE 0,
              buffers |-> IF plan.overlap THEN 2 * boundaries ELSE 0]

\* The candidates of a campaign that train it: measured, correct, and none of a vendor's
\* (load_rows).
Internal(candidates) ==
    {c \in candidates : c.status = "measured" /\ c.correct /\ c.samples > 0 /\ ~c.external}

\* Two rows are of one design when their mappings are complete and equal; otherwise their
\* names and launch axes must be equal too (design_point_key).
Design(row) == IF row.complete THEN <<"resolved", row.workload, row.mapping, "", 0>>
               ELSE <<"legacy", row.workload, row.mapping, row.name, row.axes>>

\* _winner_match: a row without a name matches none.
Matched(best, selected) ==
    (best.complete \/ best.name # "") /\ Design(best) = Design(selected)

\* The workloads with two designs, and three rows of others to train on
\* (grouped_holdout_validation).
Judged(rows) ==
    {w \in WorkloadsOf(rows) :
        /\ Cardinality({Design(r) : r \in HeldOut(rows, w)}) >= 2
        /\ Cardinality(rows \ HeldOut(rows, w)) >= 3}

WinnerOf(rows, w) ==
    LET held == HeldOut(rows, w)
    IN  \E b, s \in held : /\ \A r \in held : b.ms <= r.ms /\ s.guess <= r.guess
                           /\ Matched(b, s)

\* The regression may rank plans nobody measured (main): alone is what it predicts for a
\* row when that row only is left out.
Admitted(candidates) ==
    LET rows == Internal(candidates)
        judged == Judged(rows)
        alone == {[row EXCEPT !.guess = row.alone] : row \in rows}
    IN  IF Cardinality(rows) < 3 THEN "insufficient-candidates"
        ELSE IF /\ Cardinality(judged) >= 3
                /\ Cardinality(rows) >= 4 /\ Median2(alone) <= 600
                /\ 10 * Cardinality({w \in judged : WinnerOf(rows, w)}) >= 9 * Cardinality(judged)
        THEN "calibrated-local" ELSE "calibrated-local-warning"
-----------------------------------------------------------------------------
(* The ranking of the designs that were confirmed in public                    *)
(* (run_research_acceptance).  A record is one of a campaign with [place, mapping,   *)
(* guess, covered]; a guess that is not positive is none.                            *)

\* The aliases of a mapping compete once, as the fastest, in the place of the first.
Competing(records) ==
    LET known == {r \in Internal(records) : r.guess > 0}
        Aliases(r) == {q \in known : q.mapping = r.mapping}
        fastest == {r \in known : \A q \in Aliases(r) : r.ms < q.ms \/ (r.ms = q.ms /\ r.place <= q.place)}
    IN  {[r EXCEPT !.place = Min({q.place : q \in Aliases(r)})] : r \in fastest}

InOrder(rows, field) ==
    SetToSortSeq(rows, LAMBDA a, b : a[field] < b[field] \/ (a[field] = b[field] /\ a.place < b.place))

Ranking(records) ==
    LET rows == Competing(records)
        observed == InOrder(rows, "ms")
        predicted == InOrder(rows, "guess")
        pairs == {<<a, b>> \in rows \X rows : a.place < b.place}
    IN  IF Cardinality(rows) < 2 THEN [status |-> "insufficient-candidates", count |-> Cardinality(rows)]
        ELSE [status |-> "evaluated", count |-> Cardinality(rows),
              top1 |-> predicted[1].name = observed[1].name,
              top2 |-> \E i \in 1..2 : predicted[i].name = observed[1].name,
              regret |-> <<predicted[1].ms, observed[1].ms>>,
              pairs |-> Cardinality(pairs),
              agreeing |-> Cardinality({p \in pairs : (p[1].ms - p[2].ms) * (p[1].guess - p[2].guess) > 0}),
              covered |-> \A r \in rows : r.covered]

\* The acceptance of a sequence of cells [status, ranking, ms], ms the median times of the
\* programs that were measured, ours among them (summarize).
Accepted(cells) ==
    LET ranked == {i \in DOMAIN cells : cells[i].ranking.status = "evaluated"}
        complete == {i \in DOMAIN cells : cells[i].status = "complete"}
        Over(set, At(_)) == FoldSet(LAMBDA i, n : At(i) + n, 0, set)
        Paired(name) == {i \in complete : name \in DOMAIN cells[i].ms}
        Slower(i, j, name) == cells[i].ms[name] * cells[j].ms["ours"] <= cells[j].ms[name] * cells[i].ms["ours"]
        baselines == UNION {DOMAIN cells[i].ms : i \in complete} \ {"ours"}
    IN  [cells |-> Cardinality(ranked), measured |-> complete = DOMAIN cells,
         unavailable |-> {i \in DOMAIN cells : cells[i].status = "unavailable"},
         top1 |-> Cardinality({i \in ranked : cells[i].ranking.top1}),
         top2 |-> Cardinality({i \in ranked : cells[i].ranking.top2}),
         agreeing |-> Over(ranked, LAMBDA i : cells[i].ranking.agreeing),
         pairs |-> Over(ranked, LAMBDA i : cells[i].ranking.pairs),
         covered |-> Cardinality({i \in ranked : cells[i].ranking.covered}),
         baselines |-> [name \in baselines |->
            [paired |-> Cardinality(Paired(name)),
             faster |-> Cardinality({i \in Paired(name) : cells[i].ms[name] >= cells[i].ms["ours"]}),
             least |-> LET i == CHOOSE i \in Paired(name) : \A j \in Paired(name) : Slower(i, j, name)
                       IN  <<cells[i].ms[name], cells[i].ms["ours"]>>]]]
=============================================================================
