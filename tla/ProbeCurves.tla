---------------------------- MODULE ProbeCurves -----------------------------
(***************************************************************************)
(* The scheduling probes of a device: schedule_cost_model (launches of     *)
(* empty CTAs) and pipeline_schedule_model (the floor of a BatchPipeline), *)
(* from the rows a probe prints to the costs a plan is charged, and the    *)
(* artifact that keeps them from one calibration to the next; and          *)
(* select_mapping, which ranks the mappings measured at other batches.     *)
(*                                                                         *)
(* A row of the pipeline probe is [groups, tiles, correct, ms], one of the *)
(* launch probe [threads, grid, ms].  A quotient is <<numerator,           *)
(* denominator>>.                                                          *)
(***************************************************************************)
EXTENDS Integers, Sequences, FiniteSetsExt

\* No artifact, no rows or no answer.
None == [none |-> TRUE]

Uncovered == <<0, 0>>

-----------------------------------------------------------------------------
(* The floor of a pipeline.                                                 *)

PipelineGroups == {2, 3, 4}
TrainingTiles == {1, 2, 4, 8, 16, 32}
ValidationTiles == {3, 6, 12, 24}

\* The rows summarize accepts: correct, positive, no shape twice, some to train on.
Fits(rows) ==
    /\ \A i \in DOMAIN rows : rows[i].correct /\ rows[i].ms > 0
    /\ \A i, j \in DOMAIN rows :
          i # j => <<rows[i].groups, rows[i].tiles>> # <<rows[j].groups, rows[j].tiles>>
    /\ \E i \in DOMAIN rows : rows[i].groups \in PipelineGroups /\ rows[i].tiles \in TrainingTiles

\* The measured times of a number of groups, by tiles.
Measured(rows, groups, tiles) ==
    LET Of(t) == {i \in DOMAIN rows : rows[i].groups = groups /\ rows[i].tiles = t}
    IN  [t \in {u \in tiles : Of(u) # {}} |-> rows[CHOOSE i \in Of(t) : TRUE].ms]

Below(t) == Max({u \in TrainingTiles : u < t})
Above(t) == Min({u \in TrainingTiles : u > t})

\* _predict_training: between the two neighbouring training tiles, both measured.
TrainedFloor(points, t) ==
    IF t \in DOMAIN points THEN <<points[t], 1>>
    ELSE IF t \in TrainingTiles \/ t > Max(TrainingTiles) THEN Uncovered
    ELSE IF {Below(t), Above(t)} \subseteq DOMAIN points
    THEN <<points[Below(t)] * (Above(t) - Below(t))
               + (t - Below(t)) * (points[Above(t)] - points[Below(t)]),
           Above(t) - Below(t)>>
    ELSE Uncovered

\* _segment_points: time = (intercept + slope * tiles) / width.
Segments(points) ==
    {[lower |-> l, upper |-> Above(l), width |-> Above(l) - l,
      slope |-> points[Above(l)] - points[l],
      intercept |-> points[l] * (Above(l) - l) - (points[Above(l)] - points[l]) * l] :
        l \in {u \in DOMAIN points : u < Max(TrainingTiles) /\ Above(u) \in DOMAIN points}}

HoldoutStatus(points, held, t) ==
    IF t \in DOMAIN held /\ TrainedFloor(points, t) # Uncovered THEN "covered" ELSE "missing"

\* The summary keeps, per number of groups, the training points and the checks.
Summary(rows) ==
    [g \in PipelineGroups |->
        LET points == Measured(rows, g, TrainingTiles)
            checks == [t \in ValidationTiles |->
                          HoldoutStatus(points, Measured(rows, g, ValidationTiles), t)]
        IN  [training |-> points, segments |-> Segments(points), checks |-> checks,
             status |-> IF \A t \in ValidationTiles : checks[t] = "covered"
                        THEN "covered" ELSE "incomplete"]]

\* The floor of a plan of so many groups over so many tiles (costs).
PipelineFloor(summary, groups, tiles) ==
    IF groups \in PipelineGroups /\ tiles \in 1..Max(TrainingTiles)
    THEN TrainedFloor(summary[groups].training, tiles)
    ELSE Uncovered

-----------------------------------------------------------------------------
(* The launch of a kernel.                                                  *)

ShapesOf(rows) == {rows[i].threads : i \in DOMAIN rows}
RowsOf(rows, threads) == {rows[i] : i \in {j \in DOMAIN rows : rows[j].threads = threads}}

LaunchFits(rows) ==
    /\ \A i \in DOMAIN rows : rows[i].ms > 0 /\ rows[i].threads > 0 /\ rows[i].grid > 0
    /\ \A i, j \in DOMAIN rows :
          i # j => <<rows[i].threads, rows[i].grid>> # <<rows[j].threads, rows[j].grid>>
    /\ ShapesOf(rows) # {}
    /\ \A t \in ShapesOf(rows) : Cardinality(RowsOf(rows, t)) >= 2
                                 /\ \E r \in RowsOf(rows, t) : r.grid = 1

\* The line through the one-CTA launch that fits the others best, never falling.
LaunchShape(rows, threads) ==
    LET mine == RowsOf(rows, threads)
        startup == (CHOOSE r \in mine : r.grid = 1).ms
        SumOf(F(_)) == MapThenSumSet(F, mine)
        rise == SumOf(LAMBDA r : (r.grid - 1) * (r.ms - startup))
    IN  [threads |-> threads, startup |-> startup,
         rise |-> IF rise > 0 THEN rise ELSE 0,
         run |-> SumOf(LAMBDA r : (r.grid - 1) * (r.grid - 1))]

LaunchSummary(rows) == {LaunchShape(rows, t) : t \in ShapesOf(rows)}

\* The measured block size nearest to threads in ratio, the smaller on a tie.
NearestShape(shapes, threads) ==
    LET Larger(s) == IF s.threads > threads THEN s.threads ELSE threads
        Smaller(s) == IF s.threads > threads THEN threads ELSE s.threads
        Nearer(s, t) == LET a == Larger(s) * Smaller(t) b == Larger(t) * Smaller(s)
                        IN  a < b \/ (a = b /\ s.threads <= t.threads)
    IN  CHOOSE s \in shapes : \A t \in shapes : Nearer(s, t)

\* Start-up and dispatch; a flat curve leaves the dispatch to the prior (costs).
LaunchCost(shapes, threads, grid) ==
    LET shape == NearestShape(shapes, threads)
    IN  IF shapes = {} THEN [startup |-> Uncovered, dispatch |-> Uncovered]
        ELSE [startup |-> <<shape.startup, 1>>,
              dispatch |-> IF shape.rise > 0 THEN <<(grid - 1) * shape.rise, shape.run>> ELSE Uncovered]

-----------------------------------------------------------------------------
(* The artifact on disk, replaced by a rename: [identity, raw, summary] or None. *)
(* The identity digests the binary, the device, the protocol and the version of   *)
(* the model; raw names the device it was printed by and the revisions of the     *)
(* model that accept its rows.                                               *)

Device(identity) == identity[2]

Fitted(raw, identity, revision) ==
    IF raw # None /\ raw.device = Device(identity) /\ revision \in raw.accepted
    THEN [raw |-> raw.id, revision |-> revision] ELSE None

\* A probe prints rows or fails, and the disk may refuse the artifact: either way
\* the call raises and the artifact stays.
Probed(disk, identity, revision, probe, writable) ==
    LET fresh == Fitted(probe, identity, revision)
    IN  IF fresh # None /\ writable
        THEN [disk |-> [identity |-> identity, raw |-> probe, summary |-> fresh],
              result |-> fresh, probed |-> TRUE]
        ELSE [disk |-> disk, result |-> None, probed |-> TRUE]

Same(disk, identity) == disk # None /\ disk.identity = identity

\* calibrate of pipeline_schedule_model: the rows of the artifact are fitted again.
CalibratePipeline(disk, identity, revision, probe, writable) ==
    LET cached == IF Same(disk, identity) THEN Fitted(disk.raw, identity, revision) ELSE None
    IN  IF cached # None
        THEN [disk |-> IF writable THEN [disk EXCEPT !.summary = cached] ELSE disk,
              result |-> cached, probed |-> FALSE]
        ELSE Probed(disk, identity, revision, probe, writable)

\* calibrate of schedule_cost_model: the summary of the artifact is taken as it is.
CalibrateLaunch(disk, identity, revision, probe, writable) ==
    IF Same(disk, identity)
    THEN [disk |-> disk, result |-> disk.summary, probed |-> FALSE]
    ELSE Probed(disk, identity, revision, probe, writable)

-----------------------------------------------------------------------------
(* The selection among measured mappings.  A row is [id, semantic, batch,         *)
(* implementation, ms, threads, correct, external]: batch is a logarithm to base   *)
(* two, ms a natural one in parts of which Steepest make one, so that twice the      *)
(* time is seven of the ten; id is its place in the file.                          *)

Steepest == 10

\* load_rows
Loaded(rows, internal) == {r \in rows : r.correct /\ (internal => ~r.external)}

\* interpolate_log_latency over pairs of batch and time, for a batch that is none of theirs.
\* The slope is held between none and one natural logarithm per doubling.
LatencyAt(points, target) ==
    LET lower == {p \in points : p[1] < target}
        upper == {p \in points : p[1] > target}
        Lowest(set) == CHOOSE p \in set : \A q \in set : p[1] <= q[1]
        Highest(set) == CHOOSE p \in set : \A q \in set : p[1] >= q[1]
        Line(left, right, anchor, confidence) ==
            LET width == right[1] - left[1]
                slope == Min({Steepest * width, Max({0, right[2] - left[2]})})
            IN  [ms |-> <<anchor[2] * width + slope * (target - anchor[1]), width>>, confidence |-> confidence]
    IN  CASE points = {} -> [ms |-> Uncovered, confidence |-> "measurement-required"]
          [] Cardinality(points) = 1 -> [ms |-> <<Highest(points)[2], 1>>, confidence |-> "single-point"]
          [] lower # {} /\ upper # {} /\ Cardinality(points) > 1 ->
                Line(Highest(lower), Lowest(upper), Highest(lower), "interpolated")
          [] upper = {} /\ Cardinality(points) > 1 ->
                LET last == Highest(lower)
                IN  Line(Highest(lower \ {last}), last, last, "extrapolated-high")
          [] lower = {} /\ Cardinality(points) > 1 ->
                LET first == Lowest(upper)
                IN  Line(first, Lowest(upper \ {first}), first, "extrapolated-low")

Shape(row) == <<row.semantic, row.batch>>

\* What is predicted of a mapping from its rows outside its own shape.
PredictedLatency(row, rows) ==
    LatencyAt({<<r.batch, r.ms>> : r \in {q \in rows : /\ q.semantic = row.semantic
                                                       /\ q.implementation = row.implementation
                                                       /\ Shape(q) # Shape(row)}}, row.batch)

\* rank_shape: the candidates that fit the device and have a prediction, the fastest first.
RankShape(candidates, rows, threads) ==
    LET latency == [r \in candidates |-> PredictedLatency(r, rows)]
        ranked == {r \in candidates : r.threads <= threads /\ latency[r].ms # Uncovered}
        Faster(a, b) == LET left == latency[a].ms[1] * latency[b].ms[2]
                            right == latency[b].ms[1] * latency[a].ms[2]
                        IN  left < right \/ (left = right /\ a.id < b.id)
    IN  [n \in 1..Cardinality(ranked) |->
            CHOOSE r \in ranked : Cardinality({q \in ranked : Faster(q, r)}) = n - 1]

\* evaluate: the shapes whose several candidates could all be ranked, what was predicted
\* the fastest and what was.
Evaluated(rows, threads, top) ==
    LET Of(shape) == {r \in rows : Shape(r) = shape}
        Winner(set) == CHOOSE r \in set : \A q \in set : r.ms < q.ms \/ (r.ms = q.ms /\ r.id <= q.id)
    IN  [shape \in {s \in {Shape(r) : r \in rows} :
                        /\ Cardinality(Of(s)) >= 2
                        /\ Len(RankShape(Of(s), rows, threads)) = Cardinality(Of(s))} |->
            LET ranked == RankShape(Of(shape), rows, threads)
            IN  [winner |-> Winner(Of(shape)), predicted |-> ranked[1],
                 top |-> {ranked[i] : i \in 1..Min({top, Len(ranked)})},
                 regret |-> ranked[1].ms - Winner(Of(shape)).ms]]

\* main: a workload that was never measured is refused.
Selected(rows, shape, threads, top) ==
    LET ranked == RankShape({r \in rows : Shape(r) = shape}, rows, threads)
    IN  SubSeq(ranked, 1, Min({top, Len(ranked)}))
=============================================================================
