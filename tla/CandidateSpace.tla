--------------------------- MODULE CandidateSpace ---------------------------
(***************************************************************************)
(* The spaces that are searched.  butterfly_design_space: the points of    *)
(* the architecture space and the choices that realise one.                *)
(* sweep_cubutterfly_designs, fft_design_space: the kernel forms of a      *)
(* sweep and the compiled points; residency_features: the CTAs of a kernel *)
(* an SM holds. calibration_space: the order in which the candidates of a  *)
(* workload are screened, and the kernels a candidate is expected to       *)
(* launch before it has been compiled. calibration_seeds: the candidates   *)
(* that winners elsewhere propose.                                         *)
(*                                                                         *)
(* A candidate to order is [id, family, streamed, axes, strategy, unit]:   *)
(* id its place in the order of digests, axes, strategy and unit tuples of *)
(* integers.  A mapping to project is a record of ResidentAxes with        *)
(* [columns, tilesPerCta, reorder, exchange, groups].                      *)
(*                                                                         *)
(* The document of the architecture space is [operators, semantic, levels, *)
(* hardware, words, accumulators, groups, arithmetic, coefficients,        *)
(* exchanges, axes, families, forms, runtime] with, of every operator,     *)
(* [cores, precision, coefficient], the bindings of its cores and the      *)
(* widths of its precisions.  Lists keep the order of the document, whose  *)
(* first choice is the default.                                            *)
(***************************************************************************)
EXTENDS ResidentAxes

CONSTANT Screened  \* the strategies that are spread over the axes; 32


-----------------------------------------------------------------------------
(* The architecture space.                                                  *)

Rounded(a, b) == (a + b - 1) \div b
Smaller(a, b) == IF a < b THEN a ELSE b
Larger(a, b) == IF a > b THEN a ELSE b

\* The ordered positive partitions of the stages into rank dimensions.
StagePartitions(total, rank) ==
    LET of[t \in 0..total, r \in 0..rank] ==
            IF r < 1 \/ t < r THEN {}
            ELSE IF r = 1 THEN {<<t>>}
            ELSE UNION {{<<k>> \o suffix : suffix \in of[t - k, r - 1]} : k \in 1..(t - r + 1)}
    IN  of[total, rank]

PowersUpTo(limit) == {v \in 1..limit : PowerOfTwo(v)} \cup {limit}

\* The pairs of stages and cells in space: a product, or the factors of so many cells.
ArchitecturePairs(us, ud, cells) ==
    IF cells = 0 THEN us \X ud ELSE {<<u, cells \div u>> : u \in {v \in us : cells % v = 0}}

\* What the stages and the independent work of one dimension take, u and d at a time.
DimensionPoint(stages, work, u, d) == [ts |-> Rounded(stages, u), td |-> Rounded(work, d)]

OnChip == {"register", "shared", "cluster-shared"}

\* derive_architecture_point, of p = [logN, us, ud, ub, batch, bytes, stage, data, staged]
\* with the residence of what waits between the folds of the stages and of the data.
ArchitecturePoint(p) ==
    LET one == DimensionPoint(p.logN, 2^(p.logN - 1), p.us, p.ud)
        tb == Rounded(p.batch, p.ub)
        Feedback(residence, folds) ==
            IF residence \in OnChip THEN 0 ELSE 2 * 2^p.logN * p.batch * p.bytes * (folds - 1)
    IN  [ts |-> one.ts, td |-> one.td, tb |-> tb, cells |-> p.us * p.ud * p.ub,
         cycles |-> one.ts * one.td * tb,
         boundary |-> 2 * p.ud * p.ub, interstage |-> 2 * p.ud * (p.us - 1) * p.ub,
         coefficients |-> IF p.staged THEN p.us * p.ud * p.ub ELSE 0,
         stageBytes |-> Feedback(p.stage, one.ts), dataBytes |-> Feedback(p.data, one.td)]

\* Every dimension of a partition has a mapping of its own.
MultidimensionalPoint(partition, mappings) ==
    [i \in DOMAIN partition |->
        DimensionPoint(partition[i], 2^(partition[i] - 1), mappings[i].us, mappings[i].ud)]

\* The unfolding of the levels composes to the logical factors.
HierarchyComposes(factors, levels) ==
    \A axis \in DOMAIN factors :
        FoldFunction(LAMBDA a, b : a * b, 1, [l \in DOMAIN levels |-> levels[l][axis]]) = factors[axis]

\* load_space: the documents that are accepted.
SpaceLegal(s) ==
    /\ DOMAIN s.operators = s.semantic
    /\ DOMAIN s.bindings = s.semantic /\ DOMAIN s.widths = s.semantic
    /\ s.levels = s.hardware
    /\ \A op \in s.semantic :
          LET o == s.operators[op] IN
          /\ ToSet(o.coefficient) \subseteq s.coefficients /\ o.cores # <<>>
          /\ DOMAIN s.bindings[op] = ToSet(o.cores)
          /\ \A core \in ToSet(o.cores) :
                LET b == s.bindings[op][core] IN
                /\ b.group \in s.groups /\ b.arithmetic \in s.arithmetic
                /\ ToSet(b.precision) \subseteq ToSet(o.precision)
                /\ ToSet(b.coefficient) \subseteq ToSet(o.coefficient)
                /\ ToSet(b.exchange) \subseteq s.exchanges
          /\ DOMAIN s.widths[op] = ToSet(o.precision)
          /\ \A p \in ToSet(o.precision) :
                /\ ToSet(s.widths[op][p].word) \subseteq s.words
                /\ ToSet(s.widths[op][p].accumulator) \subseteq s.accumulators
    /\ s.families \subseteq s.forms /\ s.runtime \subseteq s.families

\* validate_fft_projection: the FFT's own space names only what its projection has.
CoefficientOf(twiddle) == IF twiddle = "fused-core" THEN "generated" ELSE twiddle

FftProjects(s, fft) ==
    /\ fft.precision \subseteq ToSet(s.operators["fft"].precision)
    /\ fft.core \subseteq ToSet(s.operators["fft"].cores)
    /\ fft.exchange \subseteq s.exchanges
    /\ {CoefficientOf(t) : t \in fft.twiddle} \subseteq ToSet(s.operators["fft"].coefficient)

\* What was requested of an axis, or the first choice; a binding drops what it has not.
Chosen(requested, listed) == IF requested = {} THEN {Head(listed)} ELSE requested
Kept(requested, listed) == Chosen(requested, listed) \cap ToSet(listed)

\* A core bound to no precision takes any of its operator.
PrecisionsOf(s, op, core) ==
    IF s.bindings[op][core].precision = <<>> THEN s.operators[op].precision
    ELSE s.bindings[op][core].precision

\* A request names only choices that its axis has.
Requestable(s, op, asked) ==
    /\ asked.core \subseteq ToSet(s.operators[op].cores)
    /\ asked.precision \subseteq ToSet(s.operators[op].precision)
    /\ asked.coefficient \subseteq ToSet(s.operators[op].coefficient)
    /\ asked.group \subseteq s.groups /\ asked.arithmetic \subseteq s.arithmetic
    /\ asked.word \subseteq s.words /\ asked.accumulator \subseteq s.accumulators
    /\ asked.exchange \subseteq s.exchanges
    /\ \A axis \in DOMAIN asked.axes : axis \in DOMAIN s.axes /\ asked.axes[axis] \subseteq ToSet(s.axes[axis])

\* The product of the axes that no core binds.
AxisChoices(s, asked) ==
    LET Values(axis) == Chosen(IF axis \in DOMAIN asked.axes THEN asked.axes[axis] ELSE {}, s.axes[axis])
    IN  {f \in [DOMAIN s.axes -> UNION {Values(axis) : axis \in DOMAIN s.axes}] :
            \A axis \in DOMAIN s.axes : f[axis] \in Values(axis)}

\* expand_design_choices; a request that is refused or that no core meets has none.
DesignChoices(s, op, asked) ==
    LET Points(core) ==
            LET b == s.bindings[op][core] IN
            IF \/ asked.group # {} /\ b.group \notin asked.group
               \/ asked.arithmetic # {} /\ b.arithmetic \notin asked.arithmetic
            THEN {}
            ELSE UNION {[core : {core}, group : {b.group}, arithmetic : {b.arithmetic}, precision : {p},
                         coefficient : Kept(asked.coefficient, b.coefficient),
                         exchange : Kept(asked.exchange, b.exchange),
                         word : Kept(asked.word, s.widths[op][p].word),
                         accumulator : Kept(asked.accumulator, s.widths[op][p].accumulator),
                         axes : AxisChoices(s, asked)] :
                           p \in Kept(asked.precision, PrecisionsOf(s, op, core))}
    IN  IF Requestable(s, op, asked)
        THEN UNION {Points(core) : core \in Chosen(asked.core, s.operators[op].cores)}
        ELSE {}

\* main: nothing is listed when the product is over the limit, else a row for every
\* partition, architecture and choice.
CandidateCount(r, choices) ==
    Cardinality(StagePartitions(r.logN, r.rank)) * Cardinality(ArchitecturePairs(r.us, r.ud, r.cells))
    * Cardinality(r.ub) * Cardinality(r.stage) * Cardinality(r.data) * Cardinality(choices)

Rows(r, choices) ==
    IF choices = {} \/ CandidateCount(r, choices) > r.limit THEN {}
    ELSE {[partition |-> q, us |-> pair[1], ud |-> pair[2], ub |-> ub, stage |-> rs, data |-> rd,
           choice |-> c, bytes |-> IF r.bytes = 0 THEN Rounded(c.word, 8) ELSE r.bytes] :
             q \in StagePartitions(r.logN, r.rank), pair \in ArchitecturePairs(r.us, r.ud, r.cells),
             ub \in r.ub, rs \in r.stage, rd \in r.data, c \in choices}

-----------------------------------------------------------------------------
(* The sweep of the kernel forms.                                           *)

Form == [backend |-> "temporal-tile", unit |-> "auto", core |-> "scalar", multiply |-> "four-mul",
         twiddle |-> "table", exchange |-> "shared", layout |-> "linear", threads |-> 0, local |-> 0,
         columns |-> 0, warps |-> 0, pipeline |-> 0, space |-> 0, prefix |-> <<0, 0>>, suffix |-> <<0, 0>>]

CooperativeUnits == {"radix2", "radix4", "radix8"}

TileForms(op, precision, n, o) ==
    {f \in {[Form EXCEPT !.unit = u, !.threads = t] : u \in CooperativeUnits, t \in o.tile} :
        n <= 10 \/ (op = "fft" /\ precision = "fp32" /\ n \in {11, 12})}

SplitForms(n, o) ==
    {f \in {[Form EXCEPT !.backend = b, !.unit = u, !.threads = t, !.local = l, !.columns = c] :
               b \in {"hierarchical", "online-reorder"}, u \in CooperativeUnits, t \in o.tile,
               l \in o.local, c \in o.columns \cup {0}} :
        /\ n >= 6 /\ f.local < n
        /\ f.backend = "hierarchical" => f.columns = 0
        /\ f.backend = "online-reorder" =>
              /\ f.columns \in o.columns /\ n - f.local <= 10
              /\ f.columns <= 2^f.local
              /\ f.columns * 2^(n - f.local) <= 1024}

WarpForms(op, precision) ==
    {[Form EXCEPT !.backend = "warp-hybrid", !.unit = "radix2", !.warps = w] : w \in 0..5}
    \cup {f \in {[Form EXCEPT !.backend = "stage-pipeline", !.unit = "radix2", !.pipeline = p, !.space = s] :
                    p \in {4, 8}, s \in {1, 2, 4, 8}} :
             f.space <= f.pipeline /\ <<op, precision>> # <<"fft", "fp64">>}

\* base_configurations, and either multiplication of complex numbers.
ScalarForms(op, precision, n, o) ==
    LET forms == TileForms(op, precision, n, o) \cup SplitForms(n, o)
                 \cup (IF n = 8 THEN WarpForms(op, precision) ELSE {})
    IN  IF op = "fft"
        THEN {[f EXCEPT !.multiply = m] : f \in forms, m \in {"four-mul", "gauss3"}}
             \cup {[Form EXCEPT !.backend = "cufft"]}
        ELSE forms

ExchangeThreads(n) == CASE n <= 7 -> 2^(n - 3) [] n \in {8, 9} -> 32 [] n = 10 -> 128 [] OTHER -> 256

ExchangeForms(op, precision, n) ==
    IF op \in {"fwht", "structured-2x2"} /\ precision = "fp32" /\ n \in 3..15
    THEN {[Form EXCEPT !.unit = "radix2", !.exchange = "warp-register", !.threads = ExchangeThreads(n)]}
    ELSE {}

\* The cores that do a whole transform in one CTA.
CoreForms(precision, n, o) ==
    {[Form EXCEPT !.core = "cufftdx-block", !.threads = 32] : x \in {n} \cap 3..10}
    \cup IF precision = "fp64" THEN {}
         ELSE {[Form EXCEPT !.core = "thread-dft8", !.unit = "radix8", !.threads = 128] : x \in {n} \cap {3}}
              \cup {[Form EXCEPT !.core = "cta-dft8", !.unit = "radix8", !.threads = t] :
                       t \in {u \in o.tile : n \in 3..10 /\ u * 8 >= 2^n}}
              \cup {[Form EXCEPT !.core = "cufftdx-direct", !.threads = t] :
                       t \in {u \in o.resident : n \in 11..13 \/ (n = 14 /\ u # 256)}}
              \cup {[Form EXCEPT !.core = "turbofft-generated", !.threads = 32] : x \in {n} \cap 7..10}

\* Threads and elements per thread that hold some number of transforms.
CoversUnits(pair, n) ==
    pair[2] <= 2^n /\ pair[1] * pair[2] >= 2^n /\ (pair[1] * pair[2]) % 2^n = 0

\* A prefix and a suffix of a block core each.
OnlineForms(precision, n, o) ==
    LET stages == IF precision = "fp64" THEN 7..9 ELSE 3..10
        layouts == IF precision = "fp64" THEN {"linear", "xor-swizzle"} ELSE {"linear"}
        Pairs(threads, ept, m) ==
            {p \in threads \X ept :
                CoversUnits(p, m) /\ (precision = "fp64" => p \in {128, 256, 512} \X {4, 8})}
    IN  UNION {{[Form EXCEPT !.backend = "online-reorder", !.core = "cufftdx-block", !.threads = 32, !.columns = 1,
                             !.local = l, !.twiddle = w, !.layout = y, !.prefix = p, !.suffix = q] :
                   w \in {"table", "recurrence"}, y \in layouts,
                   p \in Pairs(o.prefixThreads, o.prefixEpt, l), q \in Pairs(o.suffixThreads, o.suffixEpt, n - l)} :
               l \in {m \in o.local : m \in stages /\ n - m \in stages}}

ResidentForms(n, o) ==
    {[Form EXCEPT !.backend = "online-reorder", !.core = "cufftdx-resident", !.columns = 1, !.threads = t,
                  !.local = n \div 2, !.twiddle = w] :
        t \in {u \in o.resident : n \in {12, 14} /\ n \div 2 \in o.local}, w \in {"table", "recurrence"}}

\* configurations
Forms(op, precision, n, o) ==
    IF precision = "fp16-fp32"
    THEN {[Form EXCEPT !.core = "wmma-dft8", !.unit = "radix8", !.threads = 256] : x \in {n} \cap {m \in {3} : op = "fft"}}
    ELSE ScalarForms(op, precision, n, o) \cup ExchangeForms(op, precision, n)
         \cup (IF op # "fft" THEN {}
               ELSE CoreForms(precision, n, o) \cup OnlineForms(precision, n, o)
                    \cup (IF precision = "fp32" THEN ResidentForms(n, o) ELSE {}))

\* What main asks of a form, the compiled points of the code generator among it.
Swept(op, precision, n, o, compiled) ==
    {f \in Forms(op, precision, n, o) :
        /\ f.backend \in o.backends /\ f.core \in o.cores /\ f.exchange \in o.exchanges
        /\ f.layout \in o.layouts /\ f.twiddle \in o.twiddles
        /\ f.unit \in o.units \cup {"auto"}
        /\ op = "fft" => f.multiply \in o.multiplies
        /\ f.core = "cufftdx-block" /\ f.backend = "online-reorder" =>
              {<<f.local>> \o f.prefix, <<n - f.local>> \o f.suffix} \subseteq compiled}

\* The options that the benchmark is given.
Command(f) ==
    <<f.backend, f.unit, f.multiply, f.twiddle, f.exchange, f.layout, f.core,
      CASE f.backend = "temporal-tile"  -> <<f.threads>>
        [] f.backend = "hierarchical"   -> <<f.threads, f.local>>
        [] f.backend = "online-reorder" -> <<f.threads, f.local, f.columns>> \o f.prefix \o f.suffix
        [] f.backend = "warp-hybrid"    -> <<f.warps>>
        [] f.backend = "stage-pipeline" -> <<f.space, f.pipeline>>
        [] OTHER                        -> <<>> >>

\* The row of the resource profile that stands for a form.
ResourceKey(op, precision, f, n) ==
    <<op, precision,
      IF f.exchange = "warp-register" THEN f.exchange ELSE IF f.core # "scalar" THEN f.core ELSE f.unit,
      IF op = "structured-2x2" THEN "broadcast" ELSE "none", n>>

\* load_codegen_points: of a family the product of its lengths and pairs, and its points.
CompiledPoints(families) ==
    UNION {{<<n>> \o pair : n \in f.lengths, pair \in f.pairs} \cup f.points : f \in families}

\* classify_online_point, of two halves <<stages, threads, elements per thread>>.
OnlineStatus(prefix, suffix, h, compiled) ==
    LET halves == {prefix, suffix} IN
    IF \E p \in halves : \/ p[2] > h.threadsPerCta
                         \/ ~CoversUnits(<<p[2], p[3]>>, p[1])
                         \/ p[2] * p[3] * 8 > h.sharedPerCta
    THEN "hardware-infeasible"
    ELSE IF \E p \in halves : p[1] \notin 3..12 \/ (p[1] >= 11 /\ p[2] * p[3] # 2^p[1])
    THEN "requires-new-kernel"
    ELSE IF halves \subseteq compiled THEN "compiled" ELSE "awaiting-codegen"

\* enumerate_online, of the points with a status.
OnlinePoints(lengths, threads, ept, h, compiled, status) ==
    {p \in UNION {{<<<<k, t, e>>, <<n - k, u, f>>>> :
                      k \in 1..(n - 1), t \in threads, e \in ept, u \in threads, f \in ept} : n \in lengths} :
        OnlineStatus(p[1], p[2], h, compiled) = status}

-----------------------------------------------------------------------------
(* How many CTAs of a kernel an SM holds (derive_residency_features).          *)

RoundedUp(value, unit) == Rounded(value, unit) * unit

\* A kernel k = [threads, registers, shared] on the hardware h.
Allocated(h, k) ==
    LET warps == Rounded(k.threads, h.warp)
    IN  [warps |-> warps, registers |-> RoundedUp(k.registers * h.warp, h.registerUnit) * warps,
         shared |-> RoundedUp(k.shared, h.sharedUnit)]

CtaLimits(h, k) ==
    LET a == Allocated(h, k)
    IN  [register |-> h.registers \div a.registers,
         shared |-> IF a.shared = 0 THEN h.ctas ELSE h.shared \div a.shared,
         thread |-> h.threads \div k.threads, warp |-> h.warps \div a.warps, hardware |-> h.ctas]

Launchable(h, k) ==
    /\ k.threads <= h.threadsPerCta
    /\ Allocated(h, k).registers <= h.registersPerCta /\ Allocated(h, k).shared <= h.sharedPerCta

\* No previous kernel is the kernel itself; an occupancy of zero is a cliff of its own.
Residency(h, k, previous) ==
    LET limits == CtaLimits(h, k)
        resident == IF Launchable(h, k) THEN Min({limits[x] : x \in DOMAIN limits}) ELSE 0
        warps == resident * Allocated(h, k).warps
        before == IF previous = <<>> THEN [resident |-> resident, warps |-> warps, register |-> limits.register]
                  ELSE previous[1]
        crosses == before.resident > 1 /\ resident = 1
    IN  [resident |-> resident, warps |-> warps, register |-> limits.register,
         limiting |-> {x \in DOMAIN limits : Launchable(h, k) /\ limits[x] = resident},
         drop |-> Larger(0, before.resident - resident), lost |-> Larger(0, before.warps - warps),
         registerDrop |-> Larger(0, before.register - limits.register),
         crosses |-> crosses, cliff |-> crosses \/ warps = 0 \/ 2 * before.warps >= 3 * warps]

-----------------------------------------------------------------------------
(* The order of screening.                                                  *)

Before(a, b) == \E i \in DOMAIN a : a[i] < b[i] /\ \A j \in 1..(i - 1) : a[j] = b[j]

Sorted(keys) ==
    [n \in 1..Cardinality(keys) |->
        CHOOSE k \in keys : Cardinality({l \in keys : Before(l, k)}) = n - 1]

First(points) == CHOOSE p \in points : \A q \in points : p.id <= q.id

ById(points) == [n \in 1..Cardinality(points) |->
                    CHOOSE p \in points : Cardinality({q \in points : q.id < p.id}) = n - 1]

\* The keys in an order that brings first what has the most values not seen before,
\* then what has the rarest; beyond the limit they are sorted.
Spread(keys, start, limit) ==
    LET Seen(chosen, k, i) == Cardinality({c \in chosen : c[i] = k[i]})
        Rank(chosen, k) ==
            <<Cardinality({i \in DOMAIN k : Seen(chosen, k, i) > 0}),
              Cardinality({<<c, i>> \in chosen \X DOMAIN k : c[i] = k[i]})>> \o k
        Best(chosen) ==
            CHOOSE k \in keys \ chosen :
                \A l \in keys \ (chosen \cup {k}) : Before(Rank(chosen, k), Rank(chosen, l))
        spread == FoldLeft(LAMBDA order, n : Append(order, Best(ToSet(order))), start,
                           [n \in 1..(Min({limit, Cardinality(keys)}) - Len(start)) |-> n])
    IN  spread \o Sorted(keys \ ToSet(spread))

\* _strategy_order: the strategy that names nothing leads when there is one.
Default == <<0, 0, 0>>
StrategyOrder(strategies) ==
    Spread(strategies, IF Default \in strategies THEN <<Default>> ELSE <<>>, Screened)

\* One of every queue, then a second of every queue that has one, and so on.
Layers(queues) ==
    LET Layer(n) == LET long == SelectSeq(queues, LAMBDA q : Len(q) >= n)
                    IN  [i \in DOMAIN long |-> long[i][n]]
    IN  FlattenSeq([n \in 1..Max({0} \cup {Len(queues[i]) : i \in DOMAIN queues}) |-> Layer(n)])

Once(order) ==
    LET new == {i \in DOMAIN order : \A j \in 1..(i - 1) : order[j] # order[i]}
    IN  [n \in 1..Cardinality(new) |->
            order[CHOOSE i \in new : Cardinality({j \in new : j < i}) = n - 1]]

\* The candidates of one lowering: every strategy, every pair of launch units, then
\* every stratum in turn; a factor pipeline has its strata alone.
FamilyOrder(points) ==
    LET Strata(keys) == [n \in DOMAIN keys |-> ById({p \in points : p.axes = keys[n]})]
        axes == {p.axes : p \in points}
        strategies == StrategyOrder({p.strategy : p \in points})
        units == Sorted({p.unit : p \in points})
    IN  IF \E p \in points : p.streamed THEN Layers(Strata(Spread(axes, <<>>, Cardinality(axes))))
        ELSE Once([n \in DOMAIN strategies |-> First({p \in points : p.strategy = strategies[n]})]
                    \o <<First(points)>>
                    \o [n \in DOMAIN units |-> First({p \in points : p.unit = units[n]})]
                    \o Layers(Strata(Sorted(axes))))

\* stratified_candidates: the lowerings take turns; a budget cuts the order.
Stratified(points, budget) ==
    LET families == Sorted({p.family : p \in points})
        order == Layers([n \in DOMAIN families |-> FamilyOrder({p \in points : p.family = families[n]})])
    IN  IF budget = 0 THEN order ELSE SubSeq(order, 1, Min({budget, Len(order)}))

-----------------------------------------------------------------------------
(* The kernels a candidate is expected to launch (predicted_sample).          *)

Width(point) == (IF point.fp64 THEN 8 ELSE 4) * (IF point.operator = "fft" THEN 2 ELSE 1)

RegisterPrefix(m, point) ==
    point.operator = "fft" /\ m.core = "register-tile" /\ m.backend = "online-reorder"

\* The typed launchers ignore the cores, units and elements of a mapping.
Generic(m, point) ==
    /\ point.operator # "ntt"
    /\ point.operator = "fft" => m.core = "scalar"
    /\ m.backend \in {"hierarchical", "online-reorder"}
    /\ m.exchange # "warp-register" /\ ~m.overlap

Chunks(n, size) == [i \in 1..Rounded(n, size) |-> Smaller(size, n - size * (i - 1))]

\* The stages of every kernel; a mapping without stages implies them.
Partition(m, point) ==
    LET n == point.logN
        local == m.local
        implied == IF local = 0 THEN <<n>>
                   ELSE CASE m.backend = "shared-iterative" -> Chunks(n, local)
                          [] m.backend = "online-reorder" -> <<local, n - local>>
                          [] OTHER -> <<n>>
    IN  CASE m.backend = "hierarchical" /\ local # 0 -> <<local>> \o [i \in 1..(n - local) |-> 1]
          [] m.backend = "factor-streamed" /\ m.factors # <<>> -> m.factors
          [] m.backend = "shared-iterative" /\ m.boundaries # <<>> /\ point.operator # "ntt" -> Physical(m)
          [] OTHER -> IF m.stages # <<>> THEN m.stages ELSE implied

\* The stages by which a module to calibrate is told from another, <<>> when they are not
\* known: an unnamed tile is of ten stages, and an NTT has no fused boundaries
\* (stage_acquisition_order).
AcquiredPartition(m, point) ==
    LET stages == IF m.stages # <<>> \/ m.backend # "shared-iterative" THEN m.stages
                  ELSE Chunks(point.logN, IF m.local = 0 THEN Smaller(10, point.logN) ELSE m.local)
    IN  IF m.backend # "shared-iterative" \/ point.operator = "ntt" THEN stages
        ELSE Joined(stages, {i \in DOMAIN stages :
                                i \in DOMAIN m.boundaries => m.boundaries[i] \notin {"fused", "resident-fused"}})

\* The mappings that are projected at all; the others are never estimated.
Projectable(m, point) ==
    LET partition == Partition(m, point) IN
    /\ PowerOfTwo(m.lanes)
    /\ m.lanes # 1 => RegisterPrefix(m, point)
    /\ IF m.backend = "shared-iterative" THEN SharedLegal(m)
       ELSE IF RegisterPrefix(m, point) THEN RegisterLegal(m, point.logN, partition[1])
       ELSE ~Requested(m)
    /\ m.backend = "factor-streamed" => Len(m.policies) \in {0, Len(partition)}
    /\ \A i \in DOMAIN partition : /\ partition[i] <= point.logN
                                  \* a group without a thread divides by zero
                                  /\ m.backend = "factor-streamed" /\ i \notin DOMAIN m.groups =>
                                        m.factorEpt <= 2^partition[i]

\* The block of kernel i: its threads, the transforms side by side and one after the
\* other, and the shared memory they need.
Block(m, point, partition, i) ==
    LET size == 2^partition[i]
        plain == [threads |-> m.tileThreads, columns |-> 1, tiles |-> 1, live |-> 0]
        factored == (size \div m.factorEpt) * m.columns
        columns == IF i = 1 THEN PrefixColumns(m, partition[1]) ELSE SuffixColumns(m, partition[i])
    IN  CASE m.backend = "shared-iterative" -> [plain EXCEPT !.live = 2 * size * Width(point)]
          [] m.backend = "factor-streamed" ->
                [threads |-> factored, columns |-> m.columns, tiles |-> m.tilesPerCta,
                 live |-> size * m.columns * Width(point) * (m.prefetch + 1)]
          [] RegisterPrefix(m, point) ->
                [threads |-> IF i = 1 THEN m.threads ELSE m.suffixThreads, columns |-> columns,
                 tiles |-> 1, live |-> size * columns * Width(point)]
          [] OTHER -> plain

\* A kernel of a typed launcher; the tails of a hierarchy pack 256 butterflies.
GenericKernel(m, point, partition, i) ==
    LET n == point.logN
        half == 2^partition[i] \div 2
        tail == m.backend = "hierarchical" /\ i > 1
        columns == IF m.backend = "online-reorder" /\ i > 1 THEN Larger(1, m.reorder) ELSE 1
        threads == IF tail THEN 256 ELSE m.tileThreads
        butterflies == IF tail THEN Smaller(point.batch * 2^(n - 1), threads) ELSE half * columns
        space == Larger(1, Smaller(threads, butterflies))
    IN  [stages |-> partition[i], threads |-> threads, launches |-> 1,
         live |-> IF tail THEN 0 ELSE 2^partition[i] * Width(point) * columns,
         ctas |-> CASE tail -> Rounded(point.batch * 2^(n - 1), threads)
                    [] m.backend = "online-reorder" /\ i > 1 ->
                          point.batch * Rounded(2^partition[1], columns)
                    [] OTHER -> point.batch * 2^(n - partition[i]),
         space |-> space, time |-> Larger(1, Rounded(butterflies, space))]

LaunchBatch(m, point) == IF m.overlap THEN Smaller(point.batch, m.batchTiles) ELSE point.batch

\* A kernel of a mapped launcher, as an explicit group overrides its threads.
MappedKernel(m, point, partition, i) ==
    LET block == Block(m, point, partition, i)
        threads == IF i \in DOMAIN m.groups THEN m.groups[i] ELSE block.threads
        butterflies == (2^partition[i] \div 2) * block.columns
        grid == (LaunchBatch(m, point) * 2^(point.logN - partition[i])) \div block.columns
        launches == IF m.backend = "factor-streamed" /\ i < Len(partition) THEN m.slices ELSE 1
    IN  [stages |-> partition[i], threads |-> threads, launches |-> launches, live |-> block.live,
         ctas |-> Rounded(grid \div launches, block.tiles),
         space |-> Smaller(threads, butterflies),
         time |-> Larger(1, Rounded(butterflies, threads)) * block.tiles]

Kernels(m, point) ==
    LET partition == Partition(m, point)
    IN  [i \in DOMAIN partition |->
            IF Generic(m, point) THEN GenericKernel(m, point, partition, i)
            ELSE MappedKernel(m, point, partition, i)]

-----------------------------------------------------------------------------
(* The mappings that winners of another context propose (calibration_seeds).  A      *)
(* seed is [place, digest, kind, semantic, mapping], digest the place of its mapping  *)
(* in the order of digests, semantic [operator, precision, logN, other]; a mapping      *)
(* [backend, core, columns, codelet, layout, policies, factors], 0 and <<>> unnamed.   *)

\* The public plan derives the columns of the cores that are imported.
CanonicalMapping(m) ==
    IF m.backend = "online-reorder" /\ m.core \in {"register-tile", "cufftdx-block"} /\ m.columns # 0
    THEN [m EXCEPT !.columns = 1] ELSE m

\* _validate_strategy_axes
StrategyLegal(m, precision) ==
    /\ m.codelet \in {"native", "cufftdx-thread"} /\ m.layout \in {"linear", "xor"}
    /\ m.codelet # "native" \/ m.layout # "linear" => m.backend = "online-reorder" /\ m.core = "register-tile"
    /\ ~(precision = "fp64" /\ m.codelet = "cufftdx-thread")
    /\ m.policies # <<>> => /\ m.backend = "factor-streamed"
                            /\ m.factors # <<>> => Len(m.policies) = Len(m.factors)
    /\ ToSet(m.policies) \subseteq {"dynamic", "static-unrolled"}

\* What a file may propose: a public mapping of an internal backend, and no measurement
\* (_seed).
Seedable(semantic, m) ==
    /\ m.version = 1 /\ m.backend \notin {"none", "cufft", "vkfft"} /\ ~m.timed
    /\ {"operator", "precision", "logN"} \subseteq DOMAIN semantic
    /\ StrategyLegal(CanonicalMapping(m), semantic.precision)

\* Explicit seeds before automatic ones, exact semantics before transferred ones.
SeedRank(s, target) ==
    <<IF s.kind = "explicit" THEN 0 ELSE 1, IF s.semantic = target THEN 0 ELSE 1, s.digest, s.place>>

\* The candidates of a workload, each with all the seeds that propose it.
SeedCandidates(seeds, target) ==
    LET usable == {s \in seeds : \A field \in {"operator", "precision", "logN"} :
                                     s.semantic[field] = target[field]}
        order == SetToSortSeq(usable, LAMBDA a, b : Before(SeedRank(a, target), SeedRank(b, target)))
        points == FoldLeft(LAMBDA known, s : IF Contains(known, CanonicalMapping(s.mapping)) THEN known
                                             ELSE Append(known, CanonicalMapping(s.mapping)), <<>>, order)
    IN  [i \in DOMAIN points |->
            [mapping |-> points[i],
             sources |-> SelectSeq(order, LAMBDA s : CanonicalMapping(s.mapping) = points[i])]]

\* The benchmark ran the mapping that was proposed, or named more of its axes
\* (validate_mapping).
Preserved(requested, resolved) ==
    \A axis \in DOMAIN requested :
        \/ axis \in DOMAIN resolved /\ requested[axis] = resolved[axis]
        \/ /\ axis = "policies" /\ axis \in DOMAIN resolved
           /\ requested[axis] = <<>> /\ ToSet(resolved[axis]) \subseteq {"dynamic"}
=============================================================================
