------------------------------ MODULE MCModels ------------------------------
(***************************************************************************)
(* The pure algorithms of the scripts, each evaluated on every small       *)
(* input: a state is one input, and an invariant speaks of the inputs of   *)
(* its kind.                                                               *)
(***************************************************************************)
EXTENDS Integers, SequencesExt

CONSTANTS MaxBits,      \* of a factored length
          MaxFactors, MaxBatch,
          MaxRadix,     \* of a cooperative transform
          MaxEdits,     \* of a walk from neighbour to neighbour
          MaxStages,    \* of a partition whose edits are closed
          MaxCalls      \* of a calibration and what happens between

VARIABLE case

Oracles == INSTANCE VerificationOracles WITH Modulus <- 193, Root <- 11, Order <- 64
Search == INSTANCE MappingSearch
Space == INSTANCE CandidateSpace WITH Screened <- 3
Costs == INSTANCE PlanCosts WITH Unit <- 4, MaxLaunches <- 9
Services == INSTANCE ServiceIdentity
Curves == INSTANCE ProbeCurves
Factor(Factors, Columns, Slices, Batch) == INSTANCE FactorGeometry

\* The pipelines of the runtime, for what they enqueue around a launch.
Ring(n, tiles) == INSTANCE BatchPipeline WITH
    plan <- [groups |-> n, batch |-> tiles, tile |-> 1, mayFail |-> FALSE],
    Plans <- {}, Caller <- {}, Invocations <- 1,
    Stream <- {}, Event <- {}, queue <- <<>>, completed <- {}, host <- {}, invocation <- 1, failed <- {},
    running <- {}, slots <- {}, input <- {}, output <- {}, executed <- {},
    recorded <- [e \in ({"ready", "consumed"} \X (0..n) \X {0, 1}) |-> 0]

Digits(n, slices) == INSTANCE FactorPipeline WITH
    plan <- [groups |-> n, slices |-> slices], Plans <- {}, Caller <- {}, Invocations <- 1,
    Stream <- {}, Event <- {}, queue <- <<>>, completed <- {}, host <- {}, invocation <- 1, failed <- {},
    running <- {}, scratch <- {}, input <- {}, output <- {},
    recorded <- [e \in ({"ready"} \X (0..n) \X (0..slices)) |-> 0]

-----------------------------------------------------------------------------

Factorisations == {logs \in UNION {[1..k -> 1..MaxBits] : k \in 1..MaxFactors} :
                      Oracles!DoneBits(logs)[Len(logs)] <= MaxBits}

Edges == [kind : {"edges"}, logs : Factorisations, batch : 1..MaxBatch]

Packetings == {c \in [kind : {"packets"}, logs : Factorisations, batch : 1..MaxBatch,
                      slices : {1, 2, 4}, columns : {1, 2, 4}] :
                 Oracles!ValidPackets(c.logs, c.slices, c.columns)}

Radices == {2^b : b \in 0..6}

Transforms == {c \in [kind : {"transform"}, inverse : BOOLEAN, r : {n \in Radices : n <= MaxRadix},
                       g : Radices] :
                  Oracles!ValidShape(c.r, c.g, 1)}

\* The shuffles cross rows for a number of columns that is not a power of two,
\* which _validate_shape accepts.
Tiles == {c \in [kind : {"tile"}, r : 1..(4 * MaxRadix), g : Radices, columns : {1, 2, 4},
                 bytes : {4, 16}, layout : {"linear", "xor"}] :
             Oracles!ValidShape(c.r, c.g, c.columns)}

\* The mappings a walk starts from: one of every lowering with edits of its own.
Plain == [backend |-> "factor-streamed", core |-> "cufftdx-block", stages |-> <<2, 4>>,
          boundaries |-> <<"global">>, factors |-> <<2, 3, 1>>, policies |-> <<>>, factorEpt |-> 4,
          parts |-> <<>>, chunks |-> <<>>, lanes |-> 1, threads |-> 64, ept |-> 4,
          suffixThreads |-> 64, suffixEpt |-> 8, local |-> 4, tileThreads |-> 128, prefetch |-> 1,
          slices |-> 2, batchTiles |-> 1, named |-> {"factorEpt", "slices"}, codelet |-> "native",
          layout |-> "linear", twiddle |-> "table", overlap |-> FALSE, factorOverlap |-> FALSE,
          columns |-> 2, tilesPerCta |-> 3, reorder |-> 3, exchange |-> "shared", groups |-> <<>>]

Starts == {
    Plain,
    [Plain EXCEPT !.core = "register-tile", !.factors = <<2, 2, 2>>, !.factorEpt = 2],
    [Plain EXCEPT !.stages = <<3, 1, 2>>, !.boundaries = <<"fused", "global">>,
                  !.factors = <<3, 1, 2>>, !.policies = <<"dynamic", "dynamic", "static-unrolled">>],
    [Plain EXCEPT !.backend = "shared-iterative", !.core = "scalar", !.factors = <<>>,
                  !.stages = <<2, 1, 3>>, !.boundaries = <<"fused", "global">>,
                  !.parts = <<<<2, 1>>, <<>>>>, !.chunks = <<0, 0>>, !.named = {"tileThreads"}],
    [Plain EXCEPT !.backend = "online-reorder", !.core = "register-tile", !.factors = <<>>,
                  !.named = {"threads", "ept", "suffixThreads", "suffixEpt", "local"},
                  !.stages = <<4, 2>>]}

\* The register FFT needs a longer transform.
PointOf(m) == [operator |-> "fft", logN |-> Search!Total(m.stages), batch |-> 2, fp64 |-> FALSE]

Walks == [kind : {"mapping"}, edits : {0},
          mapping : {IF m.backend = "online-reorder" THEN [m EXCEPT !.stages = <<4, 6>>] ELSE m : m \in Starts}]

Compositions ==
    LET of[n \in 0..10] == IF n = 0 THEN {<<>>}
                           ELSE UNION {{<<k>> \o c : c \in of[n - k]} : k \in 1..n}
    IN  of

Closures == [kind : {"stages"}, n : 1..MaxStages]
            \cup [kind : {"factors"}, of : UNION {Compositions[n] : n \in 1..MaxStages}]
            \cup [kind : {"units"}, n : 1..(MaxStages + 3)]
            \cup [kind : {"axis"}, n : 1..MaxStages]

Ids == 1..5
Family == [i \in Ids |-> i % 3]
Rounds == [kind : {"round"}, population : {<<>>} \cup {<<a>> : a \in Ids} \cup {<<a, b>> : a \in Ids, b \in Ids},
           inventory : {s \in SUBSET Ids : Cardinality(s) <= 3}, measured : {{}, {2, 5}, {3, 4, 5}},
           best : {1, 4}, limit : {1, 2, 4}]

-----------------------------------------------------------------------------
(* Candidates to screen and to project.                                       *)

Screened == {
    [id |-> 1, family |-> <<1>>, streamed |-> FALSE, axes |-> <<1, 2>>, strategy |-> <<1, 1, 0>>, unit |-> <<1>>],
    [id |-> 2, family |-> <<1>>, streamed |-> FALSE, axes |-> <<1, 2>>, strategy |-> <<1, 1, 0>>, unit |-> <<2>>],
    [id |-> 3, family |-> <<1>>, streamed |-> FALSE, axes |-> <<1, 1>>, strategy |-> <<1, 0, 0>>, unit |-> <<1>>],
    [id |-> 4, family |-> <<1>>, streamed |-> FALSE, axes |-> <<2, 3>>, strategy |-> <<0, 1, 1>>, unit |-> <<2>>],
    [id |-> 5, family |-> <<1>>, streamed |-> FALSE, axes |-> <<2, 0>>, strategy |-> <<0, 0, 0>>, unit |-> <<3>>],
    [id |-> 6, family |-> <<1>>, streamed |-> FALSE, axes |-> <<2, 1>>, strategy |-> <<1, 0, 0>>, unit |-> <<3>>],
    [id |-> 7, family |-> <<2>>, streamed |-> TRUE, axes |-> <<2, 0, 1>>, strategy |-> <<0, 0, 0>>, unit |-> <<0>>],
    [id |-> 8, family |-> <<2>>, streamed |-> TRUE, axes |-> <<2, 0, 2>>, strategy |-> <<0, 0, 0>>, unit |-> <<0>>],
    [id |-> 9, family |-> <<2>>, streamed |-> TRUE, axes |-> <<2, 1, 1>>, strategy |-> <<0, 0, 0>>, unit |-> <<0>>],
    [id |-> 10, family |-> <<2>>, streamed |-> TRUE, axes |-> <<3, 1, 2>>, strategy |-> <<0, 0, 0>>, unit |-> <<0>>],
    [id |-> 11, family |-> <<2>>, streamed |-> TRUE, axes |-> <<2, 1, 1>>, strategy |-> <<0, 0, 0>>, unit |-> <<0>>]}

Smallest(a, b) == IF a < b THEN a ELSE b

Screenings == [kind : {"screening"}, points : SUBSET Screened]

Factored == {[Plain EXCEPT !.stages = f, !.factors = f, !.boundaries = <<>>, !.columns = c, !.slices = s,
                           !.tilesPerCta = t, !.factorEpt = 2] :
                 f \in {<<2, 3>>, <<3, 3, 2>>, <<1, 3, 3>>}, c \in {1, 2}, s \in {1, 2, 4}, t \in 1..3}

Typed == {[Plain EXCEPT !.backend = b, !.core = "scalar", !.factors = <<>>, !.stages = s, !.boundaries = <<>>,
                        !.local = l, !.reorder = r, !.tileThreads = t] :
              b \in {"hierarchical", "online-reorder", "shared-iterative"}, s \in {<<>>, <<4, 3>>},
              l \in {3, 4}, r \in {0, 3, 4}, t \in {2, 128}}

Projections == [kind : {"projection"}, mapping : Factored \cup Typed, batch : 1..3,
                operator : {"fft", "fwht"}]

-----------------------------------------------------------------------------
(* Schedules, plans and the rows a cost model is judged by.                   *)

Kinds == {[overhead |-> 1, body |-> 4, sm |-> 4, hbm |-> 1], [overhead |-> 1, body |-> 2, sm |-> 2, hbm |-> 4],
          [overhead |-> 2, body |-> 1, sm |-> 1, hbm |-> 1], [overhead |-> 0, body |-> 3, sm |-> 5, hbm |-> 2]}

Schedules == [kind : {"schedule"}, stages : UNION {[1..n -> Kinds] : n \in 2..3}, tiles : 1..4,
              streamed : BOOLEAN, overlap : BOOLEAN, last : {<<1, 1>>, <<1, 2>>}]

KernelOf(service, load) ==
    [service |-> service, load |-> load, sm |-> 2, hbm |-> 3, launches |-> 2,
     fallback |-> [overhead |-> 1, body |-> 3]]

Profiled == [prefix |-> [l \in {1, 2} |-> 2 * l], suffix |-> [l \in {2, 3} |-> 3 * l]]

Plans == {[kind |-> "plan", backend |-> b, overlap |-> o, batch |-> n, tile |-> t, floor |-> f,
           kernels |-> <<KernelOf("prefix", k), KernelOf("suffix", 2)>>,
           projection |-> [status |-> p, tile |-> u, tiles |-> v, tailBatch |-> w,
                           full |-> <<KernelOf("prefix", u), KernelOf("suffix", k)>>,
                           tail |-> IF w = 0 THEN <<>> ELSE <<KernelOf("prefix", w), KernelOf("suffix", 3)>>]] :
             b \in {"factor-streamed", "online-reorder"}, o \in BOOLEAN, n \in 1..3, t \in 1..3,
             f \in {0, 90}, k \in 1..3, p \in {"resolved", "unavailable"}, u \in 1..3, v \in 1..3, w \in 0..1}

\* What a workload of a campaign may have measured, and what was predicted for it.
Row(design, ms, guess) ==
    [design |-> design, ms |-> ms, guess |-> guess, alone |-> guess, overlap |-> FALSE, primitive |-> "known",
     load |-> 4, complete |-> TRUE, mapping |-> design, name |-> design, axes |-> 0, status |-> "measured",
     correct |-> TRUE, samples |-> 1, external |-> FALSE]

Outcomes == <<
    {Row("a", 100, 100), Row("b", 200, 190)},
    {Row("a", 100, 105), Row("b", 103, 100)},
    {Row("a", 100, 200), Row("b", 150, 90)},
    {Row("a", 100, 100)},
    {Row("a", 100, 100), [Row("b", 200, 200) EXCEPT !.primitive = "rare"]},
    {Row("a", 100, 100), [Row("b", 80, 85) EXCEPT !.overlap = TRUE]},
    {Row("a", 100, 100), [Row("b", 80, 300) EXCEPT !.overlap = TRUE]},
    {Row("a", 100, 100), Row("a", 104, 99), Row("b", 200, 200)},
    {Row("a", 100, 100), [Row("b", 90, 95) EXCEPT !.external = TRUE]},
    {[Row("a", 100, 100) EXCEPT !.complete = FALSE], [Row("a", 200, 180) EXCEPT !.complete = FALSE, !.axes = 1]}>>

\* The errors at the loads the curves were not made of: the largest that pass, a median
\* and a percentile above them, a load no curve covers, none at all.
Probed == {<<0, 100, 225>>, <<0, 101, 200>>, <<0, 100, 226>>, <<0, -1>>, <<>>}

Reports == [kind : {"report"}, services : {{}, {"known"}, {"known", "rare"}}, probes : Probed,
            outcomes : {o \in [1..4 -> 0..Len(Outcomes)] : \A w \in 1..3 : o[w] <= o[w + 1]}]

RowsOf(outcomes) ==
    UNION {{[workload |-> w] @@ row : row \in IF outcomes[w] = 0 THEN {} ELSE Outcomes[outcomes[w]]} : w \in 1..4}

-----------------------------------------------------------------------------
(* Kernels, views and plans whose measured service may stand for another's.   *)

Named(backend, codelet, layout, lanes, policies) ==
    [backend |-> backend, core |-> "register-tile", codelet |-> codelet, layout |-> layout,
     lanes |-> lanes, policies |-> policies]

Unnamed == [Named("unknown", "unknown", "unknown", 0, <<>>) EXCEPT !.core = "unknown"]

Mappings == {Named("online-reorder", c, l, n, <<>>) :
                c \in {"unknown", "native", "generated"}, l \in {"unknown", "linear", "xor"}, n \in {0, 2}}
            \cup {Named("factor-streamed", "unknown", "unknown", 0, q) :
                    q \in {<<>>} \cup [1..2 -> {"dynamic", "static-unrolled"}]}

Samples == [workload : {"fft"}, canonical : BOOLEAN, device : {"unknown", "a", "b"},
            top : {Unnamed, [Unnamed EXCEPT !.codelet = "generated"]},
            mapping : Mappings]

Resource(registers, known) == [registers |-> registers, known |-> known, alias |-> "unknown", live |-> "1k"]

Kernel(index, load, resource) ==
    [index |-> index, load |-> load, codelet |-> "unknown", policy |-> "unknown", resources |-> resource,
     kernels |-> <<>>]

Served == [kind : {"kernel"}, sample : Samples, index : 0..1, load : {0, 1, 3},
           resource : {Resource("32", "yes"), Resource("64", "yes"), Resource("32", "no")},
           measured : {{}, {"32"}, {"32", "64"}}]

\* What describe answers for a pipeline and its serial views; one answer is flawed.
Document(b, backend, groups) ==
    [status |-> "resolved", batch |-> b, overlap |-> FALSE, factorOverlap |-> FALSE, mapping |-> "m",
     backend |-> backend, core |-> "register-tile", runtime |-> "r",
     groups |-> [i \in 1..groups |-> [shape |-> <<"group", i>>, resources |-> Resource("32", "yes")]]]

Flawed(d, flaw) ==
    CASE flaw = "none"      -> d
      [] flaw = "failed"    -> [d EXCEPT !.status = "unavailable"]
      [] flaw = "batch"     -> [d EXCEPT !.batch = @ + 1]
      [] flaw = "overlap"   -> [d EXCEPT !.overlap = ~@]
      [] flaw = "mapping"   -> [d EXCEPT !.mapping = "other"]
      [] flaw = "runtime"   -> [d EXCEPT !.runtime = "other"]
      [] flaw = "shape"     -> [d EXCEPT !.groups[1].shape = <<"other", 1>>]
      [] flaw = "registers" -> [d EXCEPT !.groups[2].resources = Resource("64", "yes")]
      [] flaw = "unknown"   -> [d EXCEPT !.groups[2].resources = Resource("32", "no")]

Views == [kind : {"batch"}, point : [batch : 0..4, tile : 0..3, overlap : BOOLEAN, factorOverlap : BOOLEAN],
          backend : {"online-reorder", "shared-iterative", "factor-streamed"}, groups : 2..3,
          flaw : {"none", "failed", "batch", "overlap", "mapping", "runtime", "shape", "registers", "unknown"},
          at : {"pipeline", "tile", "tail", "both"}]

\* A plan of a register FFT and what describe says of its kernels.
Described == {c \in [kind : {"reuse"}, core : {"register-tile", "cufftdx-block"}, lanes : {1, 2},
                     stages : {<<4, 6>>, <<6, 4>>, <<5, 5>>}, threads : {32, 64, 128}, ept : {2, 4, 8},
                     suffixThreads : {64, 256}, suffixEpt : {4, 8},
                     work : {4, 8, 16, 64, 128}, batch : 1..2, chunks : {<<>>, <<0, 4>>}, chunk : {0, 4}] :
                 c.chunks = <<>> => c.chunk = 0}

Points == {1, 2, 4, 8, 32}
Order(tiles) == SelectSeq(<<1, 2, 3, 4, 6, 8, 12, 32>>, LAMBDA t : t \in tiles)
Curved == [kind : {"curve"}, trained : SUBSET Points, held : SUBSET {3, 12}, bend : {-1, 2}]
Dispatches == [kind : {"dispatch"}, ms : [{32, 64, 256} \X {1, 2, 4} -> {2, 3}], threads : {32, 48, 100, 300}]

\* A calibration that runs again after a rebuild or with a newer model.
Probes == [kind : {"probe"}, tool : {"pipeline", "launch"}, disk : {Curves!None}, identity : {<<"first", "gpu">>},
           revision : {1}, result : {Curves!None}, asked : {<<<<"none", "none">>, 0>>}, kept : {FALSE}, steps : {0}]

-----------------------------------------------------------------------------
(* Architecture spaces, mappings measured at several batches, kernels to cost.    *)

Base ==
    [operators |-> [fft |-> [cores |-> <<"scalar", "tensor">>, precision |-> <<"fp32", "fp64">>,
                             coefficient |-> <<"table", "generated">>],
                    fwht |-> [cores |-> <<"scalar">>, precision |-> <<"fp32">>, coefficient |-> <<"none">>]],
     semantic |-> {"fft", "fwht"}, levels |-> {"warp", "cta"}, hardware |-> {"warp", "cta"},
     words |-> {32, 64}, accumulators |-> {32, 64}, groups |-> {"radix2", "tile"},
     arithmetic |-> {"scalar", "tensor"}, coefficients |-> {"table", "generated", "none"},
     exchanges |-> {"shuffle", "shared"}, axes |-> [threads |-> <<"128", "256">>, order |-> <<"natural">>],
     families |-> {"online"}, forms |-> {"online", "tile"}, runtime |-> {"online"},
     bindings |->
        [fft |-> [scalar |-> [group |-> "radix2", arithmetic |-> "scalar", precision |-> <<>>,
                              coefficient |-> <<"table", "generated">>, exchange |-> <<"shuffle", "shared">>],
                  tensor |-> [group |-> "tile", arithmetic |-> "tensor", precision |-> <<"fp32">>,
                              coefficient |-> <<"generated">>, exchange |-> <<"shared">>]],
         fwht |-> [scalar |-> [group |-> "radix2", arithmetic |-> "scalar", precision |-> <<>>,
                               coefficient |-> <<"none">>, exchange |-> <<"shuffle">>]]],
     widths |-> [fft |-> [fp32 |-> [word |-> <<32>>, accumulator |-> <<32, 64>>],
                          fp64 |-> [word |-> <<64>>, accumulator |-> <<64>>]],
                 fwht |-> [fp32 |-> [word |-> <<32>>, accumulator |-> <<32>>]]]]

\* What may be wrong with a document, and one that is merely different.
Changed(change) ==
    CASE change = "none"        -> Base
      [] change = "wider"       -> [Base EXCEPT !.widths.fft.fp32.word = <<64, 32>>]
      [] change = "word"        -> [Base EXCEPT !.words = {32}]
      [] change = "accumulator" -> [Base EXCEPT !.accumulators = {32}]
      [] change = "precision"   -> [Base EXCEPT !.bindings.fft.tensor.precision = <<"fp16">>]
      [] change = "coefficient" -> [Base EXCEPT !.bindings.fwht.scalar.coefficient = <<"table">>]
      [] change = "exchange"    -> [Base EXCEPT !.exchanges = {"shuffle"}]
      [] change = "group"       -> [Base EXCEPT !.groups = {"radix2"}]
      [] change = "family"      -> [Base EXCEPT !.families = {"online", "warp"}]
      [] change = "level"       -> [Base EXCEPT !.hardware = {"warp"}]

Asked == [core : {{}, {"scalar"}, {"tensor"}}, precision : {{}, {"fp32"}, {"fp64"}}, group : {{}, {"tile"}},
          arithmetic : {{}}, coefficient : {{}, {"table"}, {"shoup"}}, exchange : {{}, {"shared"}},
          word : {{}, {64}}, accumulator : {{}, {64}},
          axes : {<<>>, [threads |-> {"128", "256"}]}]

Unasked == [name \in {"core", "precision", "group", "arithmetic", "coefficient", "exchange", "word",
                      "accumulator", "axes"} |-> IF name = "axes" THEN <<>> ELSE {}]

Designs == [kind : {"choices"}, change : {"none", "wider"}, operator : {"fft", "fwht"}, asked : Asked]
           \cup [kind : {"choices"}, operator : {"fft"}, asked : {Unasked},
                 change : {"word", "accumulator", "precision", "coefficient", "exchange", "group", "family", "level"}]

Unfoldings == [kind : {"unfolding"}, logN : 1..4, us : 1..5, ud : {1, 2, 3, 8}, ub : 1..3, batch : 1..3,
               stage : {"shared", "global"}, data : {"register", "global"}]

Listings == [kind : {"listing"}, logN : 1..5, rank : 1..3, cells : {0, 6, 8}, us : {{}, {1, 3}}, limit : {5, 60}]

\* The times of two mappings at three batches; 0 when the result was wrong.
Measurements == [kind : {"selection"}, ms : [1..3 -> {0, 30, 33}] \X [1..3 -> {0, 32, 50}],
                 threads : {128, 1024}]

\* The candidates that were confirmed of a cell; two may be of one mapping.
Confirmations == [kind : {"ranking"}, ms : [1..3 -> 1..3], guess : [1..3 -> 0..2], same : SUBSET {2, 3},
                  odd : {"none", "vendor", "wrong", "late"}]

\* What files and the registry propose, from contexts like the target's and others.
Native == [version |-> 1, timed |-> FALSE, backend |-> "online-reorder", core |-> "register-tile", columns |-> 1,
           codelet |-> "native", layout |-> "linear", policies |-> <<>>, factors |-> <<>>]

Streamed == [Native EXCEPT !.backend = "factor-streamed", !.core = "scalar", !.columns = 0, !.factors = <<2, 3>>]

Target == [operator |-> "fft", precision |-> "fp32", logN |-> 5, other |-> "in-place"]

Away == [Target EXCEPT !.other = "out-of-place"]

Pool == <<[kind |-> "explicit", semantic |-> Away, mapping |-> [Native EXCEPT !.columns = 8]],
          [kind |-> "registry-winner", semantic |-> Target, mapping |-> Native],
          [kind |-> "explicit", semantic |-> [Target EXCEPT !.precision = "fp64"], mapping |-> Native],
          [kind |-> "registry-winner", semantic |-> Away, mapping |-> [Native EXCEPT !.core = "scalar", !.columns = 8]],
          [kind |-> "explicit", semantic |-> Away, mapping |-> [Native EXCEPT !.core = "scalar", !.columns = 1]],
          [kind |-> "explicit", semantic |-> Target, mapping |-> Streamed],
          [kind |-> "registry-winner", semantic |-> Target, mapping |-> [Streamed EXCEPT !.policies = <<"dynamic", "dynamic">>]],
          [kind |-> "explicit", semantic |-> Target, mapping |-> [Streamed EXCEPT !.policies = <<"dynamic">>]],
          [kind |-> "explicit", semantic |-> Target, mapping |-> [Native EXCEPT !.core = "scalar", !.layout = "xor"]],
          [kind |-> "registry-winner", semantic |-> [operator |-> "fft", logN |-> 5], mapping |-> Native],
          [kind |-> "explicit", semantic |-> [Target EXCEPT !.precision = "fp64"],
           mapping |-> [Native EXCEPT !.codelet = "cufftdx-thread"]]>>

Digests == SetToSeq({Space!CanonicalMapping(Pool[i].mapping) : i \in {1, 4, 5, 6}}) \o
           SetToSeq({Space!CanonicalMapping(Pool[i].mapping) : i \in {7, 8, 9, 11}})

Proposals == [kind : {"seeds"}, from : SUBSET (DOMAIN Pool), fp64 : BOOLEAN]

Acquired == [kind : {"acquired"}, stages : {<<>>} \cup Compositions[4] \cup Compositions[5], logN : {4, 5, 10, 13},
             local : {0, 3, 10}, boundaries : UNION {[1..n -> {"fused", "global"}] : n \in 0..4},
             operator : {"fft", "fwht", "ntt"}]

Terms == [kind : {"term"}, launches : {1, 2, 4}, stages : {2, 4}, units : {<<>>, <<4>>, <<2, 2>>, <<1, 1, 2>>},
          live : {0, 2, 16}, registers : {0, 2, 8}, chunk : {0, 1, 2, 3, 4, 8}, ept : {0, 4},
          grid : {1, 6, 40}, native : BOOLEAN]

\* The lengths a sweep and the design space enumerate, with the options of both.
Sweeps == [kind : {"forms"}, n : 3..16, local : {{5, 6, 8, 10}, {3, 7, 9}},
           of : {<<"fft", "fp32">>, <<"fft", "fp64">>, <<"fft", "fp16-fp32">>, <<"fwht", "fp32">>,
           <<"structured-2x2", "fp32">>, <<"subset-zeta", "uint32">>}]

SweepOptions(local) ==
    [tile |-> {32, 64, 256}, local |-> local, columns |-> {0, 1, 16}, resident |-> {256, 512},
     prefixThreads |-> {128, 512, 1024}, suffixThreads |-> {256, 1024}, prefixEpt |-> {4, 16}, suffixEpt |-> {4, 8},
     backends |-> {"temporal-tile", "hierarchical", "online-reorder", "warp-hybrid", "stage-pipeline", "cufft"},
     cores |-> {"scalar", "thread-dft8", "cta-dft8", "wmma-dft8", "cufftdx-block", "cufftdx-direct",
                "cufftdx-resident", "turbofft-generated"},
     exchanges |-> {"shared", "warp-register"}, layouts |-> {"linear", "xor-swizzle"},
     twiddles |-> {"table", "recurrence"}, units |-> {"radix2", "radix4", "radix8"},
     multiplies |-> {"four-mul", "gauss3"}]

CodegenFamilies == {[lengths |-> 3..10, pairs |-> {<<128, 4>>, <<256, 4>>, <<1024, 4>>, <<256, 8>>, <<1024, 8>>, <<128, 16>>},
                     points |-> {}],
                    [lengths |-> {}, pairs |-> {}, points |-> {<<11, 256, 8>>, <<12, 1024, 4>>}]}

Volta == [warp |-> 32, threads |-> 2048, warps |-> 64, ctas |-> 32, threadsPerCta |-> 1024, registers |-> 65536,
          registersPerCta |-> 65536, shared |-> 98304, sharedPerCta |-> 98304, registerUnit |-> 256, sharedUnit |-> 256]

KernelSizes == [threads : {1, 32, 48, 96, 256, 1024, 1056}, registers : {1, 32, 33, 128, 254, 300},
                shared : {0, 1, 4096, 33000, 98304, 98305}]

Residents == [kind : {"residency"}, kernel : KernelSizes, before : {[threads |-> 256, registers |-> 64, shared |-> 16384],
                 [threads |-> 32, registers |-> 35, shared |-> 1024], [threads |-> 256, registers |-> 128, shared |-> 32768]}]

\* The first step chooses a part of the inputs, for the workers to share.
Parts == {"edges", "packets", "transforms", "tiles", "walks", "closures", "rounds", "screenings", "projections",
          "schedules", "plans", "reports", "kernels", "views", "reuses", "curves", "dispatches", "probes",
          "designs", "unfoldings", "listings", "measurements", "terms", "sweeps", "residents", "confirmations",
          "proposals", "acquired"}

Init == case \in [kind : {"start"}, part : Parts]

Choose == /\ case.kind = "start"
          /\ case' \in CASE case.part = "edges"    -> Edges
                         [] case.part = "packets"  -> Packetings
                         [] case.part = "transforms" -> Transforms
                         [] case.part = "tiles"    -> Tiles
                         [] case.part = "walks"    -> Walks
                         [] case.part = "closures" -> Closures
                         [] case.part = "rounds"   -> Rounds
                         [] case.part = "screenings"  -> Screenings
                         [] case.part = "projections" -> Projections
                         [] case.part = "schedules"   -> Schedules
                         [] case.part = "plans"       -> Plans
                         [] case.part = "reports"     -> Reports
                         [] case.part = "kernels"     -> Served
                         [] case.part = "views"       -> Views
                         [] case.part = "reuses"      -> Described
                         [] case.part = "curves"      -> Curved
                         [] case.part = "dispatches"  -> Dispatches
                         [] case.part = "probes"      -> Probes
                         [] case.part = "designs"      -> Designs
                         [] case.part = "unfoldings"   -> Unfoldings
                         [] case.part = "listings"     -> Listings
                         [] case.part = "measurements" -> Measurements
                         [] case.part = "terms"        -> Terms
                         [] case.part = "sweeps"       -> Sweeps
                         [] case.part = "residents"    -> Residents
                         [] case.part = "confirmations" -> Confirmations
                         [] case.part = "proposals"    -> Proposals
                         [] case.part = "acquired"     -> {c \in Acquired :
                               IF c.stages = <<>> THEN c.boundaries = <<>>
                               ELSE c.logN = Search!Total(c.stages) /\ Len(c.boundaries) \in {0, Len(c.stages) - 1}}

Edit == /\ case.kind = "mapping" /\ case.edits < MaxEdits
        /\ \E near \in ToSet(Search!Neighbors(case.mapping, PointOf(case.mapping))) :
              case' = [case EXCEPT !.mapping = near, !.edits = @ + 1]

Again == case.kind = "probe" /\ case.steps < MaxCalls

\* The binary is built anew, or the program runs on another device.
Rebuild ==
    /\ Again
    /\ \E build \in {"first", "second"}, device \in {"gpu", "other"} :
          case' = [case EXCEPT !.identity = <<build, device>>, !.steps = @ + 1, !.result = Curves!None]

\* The probe prints rows of the device it ran on, of another, or nothing.
Calibrate ==
    /\ Again
    /\ \E device \in {"gpu", "other", "none"}, accepted \in {{1}, {2}, {1, 2}}, revision \in {1, 2}, writable \in BOOLEAN :
          LET raw == IF device = "none" THEN Curves!None
                     ELSE [id |-> case.identity, device |-> device, accepted |-> accepted]
              after == IF case.tool = "pipeline"
                       THEN Curves!CalibratePipeline(case.disk, case.identity, revision, raw, writable)
                       ELSE Curves!CalibrateLaunch(case.disk, case.identity, revision, raw, writable)
          IN  case' = [case EXCEPT !.disk = after.disk, !.result = after.result, !.revision = revision,
                                   !.asked = <<case.identity, revision>>, !.steps = @ + 1,
                                   !.kept = @ \/ after.disk # Curves!None]

Next == Choose \/ Edit \/ Rebuild \/ Calibrate

Spec == Init /\ [][Next]_case

-----------------------------------------------------------------------------

\* The dependencies between two factors, found by matching the addresses written
\* with those read, are those of the closed form, stay inside a batch, and cover
\* every address once (factor_dependency_oracle.py, verify).
EdgesHold ==
    case.kind = "edges" => /\ Oracles!AddressesVerify(case.logs, case.batch)
                           /\ Oracles!ClosedFormVerifies(case.logs, case.batch)

\* A packet of a middle factor depends on the same packet of the factor before it
\* alone, and is what the library launches as that slice (factor_dependency_oracle.py
\* against launch_factor_streamed_fft).
PacketsHold ==
    case.kind = "packets" =>
        /\ Oracles!PacketsVerify(case.logs, case.batch, case.slices)
        /\ \A i \in 1..(Len(case.logs) - 1), slice \in 0..(case.slices - 1) :
              case.slices > 1 =>
                  Oracles!Launched(case.logs, case.columns, case.slices, case.batch, i, slice)
                     = Oracles!PacketOf(case.logs, i, case.slices, case.batch, slice)

\* The two cooperative passes compute the dense transform, in both directions,
\* whatever the number of lanes (fft_cooperative_oracle.py, main).
PassesHold ==
    case.kind = "transform" => Oracles!TransformVerifies(case.r, case.g, case.inverse)

\* Both layouts fill the shared tile without overlap, every reader finds the element its
\* address was written for, and the shuffles stay inside their row
\* (fft_cooperative_oracle.py, verify_shared_layout, verify_shuffle_groups).
TileHolds ==
    case.kind = "tile" =>
        /\ Oracles!LayoutVerifies(case.r, case.g, case.columns, case.layout, case.bytes)
        /\ Oracles!ShufflesVerify(case.r, case.g, case.columns)

\* What the two oracles verify: the dependencies between factors are those of the closed
\* form and of the slices the library launches, and the cooperative passes compute the
\* transform through a shared tile that no two threads fill twice
\* (factor_dependency_oracle.py, fft_cooperative_oracle.py).
OraclesAgree == EdgesHold /\ PacketsHold /\ PassesHold /\ TileHolds

\* The kernels a projectable candidate is expected to launch have a thread, or a turn of
\* one, for every butterfly of every stage, and the slices of a factor are those the
\* library launches (predicted_sample against fft_factor_plan and factor_tile_range).
ProjectionCovers(m, point, kernels) ==
    LET stages == [i \in DOMAIN kernels |-> kernels[i].stages]
        batch == Space!LaunchBatch(m, point)
        streamed == m.backend = "factor-streamed"
        accepted == streamed => Len(stages) >= 2 /\ (m.slices > 1 => Factor(stages, m.columns, m.slices, batch)!ValidFactors)
        Launched(g) == IF m.slices = 1 THEN Factor(stages, m.columns, m.slices, batch)!Tiles(g)
                    ELSE Factor(stages, m.columns, m.slices, batch)!TileRange(g, 0).count
    IN  Space!Projectable(m, point) =>
        /\ Search!Total(stages) = point.logN
        /\ accepted => \A i \in DOMAIN kernels :
              /\ kernels[i].launches * kernels[i].ctas * kernels[i].space * kernels[i].time
                    >= batch * 2^(point.logN - 1)
              /\ streamed => /\ kernels[i].ctas * m.tilesPerCta >= Launched(i - 1)
                             /\ (kernels[i].ctas - 1) * m.tilesPerCta < Launched(i - 1)

\* An edit leaves the policy of every boundary it does not move: where a stage
\* ends before and after the edit, the policy is the same (_resize_boundary_policy).
BoundariesFollow(m) ==
    LET Policies(n) == {<<Search!Total(SubSeq(n.stages, 1, i)), n.boundaries[i]>> : i \in DOMAIN n.boundaries}
    IN  \A near \in ToSet(Search!Neighbors(m, PointOf(m))) : \A old \in Policies(m), new \in Policies(near) :
            old[1] = new[1] => old[2] = new[2]

\* Modules to calibrate are told apart by the kernels they are projected to launch, except
\* that a projection does not know the tile the runtime takes of a longer transform that
\* names none (stage_acquisition_order._effective_partition against predicted_sample).
AcquisitionAgrees ==
    case.kind = "acquired" =>
        LET m == [Plain EXCEPT !.backend = "shared-iterative", !.core = "scalar", !.factors = <<>>,
                               !.stages = case.stages, !.boundaries = case.boundaries, !.local = case.local]
            acquired == Space!AcquiredPartition(m, case)
        IN  /\ Search!Total(acquired) = case.logN
            /\ acquired = Space!Partition(m, case) \/ (case.stages = <<>> /\ case.local = 0 /\ case.logN > 10)

\* However many edits a search makes, the stages cover the transform, every
\* boundary has its policy, named factors end where the stages do, and the
\* resident axes fit the groups of the mapping; a boundary that an edit does not move
\* keeps its policy (evolutionary_search.py, neighbors).  What is expected of it before
\* it is compiled covers its work (calibration_space.py, predicted_sample), and tells its
\* module from others.
MappingsFit ==
    /\ AcquisitionAgrees
    /\ case.kind \in {"projection", "mapping"} =>
          LET m == case.mapping
              point == IF case.kind = "mapping" THEN PointOf(m)
                       ELSE [operator |-> case.operator, batch |-> case.batch, fp64 |-> FALSE,
                             logN |-> IF m.stages = <<>> THEN 7 ELSE Search!Total(m.stages)]
          IN  ProjectionCovers(m, point, Space!Kernels(m, point))
    /\ case.kind = "mapping" =>
        LET m == case.mapping logN == PointOf(m).logN IN
        /\ logN = IF m.backend = "online-reorder" THEN 10 ELSE 6
        /\ m.boundaries = <<>> \/ Len(m.boundaries) = Len(m.stages) - 1
        /\ m.factors # <<>> => Search!FactorLegal(m.core, m.factors, m.stages, logN)
        /\ IF Search!RegisterTile(m) THEN Search!RegisterLegal(m, logN, m.stages[1])
           ELSE Search!Requested(m) => m.backend = "shared-iterative" /\ Search!SharedLegal(m)
        /\ BoundariesFollow(m)

Reach(start, Edits(_), depth) ==
    LET r[k \in 0..depth] == IF k = 0 THEN {start}
                             ELSE LET before == r[k - 1]
                                  IN  before \cup UNION {Edits(x) : x \in before}
    IN  r[depth]

\* No mapping is out of the search's reach: the edits of the stages, of the factors
\* between fixed stages and of the resident units connect all partitions, and a
\* stage axis takes every value (_stage_neighbors, _factor_neighbors,
\* _resident_partition_neighbors, _numeric_values).
Connected ==
    LET To(edits) == {edits[i].to : i \in DOMAIN edits} IN
    /\ case.kind = "stages" =>
          \A p \in Compositions[case.n] :
              Reach(p, LAMBDA q : To(Search!StageEdits(q)), 2 * case.n) = Compositions[case.n]
    /\ case.kind = "factors" =>
          LET n == Search!Total(case.of)
              legal == {f \in Compositions[n] : Search!FactorLegal("cufftdx-block", f, case.of, n)}
          IN  \A f \in legal :
                  Reach(f, LAMBDA g : To(Search!FactorEdits(g, case.of)) \cap legal, 2 * n) = legal
    /\ case.kind = "units" =>
          LET legal == {p \in Compositions[case.n] : \A i \in DOMAIN p : p[i] <= 5}
          IN  Reach(Search!Seed(<<case.n>>)[1],
                    LAMBDA q : ToSet(Search!UnitEdits(q)), 2 * case.n) = legal
    /\ case.kind = "axis" =>
          LET point == [logN |-> case.n, batch |-> 1, fp64 |-> FALSE]
              First3(v) == ToSet(Search!AtMost(Search!NumericValues("local", v, point), 3))
          IN  \A v \in 1..case.n : Reach(v, First3, case.n) = 1..case.n

\* Screening forgets no candidate; the lowerings share every prefix of the order evenly; a
\* lowering shows all its strategies first, the plain one in front, then all its launch
\* units; a pipeline repeats a value only when none is left unseen
\* (stratified_candidates, _strategy_order).
ScreeningFair(points, order) ==
    LET families == {p.family : p \in points}
        Of(f) == {p \in points : p.family = f}
        Mine(f) == SelectSeq(order, LAMBDA p : p.family = f)
        Count(f, n) == Cardinality({i \in 1..n : order[i].family = f})
        Values(set) == {<<i, p.axes[i]>> : p \in set, i \in 1..3}
        Shown(seq, n) == {seq[i] : i \in 1..n}
    IN  /\ Len(order) = Cardinality(points) /\ ToSet(order) = points
        /\ \A n \in DOMAIN order, f, g \in families :
              Count(f, n) >= Count(g, n) - 1 \/ Count(f, n) = Cardinality(Of(f))
        /\ \A f \in families :
              LET mine == Mine(f)
                  strategies == {p.strategy : p \in Of(f)}
                  units == {p.unit : p \in Of(f)}
                  lead == Cardinality(strategies)
                  pairs == Smallest(Len(mine), lead + 1 + Cardinality(units))
              IN  IF mine[1].streamed
                  THEN \A n \in 1..Cardinality({p.axes : p \in Of(f)}) :
                          \/ ~(Values({mine[n]}) \subseteq Values(Shown(mine, n - 1)))
                          \/ Values(Shown(mine, n - 1)) = Values(Of(f))
                  ELSE /\ {p.strategy : p \in Shown(mine, lead)} = strategies
                       /\ Space!Default \in strategies => mine[1].strategy = Space!Default
                       /\ {p.unit : p \in Shown(mine, pairs)} = units

\* A document that is accepted gives every declared core of an operator a default, a
\* request is met by the choices that the lists of the processing unit allow, each as
\* asked or the first of its core or precision, and none is left out (load_space
\* against expand_design_choices); what the FFT's own space names may be requested
\* (validate_fft_projection).
ChoicesLegal ==
    case.kind = "choices" =>
        LET s == Changed(case.change)
            asked == case.asked
            o == s.operators[case.operator]
            chosen == Space!DesignChoices(s, case.operator, asked)
            Bound(core) == s.bindings[case.operator][core]
            Width(p) == s.widths[case.operator][p]
            Meets(value, request, listed) ==
                value \in ToSet(listed) /\ IF request = {} THEN value = listed[1] ELSE value \in request
            AsAsked(c) ==
                /\ Meets(c.core, asked.core, o.cores)
                /\ Meets(c.precision, asked.precision, Space!PrecisionsOf(s, case.operator, c.core))
                /\ Meets(c.coefficient, asked.coefficient, Bound(c.core).coefficient)
                /\ Meets(c.exchange, asked.exchange, Bound(c.core).exchange)
                /\ Meets(c.word, asked.word, Width(c.precision).word)
                /\ Meets(c.accumulator, asked.accumulator, Width(c.precision).accumulator)
                /\ c.group = Bound(c.core).group
                /\ asked.group = {} \/ c.group \in asked.group
                /\ c.axes.order = "natural"
                /\ c.axes.threads \in IF "threads" \in DOMAIN asked.axes THEN asked.axes.threads ELSE {"128"}
            every == [core : ToSet(o.cores), group : s.groups, arithmetic : s.arithmetic,
                      precision : ToSet(o.precision), coefficient : ToSet(o.coefficient), exchange : s.exchanges,
                      word : s.words, accumulator : s.accumulators,
                      axes : [threads : {"128", "256", "512"}, order : {"natural"}]]
            fft == [precision |-> asked.precision, core |-> asked.core, exchange |-> asked.exchange,
                    twiddle |-> asked.coefficient]
        IN  Space!SpaceLegal(s) =>
            /\ case.change \in {"none", "wider"}
            /\ chosen \subseteq every
            /\ \A c \in chosen : AsAsked(c)
            /\ \A core \in ToSet(o.cores) :
                  Cardinality(Space!DesignChoices(s, case.operator, [Unasked EXCEPT !.core = {core}])) = 1
            /\ case.operator = "fft" =>
                  (Space!FftProjects(s, fft) <=>
                     Space!Requestable(s, "fft", [asked EXCEPT !.word = {}, !.accumulator = {}, !.axes = <<>>]))
            /\ Space!Requestable(s, case.operator, asked) => \A c \in every :
                  AsAsked(c) /\ c.arithmetic = Bound(c.core).arithmetic => c \in chosen

\* The folds of an architecture point are those into which its stages, cells and
\* transforms fall, and only what waits off chip between folds is fed back; levels compose
\* to the factors they unfold and dimensions to the stages they cover
\* (derive_architecture_point, derive_multidimensional_point, validate_hierarchy_factors).
UnfoldingsCover ==
    case.kind = "unfolding" =>
        LET p == [bytes |-> 4, staged |-> TRUE] @@ case
            point == Space!ArchitecturePoint(p)
            Folds(work, width) == {k \div width : k \in 0..(work - 1)}
            folds == Folds(p.logN, p.us) \X Folds(2^(p.logN - 1), p.ud) \X Folds(p.batch, p.ub)
            Fed(width, work) == Cardinality({k \in 1..(work - 1) : k % width = 0})
            words == 2^p.logN * p.batch
            levels == [warp |-> [us |-> p.us, ud |-> 1], cta |-> [us |-> 1, ud |-> p.ud]]
        IN  /\ point.cycles = Cardinality(folds)
            /\ point.cells * point.cycles >= p.logN * 2^(p.logN - 1) * p.batch
            /\ p.logN % p.us = 0 /\ 2^(p.logN - 1) % p.ud = 0 /\ p.batch % p.ub = 0 =>
                  point.cells * point.cycles = p.logN * 2^(p.logN - 1) * p.batch
            /\ point.stageBytes = IF p.stage = "global" THEN 2 * words * p.bytes * Fed(p.us, p.logN) ELSE 0
            /\ point.dataBytes = IF p.data = "global" THEN 2 * words * p.bytes * Fed(p.ud, 2^(p.logN - 1)) ELSE 0
            /\ point.boundary + point.interstage = 2 * point.cells
            /\ Space!HierarchyComposes([us |-> p.us, ud |-> p.ud], levels)
            /\ \A partition \in Compositions[p.logN] :
                  LET dimensions == Space!MultidimensionalPoint(partition, [i \in DOMAIN partition |-> [us |-> p.us, ud |-> p.ud]])
                      Total(i) == dimensions[i].ts * p.us
                  IN  /\ Costs!Sum([i \in DOMAIN partition |-> Total(i)]) >= p.logN
                      /\ Len(partition) = 1 => dimensions[1] = [ts |-> point.ts, td |-> point.td]

\* A listing shows every ordered factorisation with every architecture that has the cells,
\* as many rows as were counted against the limit, or none (stage_partitions, main).
ListingsCounted ==
    case.kind = "listing" =>
        LET r == [case EXCEPT !.us = IF @ = {} THEN Space!PowersUpTo(case.logN) ELSE @]
                    @@ [ud |-> Space!PowersUpTo(3), ub |-> {1, 2}, stage |-> {"shared"}, data |-> {"shared", "global"},
                        bytes |-> 0]
            choices == {[word |-> w, core |-> "scalar"] : w \in {32, 64}}
            rows == Space!Rows(r, choices)
            count == Space!CandidateCount(r, choices)
        IN  /\ Space!StagePartitions(r.logN, r.rank) = {c \in Compositions[r.logN] : Len(c) = r.rank}
            /\ Cardinality(rows) = IF count > r.limit THEN 0 ELSE count
            /\ \A row \in rows : /\ row.bytes * 8 = row.choice.word
                                 /\ r.cells # 0 => row.us * row.ud = r.cells
            /\ rows # {} /\ r.cells # 0 =>
                  \A u \in r.us : (\E row \in rows : row.us = u) <=> \E d \in 1..r.cells : u * d = r.cells

\* The options the benchmark is given tell the forms of a sweep apart, and the forms with
\* a block core on either side are those that the design space calls compiled, although
\* each script enumerates them on its own (sweep_cubutterfly_designs.py, configurations;
\* fft_design_space.py, classify_online_point).
SweepsTold ==
    case.kind = "forms" =>
        LET o == SweepOptions(case.local)
            compiled == Space!CompiledPoints(CodegenFamilies)
            swept == Space!Swept(case.of[1], case.of[2], case.n, o, compiled)
            online == {f \in swept : f.core = "cufftdx-block" /\ f.backend = "online-reorder"}
            points == Space!OnlinePoints({case.n}, o.prefixThreads \cup o.suffixThreads,
                                         o.prefixEpt \cup o.suffixEpt, Volta, compiled, "compiled")
        IN  /\ Cardinality({Space!Command(f) : f \in swept}) = Cardinality(swept)
            /\ case.of = <<"fft", "fp32">> =>
                  {<<<<f.local>> \o f.prefix, <<case.n - f.local>> \o f.suffix>> : f \in online}
                    = {p \in points :
                          /\ p[1][1] \in o.local /\ p[1][1] <= 10 /\ p[2][1] <= 10
                          /\ p[1][2] \in o.prefixThreads /\ p[1][3] \in o.prefixEpt
                          /\ p[2][2] \in o.suffixThreads /\ p[2][3] \in o.suffixEpt}

\* An SM holds as many CTAs as its registers, shared memory, threads and warps allow and
\* not one more; more registers never let it hold more; and only a fall of occupancy is a
\* cliff, not one of the number of CTAs (residency_features.py,
\* tests/test_residency_features.py).
ResidencyExact ==
    case.kind = "residency" =>
        LET k == case.kernel
            a == Space!Allocated(Volta, k)
            before == Space!Residency(Volta, case.before, <<>>)
            held == Space!Residency(Volta, k, <<before>>)
            Fits(c) == /\ c * a.registers <= Volta.registers /\ c * a.shared <= Volta.shared
                       /\ c * k.threads <= Volta.threads /\ c * a.warps <= Volta.warps /\ c <= Volta.ctas
        IN  /\ a.registers >= k.registers * k.threads /\ a.shared >= k.shared
            /\ Space!Launchable(Volta, k) => Fits(held.resident) /\ ~Fits(held.resident + 1)
            /\ held.resident > 0 <=> Space!Launchable(Volta, k)
            /\ held.limiting # {} <=> held.resident > 0
            /\ \A more \in {128, 254} : more >= k.registers =>
                  Space!Residency(Volta, [k EXCEPT !.registers = more], <<>>).resident <= held.resident
            /\ held.warps >= before.warps /\ held.resident > 1 => ~held.cliff

\* Every seed of the same operator, precision and length is a source of the one candidate it
\* proposes, none of another is; explicit seeds lead, then those of the very context; the order
\* of the files is no matter; and what the plan makes of a candidate passes for it, another
\* choice does not (calibration_seeds.py).
SeedsProposed ==
    case.kind = "seeds" =>
        LET target == IF case.fp64 THEN [Target EXCEPT !.precision = "fp64"] ELSE Target
            Numbered(i, place) == [place |-> place,
                digest |-> CHOOSE d \in DOMAIN Digests : Digests[d] = Space!CanonicalMapping(Pool[i].mapping)] @@ Pool[i]
            Seeds(Place(_)) == {Numbered(i, Place(i)) : i \in
                                   {j \in case.from : Space!Seedable(Pool[j].semantic, Pool[j].mapping)}}
            seeds == Seeds(LAMBDA i : i)
            candidates == Space!SeedCandidates(seeds, target)
            reversed == Space!SeedCandidates(Seeds(LAMBDA i : 20 - i), target)
            Sources(i) == ToSet(candidates[i].sources)
            Class(i) == IF \E s \in Sources(i) : s.kind = "explicit" /\ s.semantic = target THEN 1
                        ELSE IF \E s \in Sources(i) : s.kind = "explicit" THEN 2
                        ELSE IF \E s \in Sources(i) : s.semantic = target THEN 3 ELSE 4
            Resolved(m) == [m EXCEPT !.columns = IF m.backend = "online-reorder" /\ m.core # "scalar" THEN 1 ELSE @,
                                     !.policies = IF m.backend = "factor-streamed" /\ @ = <<>>
                                                  THEN <<"dynamic", "dynamic">> ELSE @]
        IN  /\ UNION {Sources(i) : i \in DOMAIN candidates}
                  = {s \in seeds : s.semantic.precision = target.precision}
            /\ \A i, j \in DOMAIN candidates : i < j =>
                  /\ candidates[i].mapping # candidates[j].mapping /\ Sources(i) \cap Sources(j) = {}
                  /\ Class(i) <= Class(j)
            /\ [i \in DOMAIN reversed |-> reversed[i].mapping] = [i \in DOMAIN candidates |-> candidates[i].mapping]
            /\ \A i \in DOMAIN candidates :
                  LET m == candidates[i].mapping IN
                  /\ \A s \in Sources(i) : Resolved(s.mapping) = Resolved(m)
                  /\ m.codelet # "native" \/ m.layout # "linear" => m.core = "register-tile"
                  /\ m.codelet # "native" => target.precision # "fp64"
                  /\ Len(m.policies) \in {0, Len(m.factors)}
                  /\ Space!Preserved(m, [overlap |-> FALSE] @@ Resolved(m))
                  /\ ~Space!Preserved(m, [Resolved(m) EXCEPT !.layout = IF @ = "xor" THEN "linear" ELSE "xor"])
                  /\ m.factors # <<>> =>
                        ~Space!Preserved(m, [m EXCEPT !.policies = <<"dynamic", "static-unrolled">>])

\* A round proposes no mapping twice and none that was measured, offers something of the
\* family every source leads with, and stops short of its limit only when its sources have
\* nothing left (evolutionary_candidates).
RoundFills(sources, chosen) ==
    LET taken == case.measured \cup ToSet(case.population)
        Left(s) == SelectSeq(s, LAMBDA c : c \notin taken)
        Chosen(c) == \E i \in DOMAIN chosen : chosen[i] = c
    IN  /\ \A i, j \in DOMAIN chosen : i # j => chosen[i] # chosen[j]
        /\ \A i \in DOMAIN chosen : chosen[i] \notin taken
        /\ Len(chosen) <= case.limit
        /\ Len(chosen) < case.limit =>
              \A s \in DOMAIN sources : \A i \in DOMAIN Left(sources[s]) : Chosen(Left(sources[s])[i])
        /\ case.limit >= Len(sources) =>
              \A s \in DOMAIN sources : Left(sources[s]) # <<>> =>
                  \E i \in DOMAIN chosen : Family[chosen[i]] = Family[Left(sources[s])[1]]

\* The edits reach every mapping, screening shows every choice, the listings and seeds are
\* complete and a round proposes what it can, each as above (evolutionary_search.py,
\* calibration_space.py, butterfly_design_space.py, calibration_seeds.py).
SearchComplete ==
    /\ Connected /\ ChoicesLegal /\ UnfoldingsCover /\ ListingsCounted
    /\ SweepsTold /\ ResidencyExact /\ SeedsProposed
    /\ case.kind = "screening" => ScreeningFair(case.points, Space!Stratified(case.points, 0))
    /\ case.kind = "round" =>
        LET neighborsOf == [i \in Ids |-> <<(i % 5) + 1, ((i + 2) % 5) + 1>>]
            score == [i \in Ids |-> IF i = case.best THEN 0 ELSE i % 2]
        IN  RoundFills(Search!Streams(case.population, Search!Ranked(case.inventory, score), case.limit, neighborsOf),
                       Search!Candidates(case.population, case.inventory, score, case.measured,
                                         case.limit, neighborsOf, Family))

\* What the runtime makes a launch wait for: the one before it on its stream, and the
\* latest launches enqueued before it that announce what it waits on.
Runtime(groups, tiles, streamed) ==
    LET order == Costs!Launches(groups, tiles, streamed)
        Waits(l) == IF streamed
                    THEN IF l[1] = groups - 1 THEN {Digits(groups, tiles)!FanIn}
                         ELSE {w.on[1] : w \in ToSet(Digits(groups, tiles)!SliceWait(l[1], l[2]))}
                    ELSE {w.on[1] : w \in ToSet(Ring(groups, tiles)!SlotWait(l[1], l[2])
                                                   \o Ring(groups, tiles)!TileWait(l[1], l[2]))}
        Announces(l) == IF streamed THEN {Digits(groups, tiles)!ready(l[1], l[2])}
                        ELSE Ring(groups, tiles)!Announced(l[1], l[2])
        Latest(set) == {order[i] : i \in {j \in set : \A k \in set : k <= j}}
    IN  [i \in DOMAIN order |->
            Latest({j \in 1..(i - 1) : order[j][1] = order[i][1]})
               \cup UNION {Latest({j \in 1..(i - 1) : e \in Announces(order[j])}) : e \in Waits(order[i])}]

\* The waits of the runtime around the launches of a schedule; of a ring, its records too.
Events(groups, tiles, streamed) ==
    LET order == Costs!Launches(groups, tiles, streamed)
        Of(l) == IF streamed
                 THEN IF l[1] = groups - 1 THEN Len(<<Digits(groups, tiles)!FanIn>>)
                      ELSE Len(Digits(groups, tiles)!SliceWait(l[1], l[2]))
                 ELSE Len(Ring(groups, tiles)!SlotWait(l[1], l[2])) + Len(Ring(groups, tiles)!TileWait(l[1], l[2]))
                         + Cardinality(Ring(groups, tiles)!Announced(l[1], l[2]))
        \* begin: the call and every group wait, done: the caller
        around == IF streamed THEN Cardinality(Digits(groups, tiles)!Group) + 2 ELSE 0
    IN  Costs!Sum([i \in DOMAIN order |-> Of(order[i])]) + around

RuntimeOf == [n \in 2..3 |-> [t \in 1..4 |-> [f \in BOOLEAN |-> Runtime(n, t, f)]]]
EventsOf == [n \in 2..3 |-> [t \in 1..4 |-> [f \in BOOLEAN |-> Events(n, t, f)]]]

\* The dependencies, launches, waits and records a cost model knows are those the runtime
\* creates; an estimate is never under the longest chain, never over the sum, and is the
\* sum without overlap (schedule_nodes, compose and feature_vector against
\* BatchPipeline::enqueue and FactorPipeline::enqueue).
SchedulesHold ==
    case.kind = "schedule" =>
        LET groups == Len(case.stages)
            order == Costs!Launches(groups, case.tiles, case.streamed)
            nodes == Costs!Nodes(case.stages, case.tiles, case.streamed, case.overlap, case.last, <<>>)
            runtime == RuntimeOf[groups][case.tiles][case.streamed]
            told == Costs!Features([groups |-> groups, batch |-> case.tiles, tile |-> 1, overlap |-> TRUE,
                                    streamed |-> case.streamed, slices |-> case.tiles])
            chain[i \in DOMAIN nodes] ==
                nodes[i].duration + Costs!Max({0} \cup {chain[j] : j \in nodes[i].after})
            total == Costs!Sum([i \in DOMAIN nodes |-> nodes[i].duration])
            cost == Costs!Composed(nodes)
        IN  /\ \A i \in DOMAIN order :
                  Costs!After(order[i], groups, case.tiles, case.streamed) = runtime[i]
            /\ told.launches = Len(order)
            /\ case.streamed \/ case.tiles >= 2 =>
                  told.events = EventsOf[groups][case.tiles][case.streamed]
            /\ case.tiles <= 3 =>
                  /\ \A i \in DOMAIN nodes : cost >= 4 * chain[i]
                  /\ cost <= 4 * total
                  /\ ~case.overlap => cost = 4 * total

\* A prediction is called covered only when every kernel has a measured load and the tiles
\* of a batch were described as they are now, and it is never under the measured floor of
\* the pipeline (_predict_measured, _predict_batch_composition).
PredictionsHold ==
    case.kind = "plan" =>
        LET answer == Costs!Predict(case, Profiled, case.floor)
            Known(kernels) == \A i \in DOMAIN kernels : kernels[i].load \in DOMAIN Profiled[kernels[i].service]
            batched == case.overlap /\ case.backend # "factor-streamed"
            p == case.projection
        IN  answer.covered =>
            IF batched
            THEN /\ p.status = "resolved" /\ Known(p.full) /\ Known(p.tail)
                 /\ (p.tiles - 1) * p.tile + (IF p.tail = <<>> THEN p.tile ELSE p.tailBatch) = case.batch
                 /\ answer.cost >= 4 * case.floor
            ELSE Known(case.kernels)

\* A model may rank plans nobody measured only when at least three workloads it had not
\* seen each offered a choice, and on each it chose the design measured fastest; of a
\* serial verdict only serial workloads count, and curves that miss held-out loads carry
\* none; the regression is not moved by a vendor's rows (report, main).
RankingEarned ==
    case.kind = "report" =>
        LET rows == RowsOf(case.outcomes)
            status == Costs!Report(rows, case.services, case.probes)
            admitted == Costs!Admitted(rows)
            Chosen(held) ==
                \E r, b \in held : /\ \A q \in held : r.guess <= q.guess /\ b.ms <= q.ms
                                   /\ r.design = b.design
            Held(set, w) == {r \in set : r.workload = w}
            Offered(set) == {w \in 1..4 : \E a, b \in Held(set, w) : Costs!Design(a) # Costs!Design(b)}
            serial == {w \in 1..4 : \A r \in Held(rows, w) : ~r.overlap}
            judged == {w \in 1..4 : \E a, b \in Held(rows, w) : a.design # b.design}
                         \cap (IF status = "calibrated-local-serial" THEN serial ELSE 1..4)
            internal == {r \in rows : ~r.external}
        IN  /\ status \in {"calibrated-local", "calibrated-local-serial"} =>
                  /\ Cardinality(judged) >= 3
                  /\ \A w \in judged : Chosen(Held(rows, w))
                  /\ case.services # {} =>
                        /\ case.probes # <<>> /\ \A e \in Range(case.probes) : e >= 0
                        /\ 2 * Cardinality({i \in DOMAIN case.probes : case.probes[i] <= 100})
                               >= Len(case.probes)
                        /\ \A w \in judged : \A r \in Held(rows, w) : r.primitive \in case.services
            /\ admitted = Costs!Admitted(internal)
            /\ admitted = "calibrated-local" =>
                  /\ Cardinality(Offered(internal)) >= 3
                  /\ \A w \in Offered(internal) : Chosen(Held(internal, w))

\* Splitting a kernel into equal launches moves no work away; what stays in a resident
\* leaf is charged no boundary, a chunk no smaller than what a thread holds no barrier,
\* and a smaller chunk or a finer leaf is never cheaper; an SM is not charged with more
\* CTAs than fit unless none does (stage_terms).
TermsHold ==
    case.kind = "term" =>
        LET plan == [points |-> 64, batch |-> 2, tile |-> 1, overlap |-> FALSE, width |-> 1]
            rates == [byte |-> 1, butterfly |-> 2, shared |-> 3, barrier |-> 5]
            device == [blocks |-> 4, threads |-> 64, shared |-> 32, registers |-> 128, sms |-> 4]
            kernel == [threads |-> 16] @@ case
            Of(k) == Costs!Term(plan, k, rates, device, 1)
            term == Of(kernel)
            whole == Of([kernel EXCEPT !.launches = 1])
            held == Costs!Resident(kernel, device)
            Total(units) == Costs!Sum(units)
            Finer(units) == {u \in {<<4>>, <<2, 2>>, <<1, 1, 2>>} : Len(u) >= Len(units)}
        IN  /\ term.memory * case.launches = whole.memory
            /\ term.body >= term.memory /\ term.body >= term.compute
            /\ term.occupancy[1] <= term.occupancy[2] /\ held <= Costs!Max({1, device.blocks})
            /\ held > 1 => /\ held * kernel.threads <= device.threads
                           /\ held * case.live <= device.shared
                           /\ held * kernel.threads * case.registers <= device.registers
            /\ case.native /\ Total(case.units) = case.stages =>
                  /\ term.compute <= Of([kernel EXCEPT !.native = FALSE]).compute
                  /\ \A u \in Finer(case.units) : term.compute <= Of([kernel EXCEPT !.units = u]).compute
                  /\ Len(case.units) = 1 /\ case.chunk = 0 => term.compute = (64 * 2 * case.stages) \div case.launches
            /\ case.ept > 0 /\ case.chunk >= case.ept => term = Of([kernel EXCEPT !.chunk = 0])
            /\ \A c \in 1..8 : case.chunk > 0 /\ c < case.chunk =>
                  term.compute <= Of([kernel EXCEPT !.chunk = c]).compute

\* When every pair of confirmed designs is predicted in the order it was measured in, the first
\* is the fastest and costs nothing; a slower alias of a mapping, a wrong result and a
\* vendor's never change a ranking; and the acceptance counts every ranked cell and every
\* baseline where it was timed with ours (run_research_acceptance.py, ranking, summarize).
AcceptanceSound ==
    case.kind = "ranking" =>
        LET Record(i, mapping) ==
                [place |-> i, name |-> i, mapping |-> mapping, ms |-> case.ms[i], guess |-> case.guess[i],
                 status |-> "measured", correct |-> TRUE, samples |-> 1, external |-> FALSE, covered |-> i # 2]
            Odd(r) == CASE case.odd = "vendor" -> [r EXCEPT !.external = TRUE]
                        [] case.odd = "wrong"  -> [r EXCEPT !.correct = FALSE]
                        [] case.odd = "late"   -> [r EXCEPT !.samples = 0]
                        [] OTHER               -> r
            records == {Record(1, 1), Record(2, IF 2 \in case.same THEN 1 ELSE 2),
                        Odd(Record(3, IF 3 \in case.same THEN 1 ELSE 3))}
            verdict == Costs!Ranking(records)
            slow == {[r EXCEPT !.place = @ + 3, !.name = @ + 3, !.ms = @ + 1] : r \in records}
            counted == {r.mapping : r \in {q \in Costs!Internal(records) : q.guess > 0}}
            few == [status |-> "insufficient-candidates", count |-> 1]
            timed == <<[ours |-> case.ms[1], cufft |-> case.ms[2]], [ours |-> case.ms[2]],
                       [ours |-> case.ms[3], cufft |-> case.ms[1]]>>
            cells == [i \in 1..3 |-> [status |-> IF i = 3 /\ case.odd = "late" THEN "pending" ELSE "complete",
                                      ranking |-> IF i = 2 THEN few ELSE verdict, ms |-> timed[i]]]
            total == Costs!Accepted(cells)
            vendor == total.baselines["cufft"]
        IN  /\ verdict.count = Cardinality(counted)
            /\ Costs!Ranking(records \cup slow) = verdict
            /\ verdict.status = "evaluated" =>
                  /\ 2 * verdict.pairs = verdict.count * (verdict.count - 1)
                  /\ verdict.regret[1] >= verdict.regret[2]
                  /\ verdict.agreeing = verdict.pairs => verdict.top1
                  /\ verdict.top1 => verdict.top2 /\ verdict.regret[1] = verdict.regret[2]
                  /\ verdict.count = 2 => verdict.top2
                  /\ verdict.agreeing = 0 /\ Cardinality({r.ms : r \in Costs!Competing(records)}) = verdict.count
                        /\ Cardinality({r.guess : r \in Costs!Competing(records)}) = verdict.count => ~verdict.top1
                  /\ total.cells = 2 /\ total.pairs = 2 * verdict.pairs /\ total.agreeing = 2 * verdict.agreeing
            /\ total.top1 <= total.top2 /\ total.top2 <= total.cells /\ total.covered <= total.cells
            /\ total.measured <=> case.odd # "late"
            /\ vendor.paired = IF case.odd = "late" THEN 1 ELSE 2
            /\ vendor.faster = vendor.paired <=> vendor.least[1] >= vendor.least[2]

\* What a plan is predicted to cost follows what the runtime would do, is covered only by
\* what was measured, and ranks only when it has earned to (stage_cost_model.py,
\* fit_local_cost_model.py).
CostsFollowRuntime == SchedulesHold /\ PredictionsHold /\ RankingEarned /\ TermsHold /\ AcceptanceSound

\* A kernel keeps its curve when a choice of another kernel changes, loses it when a choice
\* of its own does, and naming a default changes nothing; a prediction comes from the
\* same device, between measured loads, and from an unknown allocation only when the
\* shape was measured under a single one (curve_key, resolve_resources, predict_group).
KernelsHold ==
    case.kind = "kernel" =>
        LET sample == case.sample
            kernel == Kernel(case.index, case.load, case.resource)
            Key(m) == Services!CurveKey([sample EXCEPT !.mapping = m], kernel)
            own == Services!CurveKey(sample, kernel)
            like(register) == Services!CurveKey(sample, Kernel(case.index, 1, Resource(register, "yes")))
            profile == [device |-> "a", curves |-> [k \in {like(r) : r \in case.measured} |-> {1, 4}]]
            registers == Services!ResourceState(case.resource).registers
            bare == sample.top.codelet = "unknown" \/ sample.canonical
        IN  /\ case.index = 1 => \A m \in Mappings :
                  sample.mapping.backend = "online-reorder" /\ m.backend = "online-reorder" => Key(m) = own
            /\ sample.mapping.backend = "factor-streamed" /\ Len(sample.mapping.policies) = 2 =>
                  \A i \in 1..2 : \A policy \in {"dynamic", "static-unrolled"} \ {sample.mapping.policies[i]} :
                      (Key([sample.mapping EXCEPT !.policies[i] = policy]) = own) <=> (i # case.index + 1)
            /\ case.index = 0 /\ sample.mapping.backend = "online-reorder" /\ bare =>
                  /\ sample.mapping.codelet = "unknown" => Key([sample.mapping EXCEPT !.codelet = "native"]) = own
                  /\ sample.mapping.codelet # "generated" => Key([sample.mapping EXCEPT !.codelet = "generated"]) # own
            /\ sample.mapping.lanes = 0 => Key([sample.mapping EXCEPT !.lanes = 1]) = own
            \* one curve has one cost function to stand in for it
            /\ sample.top.codelet = "unknown" => \A m \in Mappings : Key(m) = own =>
                  Services!PrimitiveKey([sample EXCEPT !.mapping = m], kernel) = Services!PrimitiveKey(sample, kernel)
            /\ sample.mapping.policies = <<>> => Key([sample.mapping EXCEPT !.policies = <<"dynamic", "dynamic">>]) = own
            /\ Services!Predicted(profile, sample, kernel) <=>
                  /\ sample.device \in {"unknown", "a"} /\ case.load \in 1..4
                  /\ registers \in case.measured \/ Cardinality(case.measured) = 1

\* A selection is checked on shapes it has not seen: what is predicted of a shape does not
\* move with what was measured of it.  A prediction between two batches lies between
\* their times when these grow, beyond them it grows by no more than the slope allowed,
\* and it never falls; the mapping predicted fastest costs nothing when it is the winner
\* and every candidate is among enough (rank_shape, interpolate_log_latency, evaluate).
SelectionHolds ==
    case.kind = "selection" =>
        LET Timed(i, b, ms) == [id |-> 10 * i + b, semantic |-> "fft", batch |-> b, implementation |-> i, ms |-> ms,
                              threads |-> IF i = 1 THEN 64 ELSE 256, correct |-> ms > 0, external |-> FALSE]
            rows == Curves!Loaded({Timed(i, b, case.ms[i][b]) : i \in 1..2, b \in 1..3}, TRUE)
            Of(b) == {r \in rows : r.batch = b}
            Other(b) == (rows \ Of(b)) \cup {[r EXCEPT !.ms = 40 - @ \div 2] : r \in Of(b)}
            Ordered(set, from) == LET ranked == Curves!RankShape(set, from, case.threads)
                                IN  [n \in DOMAIN ranked |-> ranked[n].implementation]
            records == Curves!Evaluated(rows, case.threads, 2)
            points == {<<2 * r.batch, r.ms>> : r \in {q \in rows : q.implementation = 1}}
            grows == \A p, q \in points : p[1] < q[1] => p[2] <= q[2]
            Told(t) == Curves!LatencyAt(points, t).ms
            free == {t \in 0..9 : \A p \in points : p[1] # t}
        IN  /\ \A b \in 1..3 : Ordered(Of(b), rows) = Ordered({[r EXCEPT !.ms = 40 - @ \div 2] : r \in Of(b)}, Other(b))
            /\ \A s \in DOMAIN records :
                  /\ records[s].regret >= 0
                  /\ records[s].predicted = records[s].winner => records[s].regret = 0
                  /\ records[s].winner \in records[s].top
                  /\ \A r \in records[s].top : r.threads <= case.threads
            /\ points # {} => \A t \in free :
                  /\ grows => \A p \in points :
                        /\ p[1] < t => p[2] * Told(t)[2] <= Told(t)[1]
                        /\ p[1] > t => Told(t)[1] <= p[2] * Told(t)[2]
                  /\ \A u \in free : grows /\ t < u => Told(t)[1] * Told(u)[2] <= Told(u)[1] * Told(t)[2]

\* Serial kernels stand for those of a pipeline only when each was described, as it is, on
\* the same build with the same known resources; then they account for every transform
\* of the batch and the plan's cost accepts them (resolve_batch_services).
ViewsHold ==
    case.kind = "batch" =>
        LET point == case.point
            tile == Smallest(point.tile, point.batch)
            Hit(where) == case.at = where \/ (case.at = "both" /\ where # "pipeline")
            Answer(where, d) == IF Hit(where) THEN Flawed(d, case.flaw) ELSE d
            pipeline == [Document(point.batch, case.backend, case.groups) EXCEPT !.overlap = TRUE]
            views == [b \in 1..4 |-> Answer(IF b = tile THEN "tile" ELSE "tail",
                                            Document(b, case.backend, case.groups))]
            answer == Services!ResolveBatch(point, Answer("pipeline", pipeline), pipeline, views)
            used == IF tile = 0 THEN {} ELSE {tile} \cup ({point.batch % tile} \ {0})
            Sound(b) == /\ views[b].batch = b /\ views[b].status = "resolved" /\ ~views[b].overlap
                        /\ views[b].mapping = "m" /\ views[b].groups = pipeline.groups
        IN  answer.status = "resolved" =>
            /\ point.overlap /\ ~point.factorOverlap /\ case.backend # "factor-streamed"
            /\ \A b \in used : Sound(b)
            /\ Costs!Projected([batch |-> point.batch, tile |-> point.tile, projection |-> answer])
            /\ answer.tailBatch = 0 <=> answer.tail = <<>>
            /\ \A i \in DOMAIN answer.tail : answer.tail[i] = answer.full[i]

\* A kernel is reused only when its launches do every transform of its stages once, with
\* the CTAs the screening expects of its mapping (_online_service_signature against
\* predicted_sample).
ReuseHolds ==
    case.kind = "reuse" =>
        LET m == [Plain EXCEPT !.backend = "online-reorder", !.core = case.core, !.factors = <<>>,
                               !.stages = case.stages, !.local = case.stages[1], !.lanes = case.lanes,
                               !.threads = case.threads, !.ept = case.ept, !.chunks = case.chunks,
                               !.suffixThreads = case.suffixThreads, !.suffixEpt = case.suffixEpt]
            point == [operator |-> "fft", logN |-> 10, batch |-> case.batch, fp64 |-> FALSE]
            Part(i) == [first |-> IF i = 1 THEN 0 ELSE case.stages[1], stages |-> case.stages[i],
                        core |-> IF i = 1 /\ case.core = "register-tile" THEN case.core ELSE "cufftdx-block",
                        single |-> TRUE, threads |-> IF i = 1 THEN case.threads ELSE case.suffixThreads,
                        ept |-> IF i = 1 THEN case.ept ELSE case.suffixEpt, batchSpace |-> 1, units |-> 0,
                        chunk |-> IF i = 2 THEN case.chunk ELSE 0, work |-> case.work, grid |-> case.work]
            plan == [status |-> "resolved", operator |-> "fft", overlap |-> FALSE, tiled |-> FALSE,
                     batch |-> case.batch, logN |-> 10, mapping |-> m, kernels |-> <<Part(1), Part(2)>>]
        IN  \A i \in 1..2 :
              Services!OnlineReusable(plan, Part(i)) =>
                 LET units == Services!UnitsOf(m, Part(i), i - 1)
                     transforms == case.batch * 2^(10 - case.stages[i])
                 IN  /\ case.work * units >= transforms /\ (case.work - 1) * units < transforms
                     /\ case.core = "register-tile" /\ Space!Projectable(m, point) =>
                           /\ case.work * units = transforms
                           /\ Space!Kernels(m, point)[i].ctas = case.work

\* The floor of a pipeline is what was measured, or lies on the line between its two
\* neighbours, both measured; there is none beyond them or for another number of
\* groups, and what was held out to check it never moves it (_predict_training, costs).
FloorsHold ==
    case.kind = "curve" =>
        LET Ms(t) == 20 + 3 * t + case.bend * (t % 3)
            Probe(t) == [groups |-> 2, tiles |-> t, correct |-> TRUE, ms |-> Ms(t)]
            Rows(set) == [i \in DOMAIN Order(set) |-> Probe(Order(set)[i])]
            summary == Curves!Summary(Rows(case.trained \cup case.held))
            Floor(g, t) == Curves!PipelineFloor(summary, g, t)
            Neighbours(t) == {u \in case.trained : u <= t /\ \A v \in Curves!TrainingTiles : v <= t => v <= u}
                             \cup {u \in case.trained : u >= t /\ \A v \in Curves!TrainingTiles : v >= t => v >= u}
        IN  /\ Curves!Fits(Rows(case.trained \cup case.held)) <=> case.trained # {}
            /\ \A t \in 1..40 :
                  /\ \A g \in {1, 3, 5} : Floor(g, t) = Curves!Uncovered
                  /\ t \in case.trained => Floor(2, t) = <<Ms(t), 1>>
                  /\ t \notin case.trained =>
                        IF Cardinality(Neighbours(t)) = 2
                        THEN LET low == Curves!Min(Neighbours(t)) high == Curves!Max(Neighbours(t)) f == Floor(2, t)
                             IN  /\ f[1] * (high - low) = f[2] * (Ms(low) * (high - t) + Ms(high) * (t - low))
                                 /\ \E s \in summary[2].segments :
                                       /\ s.lower <= t /\ t <= s.upper
                                       /\ f[1] * s.width = f[2] * (s.intercept + s.slope * t)
                        ELSE Floor(2, t) = Curves!Uncovered
                  /\ Floor(2, t) = Curves!PipelineFloor(Curves!Summary(Rows(case.trained)), 2, t)

\* What a launch costs starts at its one-CTA launch, never falls with the grid, and a
\* block size that was measured is charged its own line (summarize, costs).
DispatchHolds ==
    case.kind = "dispatch" =>
        LET rows == [i \in 1..9 |-> LET k == <<<<32, 64, 256>>[(i - 1) \div 3 + 1], <<1, 2, 4>>[((i - 1) % 3) + 1]>>
                                   IN  [threads |-> k[1], grid |-> k[2], ms |-> case.ms[k]]]
            shapes == Curves!LaunchSummary(rows)
            Cost(threads, grid) == Curves!LaunchCost(shapes, threads, grid)
            chosen == Curves!NearestShape(shapes, case.threads).threads
            Between(a, b) == {t \in {32, 64, 256} : Curves!Min({a, b}) < t /\ t < Curves!Max({a, b})}
        IN  /\ Curves!LaunchFits(rows)
            /\ \A t \in {32, 64, 256} : Cost(t, 1).startup = <<case.ms[<<t, 1>>], 1>>
            /\ Between(chosen, case.threads) = {}
            /\ \A grid \in 1..4 : Cost(case.threads, grid).dispatch # Curves!Uncovered =>
                  LET here == Cost(case.threads, grid).dispatch next == Cost(case.threads, grid + 1).dispatch
                  IN  here[1] >= 0 /\ here[1] * next[2] <= next[1] * here[2]

\* A calibration answers with rows printed under the identity it was asked for, by its
\* device, and the pipeline's as the present model reads them; a probe that fails, or a
\* disk that refuses, never costs the artifact that was there (calibrate).
ProbesHold ==
    case.kind = "probe" =>
        /\ case.result # Curves!None =>
              /\ case.disk # Curves!None
              /\ case.result.raw = case.asked[1]
              /\ case.disk.raw.device = case.asked[1][2]
              /\ case.tool = "pipeline" => case.result.revision = case.asked[2]
        /\ case.kept => case.disk # Curves!None

\* A measurement stands only for what it was taken of: kernels of the same choices and
\* resources, views of the same build, plans of the same launches, and probes of the
\* same program and device (stage_service_model.py, stage_composition.py,
\* stage_service_calibration.py, pipeline_schedule_model.py, schedule_cost_model.py).
ServicesHold == KernelsHold /\ SelectionHolds /\ ViewsHold /\ ReuseHolds /\ FloorsHold /\ DispatchHolds /\ ProbesHold
=============================================================================
