-------------------------- MODULE ServiceIdentity ---------------------------
(***************************************************************************)
(* Which measured kernel stands for which: the curve a kernel belongs to   *)
(* and the resources it may borrow (stage_service_model), the serial       *)
(* kernels that stand for the launches of a batch pipeline                 *)
(* (stage_composition), and the kernels of other plans that may be reused  *)
(* (stage_service_calibration).                                            *)
(*                                                                         *)
(* An omitted text is Unknown, an omitted number 0, an omitted list <<>>.  *)
(***************************************************************************)
EXTENDS ResidentAxes

Unknown == "unknown"

First(value, otherwise) == IF value # Unknown THEN value ELSE otherwise

-----------------------------------------------------------------------------
(* The curve of a kernel.  A sample is [workload, canonical, top, mapping]: top   *)
(* and mapping are the choices its columns and its mapping_json name.  A kernel is *)
(* [index, load, codelet, policy, resources, kernels].                            *)

PolicyAt(policies, index) == IF index < Len(policies) THEN policies[index + 1] ELSE "dynamic"

\* Mutant: the choices of the prefix are part of every kernel of the plan.
WholeState(sample, kernel) ==
    LET m == sample.mapping t == sample.top
    IN  [backend |-> First(t.backend, m.backend), core |-> First(t.core, m.core),
         prefix |-> <<First(m.codelet, "native"), First(m.layout, "linear"),
                      IF m.lanes = 0 THEN 1 ELSE m.lanes>>,
         policy |-> PolicyAt(m.policies, kernel.index)]

\* The choices that make the kernel what it is.  The columns of a sample count unless
\* its mapping is a resolved envelope; the axes of a prefix count for the prefix of a
\* register FFT, a policy for its own factor (_selected_mapping_state).
MappingState(sample, kernel) ==
    LET m == sample.mapping
        t == sample.top
        backend == IF sample.canonical THEN m.backend ELSE First(t.backend, m.backend)
        core == IF sample.canonical THEN m.core ELSE First(t.core, m.core)
        Axis(name) == IF sample.canonical THEN m[name] ELSE First(m[name], t[name])
        policies == IF sample.canonical \/ m.policies # <<>> THEN m.policies ELSE t.policies
        lanes == IF t.lanes # 0 THEN t.lanes ELSE m.lanes
    IN  [backend |-> backend, core |-> core,
         prefix |-> IF backend = "online-reorder" /\ core = "register-tile" /\ kernel.index = 0
                    THEN <<First(Axis("codelet"), "native"), First(Axis("layout"), "linear"),
                           IF lanes = 0 THEN 1 ELSE lanes>>
                    ELSE <<>>,
         policy |-> IF backend = "factor-streamed" THEN PolicyAt(policies, kernel.index) ELSE Unknown]

\* A descriptor that omits its strategy has the one its sample names (curve_key, _group_shape).
KernelShape(sample, kernel) ==
    LET m == sample.mapping
        t == sample.top
        backend == First(t.backend, m.backend)
        policies == IF t.policies # <<>> THEN t.policies ELSE m.policies
    IN  [index |-> kernel.index,
         codelet |-> First(kernel.codelet,
            IF backend = "online-reorder" /\ m.core = "register-tile" /\ kernel.index = 0
            THEN First(First(t.codelet, m.codelet), "native") ELSE "native"),
         policy |-> First(kernel.policy,
            IF backend = "factor-streamed" THEN PolicyAt(policies, kernel.index) ELSE "dynamic")]

\* Registers the compiler did not report are unknown, whatever number is there.
ResourceState(r) ==
    [r EXCEPT !.registers = IF "yes" \in {r.known, r.alias} THEN @ ELSE Unknown]

\* The kernels of a composite count one by one; only an explicit "no" erases
\* (_actual_kernel_state).
KernelStates(kernels) ==
    IF Len(kernels) <= 1 THEN <<>>
    ELSE [i \in DOMAIN kernels |->
            IF kernels[i].known = Unknown /\ kernels[i].alias = Unknown THEN kernels[i]
            ELSE ResourceState(kernels[i])]

RegimeKey(kernel) == [own |-> ResourceState(kernel.resources), kernels |-> KernelStates(kernel.kernels)]

ShapeKey(sample, kernel) ==
    [workload |-> sample.workload, mapping |-> MappingState(sample, kernel),
     shape |-> KernelShape(sample, kernel)]

CurveKey(sample, kernel) == [like |-> ShapeKey(sample, kernel), regime |-> RegimeKey(kernel)]

\* The fitted cost function a kernel belongs to: its mechanisms, whatever its size
\* (stage_cost_model, primitive_key).  A descriptor that omits an axis has the mapping's.
PrimitiveKey(sample, kernel) ==
    LET m == sample.mapping
        t == sample.top
        prefix == First(m.backend, t.backend) = "online-reorder" /\ kernel.index = 0
        policies == IF m.policies # <<>> THEN m.policies ELSE t.policies
        lanes == IF m.lanes # 0 THEN m.lanes ELSE t.lanes
    IN  [workload |-> sample.workload,
         codelet |-> First(kernel.codelet, IF prefix THEN First(First(m.codelet, t.codelet), "native") ELSE "native"),
         policy |-> First(kernel.policy,
            IF First(m.backend, t.backend) = "factor-streamed" THEN PolicyAt(policies, kernel.index) ELSE "dynamic"),
         lanes |-> IF prefix /\ m.core = "register-tile" /\ lanes > 1 THEN lanes ELSE 1]

\* The regimes measured for a shape, and the kernel with the resources of the only one
\* (resolve_resources).
RegimesOf(keys, like) == {k.regime : k \in {x \in keys : x.like = like}}

WithRegime(kernel, regime) ==
    [kernel EXCEPT
        !.resources = [f \in DOMAIN kernel.resources |-> First(regime.own[f], kernel.resources[f])],
        !.kernels = IF regime.kernels = <<>> THEN @ ELSE regime.kernels]

ResolveResources(sample, kernel, keys) ==
    LET regimes == RegimesOf(keys, ShapeKey(sample, kernel))
    IN  IF Cardinality(regimes) = 1 THEN WithRegime(kernel, CHOOSE r \in regimes : TRUE) ELSE kernel

\* What a profile says of a kernel: nothing for another device, no load, no curve or a
\* load beyond its hull (predict_group).  A curve is the set of its measured loads.
Covers(profile, sample, kernel) ==
    LET key == CurveKey(sample, kernel)
    IN  /\ sample.device \in {Unknown, profile.device}
        /\ kernel.load > 0
        /\ key \in DOMAIN profile.curves
        /\ \E low, high \in profile.curves[key] : low <= kernel.load /\ kernel.load <= high

\* As the cost of a plan asks it (stage_cost_model._predict_measured).
Predicted(profile, sample, kernel) ==
    Covers(profile, sample, ResolveResources(sample, kernel, DOMAIN profile.curves))

-----------------------------------------------------------------------------
(* The serial views of a batch pipeline.  A document is what describe answers:    *)
(* [status, batch, overlap, factorOverlap, mapping, backend, core, groups, runtime]; a group    *)
(* [shape, resources].                                                           *)

Answered(d) == d.status \in {"resolved", "measured"} /\ d.groups # <<>>

Supported(d) ==
    /\ d.backend # "factor-streamed" /\ ~d.factorOverlap
    /\ \/ d.backend = "shared-iterative" /\ Len(d.groups) >= 2
       \/ d.backend = "online-reorder" /\ Len(d.groups) = 2
          /\ d.core \in {"cufftdx-block", "register-tile"}

\* A view answers for the batch it was asked for, without overlap (_view_payload).
ViewHolds(d, batch) ==
    Answered(d) /\ d.batch \in {0, batch} /\ ~d.overlap /\ ~d.factorOverlap

\* Every view is the source, kernel by kernel, on the same build, with known
\* registers; what both know of a resource is the same (_check_identity).
SameKernels(source, runtime, views) ==
    LET Own(d, i) == ResourceState(d.groups[i].resources)
        Compatible(a, b) == \A f \in {"live", "registers"} : Unknown \in {a[f], b[f]} \/ a[f] = b[f]
        Same(d) == /\ d.runtime = runtime
                   /\ d.mapping = source.mapping
                   /\ Len(d.groups) = Len(source.groups)
                   /\ \A i \in DOMAIN source.groups :
                         /\ d.groups[i].shape = source.groups[i].shape
                         /\ Own(d, i).registers # Unknown
                         /\ Compatible(Own(source, i), Own(d, i))
    IN  /\ runtime # Unknown
        /\ \A i \in DOMAIN source.groups : source.groups[i].shape # Unknown
        /\ \A d \in views : Same(d)
        /\ \A d, e \in views : \A i \in DOMAIN source.groups, f \in {"live", "registers"} :
              Own(d, i)[f] = Own(e, i)[f]

Unresolved(status) == [status |-> status, tile |-> 0, tiles |-> 0, tailBatch |-> 0, full |-> <<>>, tail |-> <<>>]

\* resolve_batch_services: describe answers for the overlapped point and for a batch.
ResolveBatch(point, description, original, describe) ==
    LET tile == IF point.tile < point.batch THEN point.tile ELSE point.batch
        tail == point.batch % tile
        source == IF Answered(description) /\ description.overlap THEN description ELSE original
        runtime == First(description.runtime, source.runtime)
        batches == {tile} \cup ({tail} \ {0})
    IN  IF ~point.overlap THEN Unresolved("not-applicable")
        ELSE IF point.batch = 0 \/ point.tile = 0 \/ ~Answered(source) THEN Unresolved("unavailable")
        ELSE IF point.factorOverlap \/ ~Supported(source) THEN Unresolved("unsupported")
        ELSE IF /\ \A b \in batches : ViewHolds(describe[b], b)
                /\ SameKernels(source, runtime, {describe[b] : b \in batches})
        THEN [status |-> "resolved", tile |-> tile, tailBatch |-> tail,
              tiles |-> (point.batch + tile - 1) \div tile,
              full |-> describe[tile].groups,
              tail |-> IF tail = 0 THEN <<>> ELSE describe[tail].groups]
        ELSE Unresolved("unavailable")

-----------------------------------------------------------------------------
(* The kernels of a plan that other plans may reuse.  A plan is a mapping of       *)
(* ResidentAxes with [status, operator, overlap, tiled, batch, logN, kernels]; a     *)
(* kernel [first, stages, core, single, threads, ept, batchSpace, units, chunk, work, grid].  *)

\* The columns of a register prefix, 0 when its launch has no rectangular shape.
PrefixUnits(m, kernel) ==
    LET split == m.parts # <<>> /\ m.parts[1] # <<>>
        a == 2^LogA(m, kernel.stages)
        b == 2^LogB(m, kernel.stages)
        product == kernel.threads * kernel.ept
        columns == product \div 2^kernel.stages
    IN  IF /\ IF split THEN Len(m.parts[1]) = 2 /\ Total(m.parts[1]) = kernel.stages
              ELSE kernel.stages % 2 = 0
           /\ PowerOfTwo(m.lanes) /\ m.lanes <= a
           /\ kernel.threads \in 1..1024
           /\ kernel.ept = a \div m.lanes /\ kernel.ept <= b
           /\ product % 2^kernel.stages = 0 /\ PowerOfTwo(columns)
           /\ m.lanes * columns <= 32 /\ (b \div kernel.ept) * columns <= 32
        THEN columns ELSE 0

\* The transforms of a kernel's stages that a CTA does, 0 when that is no number.
UnitsOf(m, kernel, position) ==
    LET product == kernel.threads * kernel.ept
    IN  IF m.core = "register-tile" /\ position = 0
        THEN IF kernel.threads = m.threads /\ kernel.ept = m.ept THEN PrefixUnits(m, kernel) ELSE 0
        ELSE IF product % 2^kernel.stages = 0 THEN product \div 2^kernel.stages ELSE 0

\* Two kernels, a single launch each, that cover the stages one after the other.
TwoKernels(p) ==
    /\ Len(p.kernels) = 2
    /\ \A i \in 1..2 : p.kernels[i].single /\ p.kernels[i].stages > 0
    /\ \E i \in 1..2 : /\ p.kernels[i].first = 0
                       /\ p.kernels[3 - i].first = p.kernels[i].stages
                       /\ p.kernels[1].stages + p.kernels[2].stages = p.logN

\* Kernel k of an online FFT is a launch of exactly the CTAs its shape implies
\* (_online_service_signature).
OnlineReusable(p, k) ==
    LET m == p.mapping
        position == IF k.first = 0 THEN 0 ELSE 1
        transforms == p.batch * 2^(p.logN - k.stages)
        units == UnitsOf(m, k, position)
        exact == transforms % units = 0
        load == (transforms + units - 1) \div units
    IN  /\ p.status = "resolved" /\ p.operator = "fft"
        /\ m.core \in {"cufftdx-block", "register-tile"}
        /\ m.core # "register-tile" => m.lanes = 1
        /\ ~p.overlap /\ ~p.tiled /\ p.batch > 0
        /\ TwoKernels(p)
        /\ k.core = IF m.core = "register-tile" /\ position = 0 THEN "register-tile" ELSE "cufftdx-block"
        /\ k.batchSpace = 1
        /\ m.core = "register-tile" /\ (m.parts # <<>> \/ m.chunks # <<>>) =>
              /\ RegisterLegal(m, p.logN, IF p.kernels[1].first = 0 THEN p.kernels[1].stages
                                          ELSE p.kernels[2].stages)
              /\ k.chunk = IF position = 1 /\ m.chunks # <<>> THEN m.chunks[2] ELSE 0
        /\ units > 0
        /\ k.units \in {0, units}
        /\ m.core = "register-tile" => exact
        /\ k.work = load /\ k.grid = load

\* A shared kernel: a CTA per transform of its stages (_shared_service_signature).
SharedReusable(p, k) ==
    LET load == p.batch * 2^(p.logN - k.stages)
    IN  /\ p.status = "resolved" /\ k.single /\ k.batchSpace = 1
        /\ k.stages \in 1..p.logN /\ p.batch > 0
        /\ k.work = load /\ k.grid = load

Reusable(p, k) ==
    IF p.mapping.backend = "online-reorder" THEN OnlineReusable(p, k)
    ELSE p.mapping.backend = "shared-iterative" /\ SharedReusable(p, k)
=============================================================================
