---------------------------- MODULE ResidentAxes ----------------------------
(***************************************************************************)
(* resident_mapping: the axes of a mapping that keep data in registers     *)
(* between stages, the geometry of the register FFT they imply, and which  *)
(* mappings are legal.  A mapping is a record; an omitted list is <<>>,    *)
(* and the lanes of a prefix that names none are 1.                        *)
(***************************************************************************)
EXTENDS Integers, SequencesExt

PowerOfTwo(v) == \E b \in 0..20 : v = 2^b
Total(partition) == FoldSeq(LAMBDA x, y : x + y, 0, partition)

\* normalize_axes, resident_requested
Requested(m) == \/ \E i \in DOMAIN m.parts : m.parts[i] # <<>>
                \/ \E i \in DOMAIN m.chunks : m.chunks[i] # 0

\* The groups of stages that end where the last one and some others do.
Joined(stages, open) ==
    LET ends == open \cup {Len(stages)}
        End(k) == CHOOSE i \in ends : Cardinality({j \in ends : j <= i}) = k
        Start(k) == IF k = 1 THEN 1 ELSE End(k - 1) + 1
    IN  [k \in 1..Cardinality(ends) |-> Total(SubSeq(stages, Start(k), End(k)))]

\* Adjacent stages joined by a fused boundary are one physical group
\* (research_compile_requests._shared_partition).
Physical(m) ==
    IF m.backend # "shared-iterative" \/ m.boundaries = <<>> THEN m.stages
    ELSE Joined(m.stages, {i \in DOMAIN m.boundaries : m.boundaries[i] # "fused"})

\* validate_resident_axes for a shared-iterative mapping.
SharedLegal(m) ==
    LET groups == Physical(m) IN
    /\ m.parts # <<>> => Len(m.parts) = Len(groups)
    /\ \A i \in DOMAIN m.chunks : m.chunks[i] = 0
    /\ m.chunks # <<>> => Len(m.chunks) = Len(groups)
    /\ \A i \in DOMAIN m.parts : m.parts[i] # <<>> =>
          /\ \A j \in DOMAIN m.parts[i] : m.parts[i][j] \in 1..5
          /\ Total(m.parts[i]) = groups[i]

\* _register_logs: the two factors of the prefix, in bits.
LogA(m, local) == IF m.parts = <<>> \/ m.parts[1] = <<>> THEN local \div 2 ELSE m.parts[1][1]
LogB(m, local) == local - LogA(m, local)

RegisterLogsLegal(m, local) ==
    /\ m.parts # <<>> => Len(m.parts) = 2 /\ m.parts[2] = <<>>
    /\ IF m.parts = <<>> \/ m.parts[1] = <<>> THEN local % 2 = 0
       ELSE Len(m.parts[1]) = 2 /\ m.parts[1][1] > 0 /\ m.parts[1][2] > 0
            /\ Total(m.parts[1]) = local

PrefixColumns(m, local) == (m.threads * m.ept) \div 2^local
SuffixColumns(m, suffix) == (m.suffixThreads * m.suffixEpt) \div 2^suffix

PrefixLegal(m, local, suffix) ==
    LET a == 2^LogA(m, local) b == 2^LogB(m, local) columns == PrefixColumns(m, local) IN
    /\ PowerOfTwo(m.lanes) /\ m.lanes <= a
    /\ m.ept = a \div m.lanes /\ m.ept <= b
    /\ m.threads <= 1024 /\ (m.threads * m.ept) % 2^local = 0
    /\ PowerOfTwo(columns) /\ columns <= 2^suffix
    /\ m.lanes > 1 => m.lanes * columns <= 32
    /\ b > m.ept => (b \div m.ept) * columns <= 32

SuffixLegal(m, local, suffix) ==
    LET columns == SuffixColumns(m, suffix)
        chunk == IF m.chunks = <<>> THEN 0 ELSE m.chunks[2]
    IN  /\ PowerOfTwo(m.suffixEpt) /\ m.suffixEpt <= 2^suffix
        /\ (m.suffixThreads * m.suffixEpt) % 2^suffix = 0
        /\ PowerOfTwo(columns) /\ columns <= 16 /\ columns <= 2^local
        /\ chunk # 0 => columns > 1 /\ PowerOfTwo(chunk) /\ m.suffixEpt % chunk = 0

\* register_geometry
RegisterLegal(m, logN, local) ==
    LET suffix == logN - local IN
    /\ local \in 2..12 /\ suffix \in 3..14 /\ logN <= 26
    /\ Len(m.stages) = 2 /\ m.stages[1] = local
    /\ m.chunks # <<>> => Len(m.chunks) = 2 /\ m.chunks[1] = 0
    /\ RegisterLogsLegal(m, local)
    /\ PrefixLegal(m, local, suffix) /\ SuffixLegal(m, local, suffix)

\* resident_partition_seed: units of five stages, the last one shorter.
Seed(groups) ==
    [i \in DOMAIN groups |->
        [j \in 1..((groups[i] + 4) \div 5) |->
            IF 5 * j <= groups[i] THEN 5 ELSE groups[i] - 5 * (j - 1)]]
=============================================================================
