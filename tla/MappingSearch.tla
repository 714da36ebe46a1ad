--------------------------- MODULE MappingSearch ----------------------------
(***************************************************************************)
(* evolutionary_search: the neighbours of a mapping, each one edit away,   *)
(* and the next candidates a search measures.  A point is the workload:    *)
(* logN and batch.  A mapping is a record (see ResidentAxes) with its      *)
(* stages, the policy of every boundary between them, the factors of a     *)
(* factor-streamed mapping and their I/O policies; derived descriptors,    *)
(* which every edit drops, are left out, and the enumerated axes no rule   *)
(* ties to another are one, twiddle.                                       *)
(***************************************************************************)
EXTENDS ResidentAxes, FiniteSets

MaxNeighbors == 64

Optional(condition, m) == IF condition THEN <<m>> ELSE <<>>
Concat(n, Part(_)) == IF n < 1 THEN <<>> ELSE FlattenSeq([i \in 1..n |-> Part(i)])
Distinct(s) == FoldLeft(LAMBDA kept, x : IF Contains(kept, x) THEN kept ELSE Append(kept, x), <<>>, s)
AtMost(s, n) == IF Len(s) <= n THEN s ELSE SubSeq(s, 1, n)
Least(a, b) == IF a < b THEN a ELSE b

\* s with the k entries from i on replaced.
Spliced(s, i, k, entries) == SubSeq(s, 1, i - 1) \o entries \o SubSeq(s, i + k, Len(s))

\* _macro_endpoints
Cuts(partition) == {Total(SubSeq(partition, 1, i)) : i \in 1..(Len(partition) - 1)}

RegisterTile(m) == m.backend = "online-reorder" /\ m.core = "register-tile"

-----------------------------------------------------------------------------
(* Edits of a partition *)

Splits(p) == Concat(Len(p), LAMBDA i :
    Optional(p[i] >= 2, [kind |-> "split", at |-> i,
                         to |-> Spliced(p, i, 1, <<p[i] \div 2, p[i] - p[i] \div 2>>)]))

Merges(p) == Concat(Len(p) - 1, LAMBDA i :
    <<[kind |-> "merge", at |-> i, to |-> Spliced(p, i, 2, <<p[i] + p[i + 1]>>)]>>)

Moves(p) == Concat(Len(p) - 1, LAMBDA i :
    Optional(p[i] > 1, [kind |-> "move", at |-> i,
                        to |-> Spliced(p, i, 2, <<p[i] - 1, p[i + 1] + 1>>)])
    \o Optional(p[i + 1] > 1, [kind |-> "move", at |-> i,
                               to |-> Spliced(p, i, 2, <<p[i] + 1, p[i + 1] - 1>>)]))

\* _resize_boundary_policy: the policy every boundary of the edited partition has.
Resized(entries, old, edit) ==
    LET last == Least(Len(entries), Len(old) - 1)
        Source(b) == CASE edit.kind = "split" /\ b > edit.at -> b - 1
                       [] edit.kind = "merge" /\ b >= edit.at -> b + 1
                       [] OTHER -> b
    IN  IF last = 0 THEN <<>>
        ELSE [b \in 1..(Len(edit.to) - 1) |-> entries[Least(Source(b), last)]]

-----------------------------------------------------------------------------
(* Stages *)

\* The lanes a register prefix of the given radius may have with its columns.
LegalLanes(radius, columns) ==
    {lanes \in {2^e : e \in 0..6} : /\ lanes <= radius
                                    /\ lanes > 1 => lanes * columns <= 32
                                    /\ radius * lanes * columns <= 1024}

\* _revalidate_register_prefix_geometry: m is the edited mapping, parent the one
\* it was made from.
Revalidated(m, parent, logN) ==
    LET legal == LegalLanes(2^(m.stages[1] \div 2), PrefixColumns(parent, parent.stages[1]))
        lanes == IF parent.lanes \in legal THEN parent.lanes
                 ELSE CHOOSE l \in legal : l <= parent.lanes
                         /\ \A k \in legal : k <= parent.lanes => k <= l
        radius == 2^(m.stages[1] \div 2)
    IN  IF /\ RegisterTile(m) /\ Len(m.stages) = 2
           /\ RegisterLegal(parent, logN, parent.local) /\ legal # {}
        THEN [m EXCEPT !.lanes = lanes, !.ept = radius \div lanes,
                       !.threads = radius * lanes * PrefixColumns(parent, parent.stages[1])]
        ELSE m

\* Mutant: the factors survive an edit of the stages.
StructuralKeepingFactors(m, logN, edit) ==
    Revalidated([m EXCEPT !.stages = edit.to, !.boundaries = Resized(m.boundaries, m.stages, edit)],
                m, logN)

\* _structural_mapping
Structural(m, logN, edit) ==
    Revalidated([m EXCEPT !.stages = edit.to, !.boundaries = Resized(m.boundaries, m.stages, edit),
                          !.factors = IF m.backend = "factor-streamed" THEN <<>> ELSE @],
                m, logN)

\* _stage_neighbors
StageEdits(p) == Splits(p) \o Merges(p) \o Moves(p)

StageNeighbors(m, logN) ==
    LET edits == StageEdits(m.stages) IN [i \in DOMAIN edits |-> Structural(m, logN, edits[i])]

-----------------------------------------------------------------------------
(* Factors *)

\* _factor_legal
FactorLegal(core, factors, stages, logN) ==
    /\ Total(factors) = logN
    /\ Cuts(stages) \subseteq Cuts(factors)
    /\ core = "register-tile" => \A i \in DOMAIN factors : factors[i] = factors[1]
                                                          /\ factors[i] % 2 = 0

\* Mutant: the boundary looked at is the one after the pair.
FactorEditsShifted(factors, stages) ==
    LET Free(edit) == Total(SubSeq(factors, 1, edit.at + 1)) \notin Cuts(stages)
    IN  Splits(factors) \o SelectSeq(Merges(factors) \o Moves(factors), Free)

\* A factor boundary may be removed or moved unless it is one of the stages.
FactorEdits(factors, stages) ==
    LET Free(edit) == Total(SubSeq(factors, 1, edit.at)) \notin Cuts(stages)
    IN  Splits(factors) \o SelectSeq(Merges(factors) \o Moves(factors), Free)

\* Equal factors, one or two fewer or more of them.
NativeCounts(factors) ==
    LET count == Len(factors) IN
    IF \E i \in DOMAIN factors : factors[i] # factors[1] THEN <<>>
    ELSE SelectSeq(<<count - 2, count - 1, count + 1, count + 2>>,
                   LAMBDA c : c >= 1 /\ Total(factors) % c = 0)

\* _factor_neighbors
FactorNeighbors(m, logN) ==
    LET legal == SelectSeq([i \in DOMAIN FactorEdits(m.factors, m.stages) |->
                                FactorEdits(m.factors, m.stages)[i].to],
                           LAMBDA f : FactorLegal(m.core, f, m.stages, logN))
        counts == IF m.core # "register-tile" THEN <<>> ELSE NativeCounts(m.factors)
        Equal(c) == [i \in 1..c |-> logN \div c]
    IN  [i \in DOMAIN legal |-> [m EXCEPT !.factors = legal[i]]]
        \o Concat(Len(counts), LAMBDA i :
              Optional(FactorLegal(m.core, Equal(counts[i]), m.stages, logN),
                       [m EXCEPT !.factors = Equal(counts[i]),
                                 !.factorEpt = 2^(Equal(counts[i])[1] \div 2)]))

\* _factor_io_policy_neighbors: every policy is dynamic until one is named.
PolicyNeighbors(m) ==
    LET current == IF m.policies = <<>> THEN [i \in DOMAIN m.factors |-> "dynamic"] ELSE m.policies
    IN  IF Len(current) # Len(m.factors) THEN <<>>
        ELSE [i \in DOMAIN current |->
                 [m EXCEPT !.policies = [current EXCEPT ![i] =
                     IF @ = "dynamic" THEN "static-unrolled" ELSE "dynamic"]]]

\* _factor_partition: the named factors, if they fit the stages.
Factored(m, logN) ==
    /\ m.backend = "factor-streamed" /\ m.factors # <<>>
    /\ Total(m.factors) = logN /\ Cuts(m.stages) \subseteq Cuts(m.factors)

-----------------------------------------------------------------------------
(* Resident axes *)

\* The edits of a unit partition that keep its units within five stages.
UnitSplits(entry) == Concat(Len(entry), LAMBDA i : [cut \in 1..(entry[i] - 1) |->
    Spliced(entry, i, 1, <<cut, entry[i] - cut>>)])

UnitMerges(entry) == Concat(Len(entry) - 1, LAMBDA i :
    Optional(entry[i] + entry[i + 1] <= 5, Spliced(entry, i, 2, <<entry[i] + entry[i + 1]>>)))

UnitMoves(entry) == Concat(Len(entry) - 1, LAMBDA i :
    Optional(entry[i] > 1 /\ entry[i + 1] < 5,
             Spliced(entry, i, 2, <<entry[i] - 1, entry[i + 1] + 1>>))
    \o Optional(entry[i + 1] > 1 /\ entry[i] < 5,
                Spliced(entry, i, 2, <<entry[i] + 1, entry[i + 1] - 1>>)))

\* _resident_partition_neighbors: at most eight of each kind of edit.
UnitEdits(entry) ==
    AtMost(UnitSplits(entry), 8) \o AtMost(UnitMerges(entry), 8) \o AtMost(UnitMoves(entry), 8)

\* _resident_axis_neighbors of a shared-iterative mapping: the seed, then one
\* group at a time, then no resident axis at all.
SharedNeighbors(m) ==
    LET groups == Physical(m)
        opaque == [i \in DOMAIN groups |-> <<>>]
        named == IF m.parts = <<>> THEN opaque ELSE m.parts
        seeded == named = opaque
        base == IF seeded THEN Seed(groups) ELSE named
        proposals ==
            Optional(seeded, base)
            \o Concat(Len(groups), LAMBDA i :
                  Optional(base[i] = <<>>, [base EXCEPT ![i] = Seed(<<groups[i]>>)[1]]))
            \o Concat(Len(groups), LAMBDA i :
                  [k \in DOMAIN UnitEdits(base[i]) |-> [base EXCEPT ![i] = UnitEdits(base[i])[k]]])
            \o <<opaque>>
    IN  [k \in DOMAIN proposals |->
            [m EXCEPT !.parts = proposals[k],
                      !.chunks = IF @ = <<>> THEN [i \in DOMAIN groups |-> 0] ELSE @]]

\* The factors of the prefix worth trying, the parent's first.
PrefixFactors(current, local) ==
    SelectSeq(Distinct(<<current, current - 1, current + 1, local \div 2, 1, local - 1>>
                       \o (IF local <= 11 THEN [a \in 1..(local - 1) |-> a] ELSE <<>>)),
              LAMBDA a : a \in 1..(local - 1))

\* The launches of a factor: elements per thread near the parent's, then fewer
\* and fewer columns.
PrefixLaunches(m, local, logA) ==
    LET logB == local - logA
        columns == PrefixColumns(m, local)
        near == CHOOSE e \in 0..12 : 2^e = m.ept
        epts == SelectSeq(Distinct(Concat(13, LAMBDA d : <<near + d - 1, near - d + 1>>)),
                          LAMBDA e : e \in 0..Least(logA, logB))
        halvings == SelectSeq([h \in 1..11 |-> columns \div 2^(h - 1)], LAMBDA c : c > 0)
    IN  Concat(Len(epts), LAMBDA e : Concat(Len(halvings), LAMBDA h :
            Optional((2^local * halvings[h]) \div 2^epts[e] \in 32..1024,
                     [m EXCEPT !.parts = <<<<logA, logB>>, <<>>>>, !.ept = 2^epts[e],
                               !.threads = (2^local * halvings[h]) \div 2^epts[e],
                               !.lanes = 2^logA \div 2^epts[e]])))

\* _resident_axis_neighbors of a register mapping: the first legal launch of every
\* factor, and the chunks of the suffix's exchange.
RegisterNeighbors(m, logN) ==
    LET local == m.local
        factors == PrefixFactors(LogA(m, local), local)
        Legal(a) == SelectSeq(PrefixLaunches(m, local, a), LAMBDA l : RegisterLegal(l, logN, local))
        current == IF m.chunks = <<>> THEN 0 ELSE m.chunks[2]
        chunks == SelectSeq(<<0, 1, 2, 4, 8, 16, 32>>, LAMBDA c :
                      /\ c # current /\ (c # 0 => c <= m.suffixEpt /\ m.suffixEpt % c = 0)
                      /\ SuffixColumns(m, logN - local) > 1)
    IN  Concat(Len(factors), LAMBDA i : AtMost(Legal(factors[i]), 1))
        \o [i \in DOMAIN chunks |-> [m EXCEPT !.chunks = <<0, chunks[i]>>]]

\* _prefix_lane_neighbors: other lanes, the same columns.
LaneNeighbors(m) ==
    LET local == m.local
        a == 2^LogA(m, local)
        columns == PrefixColumns(m, local)
        lanes == SelectSeq([e \in 1..(LogA(m, local) + 1) |-> 2^(e - 1)], LAMBDA l :
                     l # m.lanes /\ l \in LegalLanes(a, columns))
    IN  [i \in DOMAIN lanes |-> [m EXCEPT !.lanes = lanes[i], !.ept = a \div lanes[i],
                                         !.threads = a * lanes[i] * columns]]

-----------------------------------------------------------------------------
(* The neighbours *)

\* The values _numeric_values offers for an axis, in order.  Launch axes have
\* listed choices; a stage axis also has the values next to the current one.
NumericValues(field, current, point) ==
    LET powers(low, count) == [i \in 1..count |-> low * 2^(i - 1)]
        choices == CASE field \in {"tileThreads", "threads", "suffixThreads"} -> powers(32, 6)
                     [] field \in {"ept", "suffixEpt", "factorEpt"} -> powers(1, 7)
                     [] field \in {"prefetch", "slices", "batchTiles"} -> <<0>> \o powers(1, 6)
                     [] field = "local" -> <<current - 1, current + 1, current \div 2, current * 2>>
                                           \o [i \in 1..Least(point.logN, 32) |-> i]
        Legal(v) == /\ v # current
                    /\ field = "prefetch" \/ v >= 1
                    /\ field = "prefetch" => v <= 8
                    /\ field = "local" => v <= point.logN
                    /\ field = "batchTiles" => v <= point.batch
    IN  Distinct(SelectSeq(choices, Legal))

NumericOrder == <<"tileThreads", "threads", "suffixThreads", "ept", "suffixEpt", "factorEpt",
                  "local", "prefetch", "slices", "batchTiles">>

\* The first three values of every axis the mapping names, unless a geometry ties
\* the axis to another one.
NumericNeighbors(m, point) ==
    LET fields == SelectSeq(NumericOrder, LAMBDA f :
                      f \in m.named /\ ~(RegisterTile(m) /\ f \in {"threads", "ept"}))
        Fits(f, v) == f = "factorEpt" /\ Factored(m, point.logN) /\ m.core = "register-tile"
                         => v = 2^(m.factors[1] \div 2)
    IN  Concat(Len(fields), LAMBDA i :
            LET f == fields[i]
                values == SelectSeq(AtMost(NumericValues(f, m[f], point), 3), LAMBDA v : Fits(f, v))
            IN  [k \in DOMAIN values |-> [m EXCEPT ![f] = values[k]]])

CoreChoices(backend) ==
    CASE backend = "online-reorder"  -> <<"cufftdx-block", "cufftdx-resident", "register-tile">>
      [] backend = "factor-streamed" -> <<"cufftdx-block", "register-tile">>
      [] OTHER -> <<"scalar">>

\* A new core for a named factorisation must be able to run it.
CoreNeighbors(m, point) ==
    LET factored == Factored(m, point.logN)
        cores == SelectSeq(CoreChoices(m.backend), LAMBDA c :
                     c # m.core /\ (factored => FactorLegal(c, m.factors, m.stages, point.logN)))
    IN  [i \in DOMAIN cores |->
            [m EXCEPT !.core = cores[i],
                      !.factorEpt = IF cores[i] = "register-tile" /\ factored
                                    THEN 2^(m.factors[1] \div 2) ELSE @]]

EnumNeighbors(m, point) ==
    CoreNeighbors(m, point)
    \o <<[m EXCEPT !.twiddle = IF @ = "table" THEN "recurrence" ELSE "table"]>>

PrefixNeighbors(m, point) ==
    Optional(m.codelet = "cufftdx-thread" \/ ~point.fp64,
             [m EXCEPT !.codelet = IF @ = "native" THEN "cufftdx-thread" ELSE "native"])
    \o <<[m EXCEPT !.layout = IF @ = "linear" THEN "xor" ELSE "linear"]>>

OverlapNeighbors(m, point) ==
    Optional(Len(m.stages) >= 2 /\ point.batch >= 2, [m EXCEPT !.overlap = ~@])
    \o Optional(m.backend = "factor-streamed", [m EXCEPT !.factorOverlap = ~@])

\* _strategy_candidates, _structural_candidates
StrategyNeighbors(m, point) ==
    CASE m.backend = "shared-iterative" -> SharedNeighbors(m)
      [] RegisterTile(m) ->
            (IF RegisterLegal(m, point.logN, m.local)
             THEN RegisterNeighbors(m, point.logN) \o LaneNeighbors(m) ELSE <<>>)
            \o PrefixNeighbors(m, point)
      [] Factored(m, point.logN) -> PolicyNeighbors(m)
      [] OTHER -> <<>>

StructuralNeighbors(m, point) ==
    StageNeighbors(m, point.logN)
    \o (IF Factored(m, point.logN) THEN FactorNeighbors(m, point.logN) ELSE <<>>)

\* What _append_candidate accepts.
Proposable(m, point) ==
    CASE m.backend = "shared-iterative" -> SharedLegal(m)
      [] RegisterTile(m) -> RegisterLegal(m, point.logN, m.stages[1])
      [] OTHER -> ~Requested(m)

\* neighbors
Neighbors(m, point) ==
    AtMost(Distinct(SelectSeq(StrategyNeighbors(m, point) \o StructuralNeighbors(m, point)
                              \o NumericNeighbors(m, point) \o EnumNeighbors(m, point)
                              \o OverlapNeighbors(m, point),
                              LAMBDA n : Proposable(n, point))),
           MaxNeighbors)

-----------------------------------------------------------------------------
(* The candidates of a round: evolutionary_candidates *)

\* The winners and the seeds a round starts from.
SourceCount(n, limit) ==
    LET quarter == IF limit \div 4 = 0 THEN 1 ELSE limit \div 4
        wanted == Least(8, quarter)
    IN  Least(n, IF wanted < 2 THEN 2 ELSE wanted)

\* The inventory by the model's score, ties by identity.
Ranked(inventory, score) ==
    SetToSortSeq(inventory, LAMBDA a, b : score[a] < score[b] \/ (score[a] = score[b] /\ a < b))

\* A winner offers its neighbours, a seed itself first.
Streams(population, ranked, limit, neighborsOf) ==
    [i \in 1..SourceCount(Len(population), limit) |-> neighborsOf[population[i]]]
    \o [i \in 1..SourceCount(Len(ranked), limit) |-> <<ranked[i]>> \o neighborsOf[ranked[i]]]

\* The first candidate of every source that is of a new family.
FamilyPass(streams, taken, family) ==
    LET Fresh(chosen, s) == SelectSeq(s, LAMBDA c :
            /\ c \notin taken /\ ~Contains(chosen, c)
            /\ \A i \in DOMAIN chosen : family[chosen[i]] # family[c])
    IN  FoldLeft(LAMBDA chosen, s : chosen \o AtMost(Fresh(chosen, s), 1), <<>>, streams)

\* The candidates of the sources in turn.
RoundRobin(streams) ==
    LET longest == FoldLeft(LAMBDA n, s : IF Len(s) > n THEN Len(s) ELSE n, 0, streams)
    IN  Concat(longest, LAMBDA p : Concat(Len(streams), LAMBDA s :
            IF p <= Len(streams[s]) THEN <<streams[s][p]>> ELSE <<>>))

Candidates(population, inventory, score, measured, limit, neighborsOf, family) ==
    LET streams == Streams(population, Ranked(inventory, score), limit, neighborsOf)
        taken == measured \cup {population[i] : i \in DOMAIN population}
    IN  AtMost(Distinct(FamilyPass(streams, taken, family)
                        \o SelectSeq(RoundRobin(streams), LAMBDA c : c \notin taken)), limit)
=============================================================================
