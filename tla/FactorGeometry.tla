--------------------------- MODULE FactorGeometry ---------------------------
(***************************************************************************)
(* The digit rotations of the factor-streamed FFT and their dependency-    *)
(* closed slices.  Group g transforms Factors[g + 1] bits: it reads rows   *)
(* Independent apart and writes them behind the digits already processed.  *)
(* A slice of a group is a periodic range of tiles, chosen by              *)
(* factor_tile_range so that it holds part of the last, unprocessed digit. *)
(***************************************************************************)
EXTENDS Naturals, Sequences

CONSTANTS
    Factors,     \* factor_partition: the log2 size of each physical factor
    Columns,     \* factor_columns: transforms of a tile
    Slices,      \* factor_slices
    Batch

Groups == Len(Factors)
Group == 0 .. Groups - 1
Last == Groups - 1
Slice == 0 .. Slices - 1

\* The bits processed before a group; all of them are log_n.
done[g \in 0 .. Groups] == IF g = 0 THEN 0 ELSE done[g - 1] + Factors[g]

N == 2^done[Groups]
F(g) == 2^Factors[g + 1]
P(g) == 2^done[g]
Independent(g) == N \div F(g)

\* What normalize_factor_mapping accepts of a plan in slices; assumed by the module
\* that chooses the plans.
ValidFactors ==
    /\ Factors \in Seq(1 .. 14) /\ Groups >= 2 /\ done[Groups] <= 30
    /\ \E c \in 0 .. 4 : Columns = 2^c
    /\ \E s \in 1 .. 14 : Slices = 2^s
    /\ Slices <= 2^Factors[Groups] \div Columns
    /\ \A g \in Group : Columns <= Independent(g) /\ (g > 0 => Columns <= P(g))
    /\ Batch \in Nat \ {0}

Tiles(g) == (Batch * Independent(g)) \div Columns

\* factor_tile_range.
TileRange(g, slice) ==
    LET period == (F(Last) * P(g)) \div Columns
        span == period \div Slices
    IN  IF g = Last
        THEN [first |-> 0, count |-> Tiles(g), period |-> Tiles(g), span |-> Tiles(g)]
        ELSE [first |-> span * slice, count |-> Tiles(g) \div Slices, period |-> period, span |-> span]

\* physical_tile.
PhysicalTile(i, r) == r.first + (i \div r.span) * r.period + (i % r.span)

\* The local transforms of a launch.
Transforms(g, slice) ==
    LET r == TileRange(g, slice)
    IN  {PhysicalTile(i, r) * Columns + col : i \in 0 .. r.count - 1, col \in 0 .. Columns - 1}

\* What a local transform loads and stores.
Base(g, t) == (t \div Independent(g)) * N

Loads(g, t) ==
    {Base(g, t) + row * Independent(g) + (t % Independent(g)) : row \in 0 .. F(g) - 1}

Stores(g, t) ==
    LET k == t % Independent(g)
    IN  {Base(g, t) + ((k \div P(g)) * F(g) + row) * P(g) + (k % P(g)) : row \in 0 .. F(g) - 1}

\* What a launch loads and stores.
Reads == [g \in Group |-> [slice \in Slice |-> UNION {Loads(g, t) : t \in Transforms(g, slice)}]]

Writes == [g \in Group |-> [slice \in Slice |-> UNION {Stores(g, t) : t \in Transforms(g, slice)}]]

Address == 0 .. Batch * N - 1

\* The plan that FactorPipeline runs.
Plan(mayFail) ==
    [groups |-> Groups, slices |-> Slices, addresses |-> Address, reads |-> Reads,
     writes |-> Writes, mayFail |-> mayFail]

\* What a prover has to be told about powers of two.
Powers ==
    \A j \in 0 .. 30 :
        /\ 2^j \in Nat \ {0}
        /\ \A i \in 0 .. j : 2^j = 2^i * 2^(j - i)
        /\ \A i \in 0 .. j - 1 : 2^i < 2^j
=============================================================================
