------------------------- MODULE StreamingGeometry --------------------------
(***************************************************************************)
(* The index arithmetic of the generic hierarchical streaming NTT          *)
(* (src/ntt.cu, hierarchical_streaming_kernel and the descriptor that      *)
(* launch_hierarchical_streaming builds for it).                           *)
(*                                                                         *)
(* A transform of n elements is factored into Count segments.  The code    *)
(* keeps base-2 logarithms and shifts and masks with them; this module     *)
(* keeps the sizes themselves, so a shift is \div, a mask is % and an OR   *)
(* of disjoint digits is a sum.                                            *)
(***************************************************************************)
EXTENDS Integers

CONSTANTS
    N,           \* n = 2^log_n, the elements of a transform
    Count,       \* descriptor.count, the number of segments
    SegmentN,    \* segment_n   = 2^segment_log,   per segment
    PrefixN,     \* prefix_n    = 2^prefix_log,    per segment
    RemainingN   \* remaining_n = 2^remaining_log, per segment

Segment == 0 .. Count - 1

\* An edge (boundary) e carries the results of segment e to segment e + 1.
Edge == 0 .. Count - 2

ASSUME GeometryAssumption ==
    /\ N \in Nat \ {0}
    /\ Count \in Nat \ {0}
    /\ SegmentN \in [Segment -> Nat \ {0}]
    /\ PrefixN \in [Segment -> Nat \ {0}]
    /\ RemainingN \in [Segment -> Nat \ {0}]
    /\ PrefixN[0] = 1
    /\ \A e \in Edge : PrefixN[e + 1] = PrefixN[e] * SegmentN[e]
    /\ \A s \in Segment : (PrefixN[s] * SegmentN[s]) * RemainingN[s] = N
    /\ RemainingN[Count - 1] = 1

Element == 0 .. N - 1

\* tasks_per_transform: one task transforms segment_n elements.
TaskCount(s) == PrefixN[s] * RemainingN[s]

Task(s) == 0 .. TaskCount(s) - 1

\* The logical position of element i of task k, used for the load and for the
\* store of the same task alike.
Address(s, k, i) ==
    LET prefix    == k \div RemainingN[s]
        remainder == k % RemainingN[s]
    IN  (prefix * SegmentN[s] + i) * RemainingN[s] + remainder

\* The task of segment s that writes logical position x: the consumer derives
\* the readiness token it polls (producer_within) from the address it loads.
ProducerWithin(s, x) ==
    LET producer_prefix    == x \div (SegmentN[s] * RemainingN[s])
        producer_remainder == x % RemainingN[s]
    IN  producer_prefix * RemainingN[s] + producer_remainder

\* Full-scratch edges count readiness per wave of consumer tasks.
WaveCount(e) == PrefixN[e] * RemainingN[e + 1]

\* The wave whose counter consumer task k of segment e + 1 polls ...
ConsumerWave(e, k) ==
    LET prefix    == k \div RemainingN[e + 1]
        remainder == k % RemainingN[e + 1]
    IN  (prefix \div SegmentN[e]) * RemainingN[e + 1] + remainder

\* Mutant: the remainder is not reduced to the consumer's range.
ProducerWaveUnmasked(e, k) ==
    LET prefix    == k \div RemainingN[e]
        remainder == k % RemainingN[e]
    IN  prefix * RemainingN[e + 1] + remainder

\* ... and the wave whose counter producer task k of segment e increments.
ProducerWave(e, k) ==
    LET prefix    == k \div RemainingN[e]
        remainder == k % RemainingN[e]
    IN  prefix * RemainingN[e + 1] + (remainder % RemainingN[e + 1])

\* Mutant: a digit is masked before it is shifted down.
OutputAddressMaskFirst(x) ==
    LET reordered[s \in 0 .. Count] ==
            IF s = 0
            THEN 0
            ELSE reordered[s - 1]
                 + ((x % SegmentN[s - 1]) \div RemainingN[s - 1]) * PrefixN[s - 1]
    IN  reordered[Count]

\* reverse_streaming_digits: digit s moves from weight remaining_n to weight
\* prefix_n, which puts the last segment's results in natural order.
OutputAddress(x) ==
    LET reordered[s \in 0 .. Count] ==
            IF s = 0
            THEN 0
            ELSE reordered[s - 1]
                 + ((x \div RemainingN[s - 1]) % SegmentN[s - 1]) * PrefixN[s - 1]
    IN  reordered[Count]
=============================================================================
