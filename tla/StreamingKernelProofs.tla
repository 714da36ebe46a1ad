----------------------- MODULE StreamingKernelProofs ------------------------
(***************************************************************************)
(* hierarchical_streaming_kernel, for every factorisation, batch, number   *)
(* of slots and number of warps.  First the index arithmetic: a task loads *)
(* and stores inside its transform, every element has one task per         *)
(* segment, a consumer polls the token, or the wave, of the tasks that     *)
(* produce its operands, a wave has segment_n producers, and the digit     *)
(* reversal of the last stores is a permutation.  Then the state and the   *)
(* ring protocol: no warp indexes a word or a cell outside the arrays the  *)
(* host laid out, the packed consume_state word counts exactly, and a      *)
(* producer that reuses a slot is alone with it.  Last what the kernel     *)
(* computes: operands belong to their transform, the counters of           *)
(* full-scratch waves are exact, the output of a launch is complete, and   *)
(* the kernel implements StreamingDataflow.                                *)
(***************************************************************************)
EXTENDS StreamingKernel, FiniteSets, TLAPS, FiniteSetTheorems, FunctionTheorems,
        WellFoundedInduction

----------------------------------------------------------------------------
(* Facts about the index arithmetic, for every factorisation of the transform  *)
(* into segments: loads and stores stay inside a transform, every element has   *)
(* exactly one producing task per segment, and the token a consumer polls is    *)
(* the one that task sets.                                                   *)


(* Division with remainder, in the form the index arithmetic uses it.      *)
LEMMA DivMod ==
    ASSUME NEW a \in Nat, NEW m \in Nat \ {0}
    PROVE  /\ a \div m \in Nat
           /\ a % m \in 0 .. m - 1
           /\ a = (a \div m) * m + (a % m)
  BY SMT

LEMMA ProductStep ==
    ASSUME NEW x \in Nat, NEW y \in Nat, NEW m \in Nat \ {0}, x < y
    PROVE  x * m + m <= y * m
  BY SMT

(* A quotient and a remainder determine, and are determined by, the number. *)
LEMMA DivModUnique ==
    ASSUME NEW m \in Nat \ {0}, NEW q \in Nat, NEW r \in 0 .. m - 1
    PROVE  /\ (q * m + r) \div m = q
           /\ (q * m + r) % m = r
<1> DEFINE a == q * m + r
           x == a \div m
           y == a % m
<1>1. a \in Nat
  BY SMT
<1>2. x \in Nat /\ y \in 0 .. m - 1 /\ a = x * m + y
  BY <1>1, DivMod
<1>3. q * m + r = x * m + y
  BY <1>2
<1>4. x = q /\ y = r
  <2> HIDE DEF x, y, a
  <2>1. CASE x < q
    <3>1. x * m + m <= q * m
      BY <2>1, <1>2, ProductStep
    <3> QED
      BY <3>1, <1>2, <1>3, SMT
  <2>2. CASE q < x
    <3>1. q * m + m <= x * m
      BY <2>2, <1>2, ProductStep
    <3> QED
      BY <3>1, <1>2, <1>3, SMT
  <2>3. CASE x = q
    BY <2>3, <1>2, <1>3, SMT
  <2> QED
    BY <2>1, <2>2, <2>3, <1>2
<1> QED
  BY <1>4

(* A number below a product has a quotient below the other factor.         *)
LEMMA QuotientBound ==
    ASSUME NEW a \in Nat, NEW b \in Nat, NEW m \in Nat \ {0}, a < b * m
    PROVE  a \div m < b
  BY SMT

(* Numbers with the same residue are at least the modulus apart.           *)
LEMMA SameResidue ==
    ASSUME NEW m \in Nat \ {0}, NEW a \in Nat, NEW b \in Nat,
           (a % m) = (b % m), a < b
    PROVE  a + m <= b
<1> DEFINE x == a \div m
           y == b \div m
           r == a % m
<1>1. x \in Nat /\ y \in Nat /\ r \in 0 .. m - 1 /\ a = x * m + r /\ b = y * m + r
  BY DivMod
<1> HIDE DEF x, y, r
<1>2. x < y
  <2>1. CASE y <= x
    <3>1. y * m <= x * m
      BY <1>1, <2>1, SMT
    <3>2. y * m \in Nat /\ x * m \in Nat
      BY <1>1, SMT
    <3> QED
      BY <1>1, <3>1, <3>2, SMT
  <2> QED
    BY <1>1, <2>1, SMT
<1>3. x * m + m <= y * m
  BY <1>1, <1>2, ProductStep
<1>4. y * m \in Nat /\ x * m \in Nat
  BY <1>1, SMT
<1> QED
  BY <1>1, <1>3, <1>4, SMT

LEMMA ResidueStep ==
    ASSUME NEW m \in Nat \ {0}, NEW a \in Nat
    PROVE  ((a + m) % m) = (a % m)
<1> DEFINE x == a \div m
           r == a % m
<1>1. x \in Nat /\ r \in 0 .. m - 1 /\ a = x * m + r
  BY DivMod
<1> HIDE DEF x, r
<1>2. a + m = (x + 1) * m + r
  BY <1>1, SMT
<1>3. ((x + 1) * m + r) % m = r
  BY <1>1, DivModUnique
<1> QED
  BY <1>2, <1>3 DEF r

LEMMA ResidueSmall ==
    ASSUME NEW m \in Nat \ {0}, NEW a \in 0 .. m - 1
    PROVE  (a % m) = a
<1>1. (0 * m + a) % m = a
  BY DivModUnique
<1> QED
  BY <1>1, SMT

LEMMA SegmentSizes ==
    ASSUME NEW s \in Segment
    PROVE  /\ SegmentN[s] \in Nat \ {0}
           /\ PrefixN[s] \in Nat \ {0}
           /\ RemainingN[s] \in Nat \ {0}
           /\ (PrefixN[s] * SegmentN[s]) * RemainingN[s] = N
           /\ N \in Nat
           /\ TaskCount(s) \in Nat \ {0}
<1>1. /\ SegmentN[s] \in Nat \ {0}
      /\ PrefixN[s] \in Nat \ {0}
      /\ RemainingN[s] \in Nat \ {0}
      /\ (PrefixN[s] * SegmentN[s]) * RemainingN[s] = N
      /\ N \in Nat
  BY GeometryAssumption
<1>2. PrefixN[s] * RemainingN[s] \in Nat \ {0}
  BY <1>1, SMT
<1> QED
  BY <1>1, <1>2 DEF TaskCount

(* The prefix and the remainder of a task.                                 *)
LEMMA TaskDigits ==
    ASSUME NEW s \in Segment, NEW k \in Task(s)
    PROVE  /\ k \in Nat
           /\ k \div RemainingN[s] \in 0 .. PrefixN[s] - 1
           /\ k % RemainingN[s] \in 0 .. RemainingN[s] - 1
           /\ k = (k \div RemainingN[s]) * RemainingN[s] + (k % RemainingN[s])
<1>1. /\ PrefixN[s] \in Nat \ {0}
      /\ RemainingN[s] \in Nat \ {0}
  BY SegmentSizes
<1>2. k \in Nat /\ k < PrefixN[s] * RemainingN[s]
  BY <1>1 DEF Task, TaskCount
<1> DEFINE R == RemainingN[s]
<1>3. k \div R < PrefixN[s]
  BY <1>1, <1>2, QuotientBound
<1>4. k \div R \in Nat /\ k % R \in 0 .. R - 1 /\ k = (k \div R) * R + (k % R)
  <2>1. R \in Nat \ {0}
    BY <1>1
  <2> HIDE DEF R
  <2> QED
    BY <1>2, <2>1, DivMod
<1> QED
  BY <1>1, <1>2, <1>3, <1>4

(* An address as a two-digit number: the prefix times the size of a block  *)
(* plus the position in the block.                                         *)
LEMMA AddressDigits ==
    ASSUME NEW P \in Nat, NEW S \in Nat \ {0}, NEW R \in Nat \ {0},
           NEW p \in Nat, NEW i \in 0 .. S - 1, NEW r \in 0 .. R - 1
    PROVE  /\ i * R + r \in 0 .. S * R - 1
           /\ (p * S + i) * R + r = p * (S * R) + (i * R + r)
           /\ p * S + i \in Nat
           /\ p * (S * R) + (i * R + r) \in Nat
           /\ S * R \in Nat \ {0}
           /\ p < P => p * (S * R) + (i * R + r) < (P * S) * R
<1>1. i * R + R <= S * R
  BY ProductStep, i < S
<1>2. i * R \in Nat /\ S * R \in Nat \ {0} /\ p * S \in Nat
  BY SMT
<1>3. i * R + r \in 0 .. S * R - 1
  BY <1>1, <1>2, SMT
<1>4. (p * S + i) * R + r = p * (S * R) + (i * R + r)
  BY SMT
<1>5. p * (S * R) \in Nat
  BY <1>2, SMT
<1>6. ASSUME p < P PROVE p * (S * R) + (i * R + r) < (P * S) * R
  <2>1. p * (S * R) + S * R <= P * (S * R)
    BY <1>6, <1>2, ProductStep
  <2>2. P * (S * R) = (P * S) * R
    BY SMT
  <2> QED
    BY <2>1, <2>2, <1>2, <1>3, <1>5, SMT
<1> QED
  BY <1>2, <1>3, <1>4, <1>5, <1>6

(* hierarchical_streaming_kernel never loads or stores outside the         *)
(* transform it works on: `logical` is below n.                            *)
THEOREM AddressInRange ==
    ASSUME NEW s \in Segment, NEW k \in Task(s), NEW i \in 0 .. SegmentN[s] - 1
    PROVE  Address(s, k, i) \in Element
<1> DEFINE p == k \div RemainingN[s]
           r == k % RemainingN[s]
<1>1. p \in Nat /\ p < PrefixN[s] /\ r \in 0 .. RemainingN[s] - 1
  BY TaskDigits, SegmentSizes
<1>2. Address(s, k, i) = (p * SegmentN[s] + i) * RemainingN[s] + r
  BY DEF Address
<1> HIDE DEF p, r
<1> QED
  BY <1>1, <1>2, AddressDigits, SegmentSizes DEF Element

(* The token a consumer derives from an address it loads (producer_within) *)
(* is the index of the one task that stores to that address, so polling it *)
(* waits for the right producer.                                           *)
THEOREM ProducerOfAddress ==
    ASSUME NEW s \in Segment, NEW k \in Task(s), NEW i \in 0 .. SegmentN[s] - 1
    PROVE  ProducerWithin(s, Address(s, k, i)) = k
<1> DEFINE p == k \div RemainingN[s]
           r == k % RemainingN[s]
           S == SegmentN[s]
           R == RemainingN[s]
           x == Address(s, k, i)
<1>1. /\ p \in Nat /\ r \in 0 .. R - 1 /\ k = p * R + r
      /\ S \in Nat \ {0} /\ R \in Nat \ {0} /\ i \in 0 .. S - 1
  BY TaskDigits, SegmentSizes
<1>2. x = (p * S + i) * R + r
  BY DEF Address
<1>3. ProducerWithin(s, x) = (x \div (S * R)) * R + (x % R)
  BY DEF ProducerWithin
<1> HIDE DEF p, r, S, R, x
<1>4. /\ x = p * (S * R) + (i * R + r)
      /\ i * R + r \in 0 .. S * R - 1
      /\ S * R \in Nat \ {0}
      /\ p * S + i \in Nat
  BY <1>1, <1>2, AddressDigits
<1>5. x \div (S * R) = p
  BY <1>1, <1>4, DivModUnique
<1>6. x % R = r
  <2> DEFINE q == p * S + i
  <2>1. q \in Nat /\ x = q * R + r
    BY <1>2, <1>4
  <2> HIDE DEF q
  <2> QED
    BY <1>1, <2>1, DivModUnique
<1> QED
  BY <1>1, <1>3, <1>5, <1>6 DEF x

(* A position and the task digits of the address it came from.             *)
LEMMA ElementDigits ==
    ASSUME NEW s \in Segment, NEW x \in Element
    PROVE  LET R == RemainingN[s]
               S == SegmentN[s]
           IN  /\ x \in Nat
               /\ x \div (S * R) \in 0 .. PrefixN[s] - 1
               /\ (x \div R) % S \in 0 .. S - 1
               /\ x % R \in 0 .. R - 1
               /\ x = ((x \div (S * R)) * S + ((x \div R) % S)) * R + (x % R)
<1> DEFINE R == RemainingN[s]
           S == SegmentN[s]
           P == PrefixN[s]
           b == x \div R
           r == x % R
           p == b \div S
           i == b % S
<1>1. R \in Nat \ {0} /\ S \in Nat \ {0} /\ P \in Nat \ {0} /\ (P * S) * R = N
  BY SegmentSizes
<1>2. x \in Nat /\ x < (P * S) * R
  BY <1>1, SegmentSizes DEF Element
<1> HIDE DEF R, S, P
<1>3. b \in Nat /\ r \in 0 .. R - 1 /\ x = b * R + r
  BY <1>1, <1>2, DivMod
<1>4. b < P * S
  <2>1. P * S \in Nat
    BY <1>1, SMT
  <2> QED
    BY <2>1, <1>1, <1>2, QuotientBound
<1> HIDE DEF b, r
<1>5. p \in Nat /\ i \in 0 .. S - 1 /\ b = p * S + i
  BY <1>1, <1>3, DivMod
<1>6. p < P
  BY <1>1, <1>3, <1>4, QuotientBound
<1> HIDE DEF p, i
<1>7. x \div (S * R) = p
  <2>1. /\ x = p * (S * R) + (i * R + r)
        /\ i * R + r \in 0 .. S * R - 1
        /\ S * R \in Nat \ {0}
    BY <1>1, <1>3, <1>5, AddressDigits
  <2> QED
    BY <2>1, <1>5, DivModUnique
<1> QED
  BY <1>2, <1>3, <1>5, <1>6, <1>7, <1>1 DEF R, S, P, b, r, p, i

(* Every element is loaded and stored by a task of every segment, so a     *)
(* transform whose consumers have all run has been read completely.        *)
THEOREM EveryElementAddressed ==
    ASSUME NEW s \in Segment, NEW x \in Element
    PROVE  /\ ProducerWithin(s, x) \in Task(s)
           /\ \E i \in 0 .. SegmentN[s] - 1 : Address(s, ProducerWithin(s, x), i) = x
<1> DEFINE R == RemainingN[s]
           S == SegmentN[s]
           P == PrefixN[s]
           p == x \div (S * R)
           i == (x \div R) % S
           r == x % R
           k == p * R + r
<1>1. R \in Nat \ {0} /\ S \in Nat \ {0} /\ P \in Nat \ {0}
  BY SegmentSizes
<1>2. /\ p \in 0 .. P - 1 /\ i \in 0 .. S - 1 /\ r \in 0 .. R - 1
      /\ x = (p * S + i) * R + r
  BY ElementDigits
<1>3. ProducerWithin(s, x) = k
  BY DEF ProducerWithin
<1> HIDE DEF p, i, r
<1>4. k \in 0 .. P * R - 1
  <2>1. p * R + R <= P * R /\ p * R \in Nat /\ P * R \in Nat
    BY <1>1, <1>2, ProductStep, SMT
  <2> HIDE DEF R, P
  <2> QED
    BY <2>1, <1>1, <1>2, SMT
<1>5. k \div R = p /\ k % R = r
  <2>1. p \in Nat /\ R \in Nat \ {0}
    BY <1>1, <1>2
  <2> HIDE DEF R
  <2> QED
    BY <2>1, <1>2, DivModUnique
<1>6. Address(s, k, i) = (p * S + i) * R + r
  BY <1>5 DEF Address
<1> QED
  BY <1>2, <1>3, <1>4, <1>6 DEF Task, TaskCount

(* No two elements of a task share an address.                             *)
LEMMA AddressInjective ==
    ASSUME NEW s \in Segment, NEW k \in Task(s),
           NEW i \in 0 .. SegmentN[s] - 1, NEW j \in 0 .. SegmentN[s] - 1,
           Address(s, k, i) = Address(s, k, j)
    PROVE  i = j
<1> DEFINE R == RemainingN[s]
           S == SegmentN[s]
           p == k \div R
           r == k % R
           a == p * S + i
           b == p * S + j
<1>1. /\ R \in Nat \ {0} /\ S \in Nat \ {0} /\ p \in Nat /\ r \in 0 .. R - 1
  BY SegmentSizes, TaskDigits
<1>2. a * R + r = b * R + r
  BY DEF Address
<1>3. a \in Nat /\ b \in Nat
  <2> HIDE DEF p, S
  <2> QED
    BY <1>1, AddressDigits
<1>4. a = b
  <2> HIDE DEF a, b, R, r
  <2> QED
    BY <1>1, <1>2, <1>3, DivModUnique
<1>5. p * S \in Nat
  <2> HIDE DEF p, S
  <2> QED
    BY <1>1, SMT
<1> HIDE DEF p, S
<1> QED
  BY <1>4, <1>5, <1>1

----------------------------------------------------------------------------
(* The waves of a full-scratch edge.                                       *)

LEMMA Cancel ==
    ASSUME NEW a \in Nat \ {0}, NEW x \in Nat, NEW y \in Nat, a * x = a * y
    PROVE  x = y
<1>1. /\ x * a = a * x /\ y * a = a * y
      /\ x * a \in Nat /\ y * a \in Nat
  BY SMT
<1>2. CASE x < y
  <2>1. x * a + a <= y * a
    BY <1>2, ProductStep
  <2> QED
    BY <1>1, <2>1, SMT
<1>3. CASE y < x
  <2>1. y * a + a <= x * a
    BY <1>3, ProductStep
  <2> QED
    BY <1>1, <2>1, SMT
<1> QED
  BY <1>2, <1>3

(* Segment e + 1 divides what segment e leaves over.                       *)
LEMMA EdgeSizes ==
    ASSUME NEW e \in Edge
    PROVE  /\ e \in Segment /\ e + 1 \in Segment /\ e \in Nat
           /\ (e + 1) - 1 = e /\ e + 1 # 0
           /\ e + 1 # Count
           /\ PrefixN[e + 1] = PrefixN[e] * SegmentN[e]
           /\ RemainingN[e] = SegmentN[e + 1] * RemainingN[e + 1]
           /\ WaveCount(e) \in Nat \ {0}
<1>1. /\ e \in Segment /\ e + 1 \in Segment /\ e \in Nat
      /\ (e + 1) - 1 = e /\ e + 1 # 0 /\ e + 1 # Count
  BY GeometryAssumption DEF Edge, Segment
<1>2. PrefixN[e + 1] = PrefixN[e] * SegmentN[e]
  BY GeometryAssumption
<1> DEFINE P == PrefixN[e]
           S == SegmentN[e]
           R == RemainingN[e]
           T == SegmentN[e + 1]
           Q == RemainingN[e + 1]
<1>3. /\ P \in Nat \ {0} /\ S \in Nat \ {0} /\ R \in Nat \ {0}
      /\ T \in Nat \ {0} /\ Q \in Nat \ {0}
      /\ (P * S) * R = ((P * S) * T) * Q
  BY <1>1, <1>2, SegmentSizes
<1> HIDE DEF P, S, R, T, Q
<1>4. P * S \in Nat \ {0} /\ T * Q \in Nat /\ ((P * S) * T) * Q = (P * S) * (T * Q)
      /\ P * Q \in Nat \ {0}
  BY <1>3, SMT
<1>5. R = T * Q
  BY <1>3, <1>4, Cancel
<1> QED
  BY <1>1, <1>2, <1>4, <1>5 DEF P, S, R, T, Q, WaveCount

(* The producer of element i of consumer task k, by its digits.            *)
LEMMA ProducerDigits ==
    ASSUME NEW e \in Edge, NEW k \in Task(e + 1), NEW i \in 0 .. SegmentN[e + 1] - 1
    PROVE  LET Q == RemainingN[e + 1]
               a == (k \div Q) \div SegmentN[e]
               r == k % Q
           IN  /\ a \in 0 .. PrefixN[e] - 1
               /\ r \in 0 .. Q - 1
               /\ ProducerWithin(e, Address(e + 1, k, i)) = a * RemainingN[e] + (i * Q + r)
<1> DEFINE P == PrefixN[e]
           S == SegmentN[e]
           R == RemainingN[e]
           T == SegmentN[e + 1]
           Q == RemainingN[e + 1]
           p == k \div Q
           r == k % Q
           a == p \div S
           b == p % S
           x == Address(e + 1, k, i)
           m == i * Q + r
<1>1. /\ P \in Nat \ {0} /\ S \in Nat \ {0} /\ R \in Nat \ {0}
      /\ T \in Nat \ {0} /\ Q \in Nat \ {0} /\ R = T * Q
      /\ PrefixN[e + 1] = P * S /\ e + 1 \in Segment
  BY EdgeSizes, SegmentSizes
<1>2. p \in 0 .. PrefixN[e + 1] - 1 /\ r \in 0 .. Q - 1
  BY <1>1, TaskDigits
<1>3. x = (p * T + i) * Q + r
  BY DEF Address
<1>4. ProducerWithin(e, x) = (x \div (S * R)) * R + (x % R)
  BY DEF ProducerWithin
<1> HIDE DEF P, S, R, T, Q, p, r, x
<1>5. p \in Nat /\ p < P * S
  <2>1. P * S \in Nat
    BY <1>1, SMT
  <2> QED
    BY <1>1, <1>2, <2>1
<1>6. a \in Nat /\ a < P /\ b \in 0 .. S - 1 /\ p = a * S + b
  BY <1>1, <1>5, DivMod, QuotientBound
<1> HIDE DEF a, b
<1>7. x = p * R + m /\ m \in 0 .. R - 1
  <2>1. i \in 0 .. T - 1
    BY DEF T
  <2> QED
    BY <2>1, <1>1, <1>2, <1>3, <1>5, AddressDigits
<1> HIDE DEF m
<1>8. x % R = m
  BY <1>1, <1>5, <1>7, DivModUnique
<1>9. x \div (S * R) = a
  <2>1. /\ x = a * (S * R) + (b * R + m)
        /\ b * R + m \in 0 .. S * R - 1
        /\ S * R \in Nat \ {0}
    BY <1>1, <1>6, <1>7, AddressDigits
  <2> QED
    BY <1>6, <2>1, DivModUnique
<1>10. ProducerWithin(e, x) = a * R + m
  BY <1>4, <1>8, <1>9
<1>11. a \in 0 .. P - 1
  BY <1>1, <1>6
<1> QED
  BY <1>2, <1>10, <1>11 DEF a, p, r, m, P, S, R, Q, x

(* The wave of a producer task given by its digits.                        *)
LEMMA WaveDigits ==
    ASSUME NEW e \in Edge, NEW a \in 0 .. PrefixN[e] - 1,
           NEW i \in 0 .. SegmentN[e + 1] - 1, NEW r \in 0 .. RemainingN[e + 1] - 1
    PROVE  LET k == a * RemainingN[e] + (i * RemainingN[e + 1] + r)
           IN  /\ k \in Task(e)
               /\ ProducerWave(e, k) = a * RemainingN[e + 1] + r
               /\ a * RemainingN[e + 1] + r \in 0 .. WaveCount(e) - 1
<1> DEFINE P == PrefixN[e]
           R == RemainingN[e]
           T == SegmentN[e + 1]
           Q == RemainingN[e + 1]
           m == i * Q + r
           k == a * R + m
<1>1. /\ P \in Nat \ {0} /\ R \in Nat \ {0} /\ T \in Nat \ {0} /\ Q \in Nat \ {0}
      /\ R = T * Q /\ a \in Nat /\ a < P
  BY EdgeSizes, SegmentSizes
<1>2. /\ Task(e) = 0 .. P * R - 1
      /\ ProducerWave(e, k) = (k \div R) * Q + ((k % R) % Q)
      /\ WaveCount(e) = P * Q
  BY DEF Task, TaskCount, ProducerWave, WaveCount
<1> HIDE DEF P, R, T, Q, m
<1>3. m = i * Q + r /\ i \in 0 .. T - 1 /\ r \in 0 .. Q - 1 /\ i \in Nat
  BY DEF m, T, Q
<1>4. m \in 0 .. R - 1
  BY <1>1, <1>3, AddressDigits
<1>5. k \div R = a /\ k % R = m
  BY <1>1, <1>4, DivModUnique
<1>6. m % Q = r
  BY <1>1, <1>3, DivModUnique
<1>7. a * R + R <= P * R /\ a * Q + Q <= P * Q
  BY <1>1, ProductStep
<1>8. a * R \in Nat /\ P * R \in Nat /\ a * Q \in Nat /\ P * Q \in Nat
  BY <1>1, SMT
<1>9. k \in 0 .. P * R - 1 /\ a * Q + r \in 0 .. P * Q - 1
  BY <1>1, <1>3, <1>4, <1>7, <1>8
<1> QED
  BY <1>2, <1>5, <1>6, <1>9 DEF Q, R, m

(* The counter that a consumer task polls is the one that every producer   *)
(* of its operands increments.                                             *)
THEOREM WaveOfProducer ==
    ASSUME NEW e \in Edge, NEW k \in Task(e + 1), NEW i \in 0 .. SegmentN[e + 1] - 1
    PROVE  LET p == ProducerWithin(e, Address(e + 1, k, i))
           IN  /\ p \in Task(e)
               /\ ProducerWave(e, p) = ConsumerWave(e, k)
               /\ ConsumerWave(e, k) \in 0 .. WaveCount(e) - 1
<1> DEFINE Q == RemainingN[e + 1]
           a == (k \div Q) \div SegmentN[e]
           r == k % Q
<1>1. /\ a \in 0 .. PrefixN[e] - 1 /\ r \in 0 .. Q - 1
      /\ ProducerWithin(e, Address(e + 1, k, i)) = a * RemainingN[e] + (i * Q + r)
  BY ProducerDigits
<1>2. ConsumerWave(e, k) = a * Q + r
  BY DEF ConsumerWave
<1> HIDE DEF a, r
<1> QED
  BY <1>1, <1>2, WaveDigits

LEMMA ProducerWaveRange ==
    ASSUME NEW e \in Edge, NEW k \in Task(e)
    PROVE  /\ ProducerWave(e, k) \in 0 .. WaveCount(e) - 1
           /\ \E i \in 0 .. SegmentN[e + 1] - 1 :
                LET Q == RemainingN[e + 1]
                    v == ProducerWave(e, k)
                IN  k = (v \div Q) * RemainingN[e] + (i * Q + (v % Q))
<1> DEFINE P == PrefixN[e]
           R == RemainingN[e]
           T == SegmentN[e + 1]
           Q == RemainingN[e + 1]
           a == k \div R
           m == k % R
           i == m \div Q
           r == m % Q
           v == ProducerWave(e, k)
<1>1. /\ R \in Nat \ {0} /\ T \in Nat \ {0} /\ Q \in Nat \ {0} /\ R = T * Q
      /\ e \in Segment /\ P \in Nat
  BY EdgeSizes, SegmentSizes
<1>2. a \in 0 .. P - 1 /\ m \in 0 .. R - 1 /\ k = a * R + m
  BY <1>1, TaskDigits
<1>3. v = a * Q + r
  BY DEF ProducerWave
<1> HIDE DEF P, R, T, Q, a, m, v
<1>4. m \in Nat /\ m < T * Q /\ a \in Nat
  BY <1>1, <1>2
<1>5. i \in Nat /\ i < T /\ r \in 0 .. Q - 1 /\ m = i * Q + r
  BY <1>1, <1>4, DivMod, QuotientBound
<1> HIDE DEF i, r
<1>6. v \div Q = a /\ v % Q = r
  BY <1>1, <1>3, <1>4, <1>5, DivModUnique
<1>7. i \in 0 .. T - 1 /\ k = a * R + (i * Q + r)
  BY <1>1, <1>2, <1>5
<1>8. v \in 0 .. WaveCount(e) - 1
  BY <1>2, <1>3, <1>5, <1>7, WaveDigits DEF P, Q, T
<1> QED
  BY <1>6, <1>7, <1>8 DEF v, T, Q, R

\* The producer tasks that wave v's counter of edge e counts.
Feeders(e, v) == { k \in Task(e) : ProducerWave(e, k) = v }

(* Every wave is fed by segment_n producer tasks of the edge: one for each *)
(* element of a consumer task.                                             *)
THEOREM FeederCount ==
    ASSUME NEW e \in Edge, NEW v \in 0 .. WaveCount(e) - 1
    PROVE  /\ IsFiniteSet(Feeders(e, v))
           /\ Cardinality(Feeders(e, v)) = SegmentN[e + 1]
<1> DEFINE P == PrefixN[e]
           R == RemainingN[e]
           T == SegmentN[e + 1]
           Q == RemainingN[e + 1]
           a == v \div Q
           r == v % Q
           F == [i \in 0 .. T - 1 |-> a * R + (i * Q + r)]
<1>1. /\ P \in Nat \ {0} /\ R \in Nat \ {0} /\ T \in Nat \ {0} /\ Q \in Nat \ {0}
      /\ R = T * Q
  BY EdgeSizes, SegmentSizes
<1>2. v \in Nat /\ v < P * Q
  BY EdgeSizes DEF WaveCount
<1> HIDE DEF P, R, T, Q
<1>3. a \in Nat /\ a < P /\ r \in 0 .. Q - 1 /\ v = a * Q + r
  BY <1>1, <1>2, DivMod, QuotientBound
<1> HIDE DEF a, r
<1>4. ASSUME NEW i \in 0 .. T - 1 PROVE a * R + (i * Q + r) \in Feeders(e, v)
  <2>1. a \in 0 .. P - 1
    BY <1>1, <1>3
  <2> QED
    BY <1>3, <2>1, WaveDigits DEF P, R, T, Q, Feeders
<1>5. ASSUME NEW k \in Feeders(e, v) PROVE \E i \in 0 .. T - 1 : F[i] = k
  BY ProducerWaveRange DEF Feeders, a, r, T, Q, R
<1>6. ASSUME NEW i \in 0 .. T - 1, NEW j \in 0 .. T - 1, F[i] = F[j] PROVE i = j
  <2>1. /\ F[i] = a * R + (i * Q + r) /\ F[j] = a * R + (j * Q + r)
        /\ i \in Nat /\ j \in Nat /\ a * R \in Nat /\ i * Q \in Nat /\ j * Q \in Nat
    BY <1>1, <1>3, SMT
  <2> HIDE DEF F
  <2> DEFINE x == a * R
             y == i * Q
             z == j * Q
  <2>2. x + (y + r) = x + (z + r) /\ x \in Nat /\ y \in Nat /\ z \in Nat
    BY <1>6, <2>1
  <2>3. y + r = z + r
    <3> HIDE DEF x, y, z
    <3> QED
      BY <1>3, <2>2
  <2> QED
    BY <1>1, <1>3, <2>1, <2>3, DivModUnique
<1>7. F \in [0 .. T - 1 -> Feeders(e, v)]
  BY <1>4
<1>8. F \in Bijection(0 .. T - 1, Feeders(e, v))
  <2> HIDE DEF F
  <2> QED
    BY <1>5, <1>6, <1>7, Fun_IsBij
<1>9. ExistsBijection(0 .. T - 1, Feeders(e, v))
  BY <1>8 DEF ExistsBijection
<1>10. IsFiniteSet(0 .. T - 1) /\ Cardinality(0 .. T - 1) = T
  BY <1>1, FS_Interval
<1> QED
  BY <1>9, <1>10, FS_Bijection DEF T

----------------------------------------------------------------------------
(* The digit reversal of the last segment's stores.                        *)

LEMMA SetInduction ==
    ASSUME NEW S, 0 \in S, \A n \in Nat : n \in S => n + 1 \in S
    PROVE  \A n \in Nat : n \in S
<1> DEFINE Bad == Nat \ S
           Less == OpToRel(<, Nat)
<1>1. SUFFICES ASSUME Bad # {} PROVE FALSE
  OBVIOUS
<1>2. \A a, b \in Nat : a < b => <<a, b>> \in Less
  BY DEF OpToRel
<1>3. IsWellFoundedOn(Less, Nat)
  BY NatLessThanWellFounded
<1> HIDE DEF Less
<1>4. PICK n \in Bad : \A m \in Bad : <<m, n>> \notin Less
  BY <1>1, <1>3, WFMin
<1>5. n \in Nat /\ n # 0
  OBVIOUS
<1>6. n - 1 \in Nat /\ (n - 1) + 1 = n /\ n - 1 < n
  BY <1>5
<1>7. n - 1 \notin Bad
  BY <1>2, <1>4, <1>5, <1>6
<1> QED
  BY <1>4, <1>6, <1>7

LEMMA PartialSums ==
    ASSUME NEW n \in Nat, NEW g \in [0 .. n - 1 -> Nat]
    PROVE  \E f \in [0 .. n -> Nat] :
               f[0] = 0 /\ \A s \in 0 .. n - 1 : f[s + 1] = f[s] + g[s]
<1> DEFINE Sums(m, f) == f[0] = 0 /\ \A s \in 0 .. m - 1 : f[s + 1] = f[s] + g[s]
           S == { m \in Nat : m <= n => \E f \in [0 .. m -> Nat] : Sums(m, f) }
<1>1. 0 \in S
  <2> DEFINE f == [s \in 0 .. 0 |-> 0]
  <2>1. f \in [0 .. 0 -> Nat] /\ Sums(0, f)
    OBVIOUS
  <2> HIDE DEF f
  <2> QED
    BY <2>1
<1>2. ASSUME NEW m \in Nat, m \in S PROVE m + 1 \in S
  <2> HIDE DEF Sums
  <2> SUFFICES ASSUME m + 1 <= n PROVE \E f \in [0 .. m + 1 -> Nat] : Sums(m + 1, f)
    OBVIOUS
  <2>1. PICK f \in [0 .. m -> Nat] : Sums(m, f)
    BY <1>2
  <2> USE DEF Sums
  <2> DEFINE h == [s \in 0 .. m + 1 |-> IF s = m + 1 THEN f[m] + g[m] ELSE f[s]]
  <2>2. m \in 0 .. n - 1 /\ m \in 0 .. m /\ f[m] \in Nat /\ g[m] \in Nat
    OBVIOUS
  <2>3. h \in [0 .. m + 1 -> Nat]
    BY <2>2
  <2>4. h[0] = 0 /\ h[m + 1] = f[m] + g[m] /\ \A s \in 0 .. m : h[s] = f[s]
    BY <2>1
  <2> HIDE DEF h
  <2>5. ASSUME NEW s \in 0 .. (m + 1) - 1 PROVE h[s + 1] = h[s] + g[s]
    <3>1. CASE s = m
      BY <2>4, <3>1
    <3>2. CASE s # m
      <4>1. s \in 0 .. m - 1 /\ s \in 0 .. m /\ s + 1 \in 0 .. m
        BY <3>2
      <4>2. f[s + 1] = f[s] + g[s]
        BY <2>1, <4>1
      <4> QED
        BY <2>4, <4>1, <4>2
    <3> QED
      BY <3>1, <3>2
  <2>6. Sums(m + 1, h)
    BY <2>4, <2>5
  <2> QED
    BY <2>3, <2>6
<1> HIDE DEF S
<1>3. n \in S
  BY <1>1, <1>2, SetInduction
<1> QED
  BY <1>3 DEF S

\* Digit s of a logical position, and the weight it has after the reversal.
Digit(x, s) == (x \div RemainingN[s]) % SegmentN[s]

Weight(s) == IF s = Count THEN N ELSE PrefixN[s]

\* The partial sums of reverse_streaming_digits.
Reordered(x, f) ==
    /\ f \in [0 .. Count -> Nat]
    /\ f[0] = 0
    /\ \A s \in Segment : f[s + 1] = f[s] + Digit(x, s) * PrefixN[s]

LEMMA WeightStep ==
    ASSUME NEW s \in Segment
    PROVE  /\ s \in 0 .. Count /\ s + 1 \in 0 .. Count
           /\ Weight(s) = PrefixN[s]
           /\ Weight(s + 1) = SegmentN[s] * PrefixN[s]
<1>1. Count \in Nat \ {0} /\ s \in 0 .. Count - 1
  BY GeometryAssumption DEF Segment
<1>2. SegmentN[s] \in Nat \ {0} /\ PrefixN[s] \in Nat \ {0}
      /\ PrefixN[s] * SegmentN[s] = SegmentN[s] * PrefixN[s]
  BY SegmentSizes, SMT
<1>3. CASE s + 1 = Count
  <2>1. s = Count - 1 /\ RemainingN[s] = 1
    BY <1>1, <1>3, GeometryAssumption
  <2>2. (PrefixN[s] * SegmentN[s]) * 1 = N
    BY <2>1, SegmentSizes
  <2>3. PrefixN[s] * SegmentN[s] \in Nat
    BY <1>2, SMT
  <2> QED
    BY <1>1, <1>2, <1>3, <2>2, <2>3 DEF Weight
<1>4. CASE s + 1 # Count
  <2>1. s \in Edge
    BY <1>1, <1>4 DEF Edge
  <2> QED
    BY <1>1, <1>2, <1>4, <2>1, EdgeSizes DEF Weight
<1> QED
  BY <1>3, <1>4

LEMMA DigitRange ==
    ASSUME NEW x \in Element, NEW s \in Segment
    PROVE  Digit(x, s) \in 0 .. SegmentN[s] - 1
  BY ElementDigits DEF Digit

LEMMA OutputAddressSums ==
    ASSUME NEW x \in Element
    PROVE  \E f : Reordered(x, f) /\ OutputAddress(x) = f[Count]
<1>0. Count \in Nat \ {0} /\ Segment = 0 .. Count - 1
  BY GeometryAssumption DEF Segment
<1> DEFINE R(h) == h = [s \in 0 .. Count |->
                IF s = 0 THEN 0
                ELSE h[s - 1] + ((x \div RemainingN[s - 1]) % SegmentN[s - 1]) * PrefixN[s - 1]]
           g == [s \in 0 .. Count - 1 |-> Digit(x, s) * PrefixN[s]]
<1>1. g \in [0 .. Count - 1 -> Nat]
  <2>1. ASSUME NEW s \in Segment PROVE Digit(x, s) * PrefixN[s] \in Nat
    BY DigitRange, SegmentSizes, SMT
  <2> QED
    BY <1>0, <2>1
<1>2. PICK f \in [0 .. Count -> Nat] :
        f[0] = 0 /\ \A s \in 0 .. Count - 1 : f[s + 1] = f[s] + g[s]
  <2> HIDE DEF g
  <2> QED
    BY <1>0, <1>1, PartialSums
<1>3. \A s \in 0 .. Count - 1 : f[s + 1] = f[s] + Digit(x, s) * PrefixN[s]
  BY <1>2
<1>4. R(f)
  <2>1. ASSUME NEW s \in 0 .. Count
        PROVE  f[s] = IF s = 0 THEN 0
                ELSE f[s - 1] + ((x \div RemainingN[s - 1]) % SegmentN[s - 1]) * PrefixN[s - 1]
    <3>1. CASE s = 0
      BY <1>2, <3>1
    <3>2. CASE s # 0
      <4>1. s - 1 \in 0 .. Count - 1 /\ (s - 1) + 1 = s
        BY <1>0, <3>2
      <4>2. f[s] = f[s - 1] + Digit(x, s - 1) * PrefixN[s - 1]
        BY <1>3, <4>1
      <4> QED
        BY <3>2, <4>2 DEF Digit
    <3> QED
      BY <3>1, <3>2
  <2> QED
    BY <2>1
<1> DEFINE h == CHOOSE h : R(h)
<1>5. R(h)
  BY <1>4
<1>6. OutputAddress(x) = h[Count]
  BY DEF OutputAddress
<1> HIDE DEF h
<1>7. Reordered(x, f)
  BY <1>0, <1>2, <1>3 DEF Reordered
<1>8. h = f
  <2> DEFINE S == { n \in Nat : n <= Count => h[n] = f[n] }
  <2>1. 0 \in S
    BY <1>2, <1>5
  <2>2. ASSUME NEW n \in Nat, n \in S PROVE n + 1 \in S
    <3> SUFFICES ASSUME n + 1 <= Count PROVE h[n + 1] = f[n + 1]
      OBVIOUS
    <3>1. n + 1 \in 0 .. Count /\ n + 1 # 0 /\ (n + 1) - 1 = n /\ h[n] = f[n]
      BY <1>0, <2>2
    <3>2. h[n + 1] = h[n] + ((x \div RemainingN[n]) % SegmentN[n]) * PrefixN[n]
      BY <1>5, <3>1
    <3>3. f[n + 1] = f[n] + ((x \div RemainingN[n]) % SegmentN[n]) * PrefixN[n]
      BY <1>4, <3>1
    <3> QED
      BY <3>1, <3>2, <3>3
  <2> HIDE DEF S
  <2>3. \A n \in Nat : n \in S
    BY <2>1, <2>2, SetInduction
  <2>4. \A n \in 0 .. Count : h[n] = f[n]
    BY <1>0, <2>3 DEF S
  <2>5. h = [s \in 0 .. Count |-> h[s]]
    BY <1>5
  <2> QED
    BY <2>4, <2>5
<1> QED
  BY <1>6, <1>7, <1>8

LEMMA ReorderedBound ==
    ASSUME NEW x \in Element, NEW f, Reordered(x, f), NEW s \in 0 .. Count
    PROVE  f[s] \in 0 .. Weight(s) - 1
<1>0. Count \in Nat \ {0}
  BY GeometryAssumption
<1> DEFINE S == { n \in Nat : n <= Count => f[n] \in 0 .. Weight(n) - 1 }
<1>1. 0 \in S
  BY <1>0, GeometryAssumption DEF Reordered, Weight
<1>2. ASSUME NEW n \in Nat, n \in S PROVE n + 1 \in S
  <2> SUFFICES ASSUME n + 1 <= Count PROVE f[n + 1] \in 0 .. Weight(n + 1) - 1
    OBVIOUS
  <2>1. n \in Segment
    BY <1>0 DEF Segment
  <2> DEFINE P == PrefixN[n]
             T == SegmentN[n]
             d == Digit(x, n)
             a == f[n]
  <2>2. P \in Nat \ {0} /\ T \in Nat \ {0} /\ d \in 0 .. T - 1 /\ a \in 0 .. P - 1
    BY <1>0, <1>2, <2>1, SegmentSizes, DigitRange, WeightStep
  <2>3. f[n + 1] = a + d * P /\ Weight(n + 1) = T * P
    BY <2>1, WeightStep DEF Reordered
  <2> HIDE DEF P, T, d, a
  <2>4. d * P + P <= T * P
    BY <2>2, ProductStep
  <2>5. d * P \in Nat /\ T * P \in Nat
    BY <2>2, SMT
  <2>6. a + d * P \in 0 .. T * P - 1
    BY <2>2, <2>4, <2>5
  <2> QED
    BY <2>3, <2>6
<1> HIDE DEF S
<1>3. s \in S
  BY <1>0, <1>1, <1>2, SetInduction
<1> QED
  BY <1>0, <1>3 DEF S

\* The digits up to s, as one number.
LEMMA HighDigits ==
    ASSUME NEW x \in Element, NEW s \in Segment
    PROVE  /\ s = 0 => x \div RemainingN[s] = Digit(x, s)
           /\ s # 0 => x \div RemainingN[s]
                        = (x \div RemainingN[s - 1]) * SegmentN[s] + Digit(x, s)
<1> DEFINE R == RemainingN[s]
           T == SegmentN[s]
           b == x \div R
<1>1. /\ R \in Nat \ {0} /\ T \in Nat \ {0} /\ x \in Nat
      /\ x < (PrefixN[s] * T) * R
  BY SegmentSizes DEF Element
<1>2. Digit(x, s) = b % T
  BY DEF Digit
<1> HIDE DEF R, T
<1>3. b \in Nat /\ x = b * R + (x % R) /\ x % R \in 0 .. R - 1
  BY <1>1, DivMod
<1>4. CASE s = 0
  <2>1. PrefixN[s] * T = T
    BY <1>1, <1>4, GeometryAssumption
  <2>2. b < T
    BY <1>1, <2>1, QuotientBound
  <2> HIDE DEF b
  <2>3. b % T = b
    BY <1>1, <1>3, <2>2, ResidueSmall
  <2> QED
    BY <1>2, <1>4, <2>3 DEF b, R
<1>5. CASE s # 0
  <2> DEFINE r == x % R
             p == b \div T
             i == b % T
  <2>1. s - 1 \in Edge /\ (s - 1) + 1 = s
    BY <1>5, GeometryAssumption DEF Edge, Segment
  <2>2. RemainingN[s - 1] = T * R
    BY <2>1, EdgeSizes DEF T, R
  <2> HIDE DEF b, r
  <2>3. b = p * T + i /\ p \in Nat /\ i \in 0 .. T - 1
    BY <1>1, <1>3, DivMod
  <2> HIDE DEF p, i
  <2>4. /\ x = p * (T * R) + (i * R + r)
        /\ i * R + r \in 0 .. T * R - 1
        /\ T * R \in Nat \ {0}
    BY <1>1, <1>3, <2>3, AddressDigits DEF r
  <2>5. x \div (T * R) = p
    BY <2>3, <2>4, DivModUnique
  <2> QED
    BY <1>2, <1>5, <2>2, <2>3, <2>5 DEF b, i, R, T
<1> QED
  BY <1>4, <1>5

LEMMA OutputInjective ==
    ASSUME NEW x \in Element, NEW y \in Element, OutputAddress(x) = OutputAddress(y)
    PROVE  x = y
<1>0. Count \in Nat \ {0} /\ Segment = 0 .. Count - 1
  BY GeometryAssumption DEF Segment
<1>1. PICK f : Reordered(x, f) /\ OutputAddress(x) = f[Count]
  BY OutputAddressSums
<1>2. PICK g : Reordered(y, g) /\ OutputAddress(y) = g[Count]
  BY OutputAddressSums
<1> DEFINE Same(n) == f[n] = g[n] => n = 0 \/ x \div RemainingN[n - 1] = y \div RemainingN[n - 1]
           S == { n \in Nat : n <= Count => Same(n) }
<1>3. 0 \in S
  OBVIOUS
<1>4. ASSUME NEW n \in Nat, n \in S PROVE n + 1 \in S
  <2> SUFFICES ASSUME n + 1 <= Count, f[n + 1] = g[n + 1]
               PROVE  x \div RemainingN[n] = y \div RemainingN[n]
    OBVIOUS
  <2>1. n \in Segment /\ n \in 0 .. Count
    BY <1>0
  <2> DEFINE P == PrefixN[n]
             c == Digit(x, n)
             d == Digit(y, n)
             a == f[n]
             b == g[n]
  <2>2. /\ P \in Nat \ {0} /\ c \in Nat /\ d \in Nat
        /\ a \in 0 .. P - 1 /\ b \in 0 .. P - 1
    BY <1>1, <1>2, <2>1, SegmentSizes, DigitRange, WeightStep, ReorderedBound
  <2>3. a + c * P = b + d * P
    BY <1>1, <1>2, <2>1 DEF Reordered
  <2>4. a = b /\ c = d
    <3> HIDE DEF a, b, c, d, P
    <3>1. c * P + a = d * P + b
      <4>1. c * P \in Nat /\ d * P \in Nat
        BY <2>2, SMT
      <4> QED
        BY <2>2, <2>3, <4>1
    <3>2. (c * P + a) \div P = c /\ (c * P + a) % P = a
      BY <2>2, DivModUnique
    <3>3. (d * P + b) \div P = d /\ (d * P + b) % P = b
      BY <2>2, DivModUnique
    <3> QED
      BY <3>1, <3>2, <3>3
  <2>5. n = 0 \/ x \div RemainingN[n - 1] = y \div RemainingN[n - 1]
    BY <1>0, <1>4, <2>4
  <2> QED
    BY <2>1, <2>4, <2>5, HighDigits
<1> HIDE DEF S
<1>5. Count \in S
  BY <1>0, <1>3, <1>4, SetInduction
<1>6. x \div RemainingN[Count - 1] = y \div RemainingN[Count - 1]
  <2>1. Count <= Count /\ Count # 0
    BY <1>0
  <2>3. f[Count] = g[Count]
    BY <1>1, <1>2
  <2>2. Same(Count)
    <3> HIDE DEF Same
    <3> QED
      BY <1>5, <2>1 DEF S
  <2> QED
    BY <2>1, <2>2, <2>3
<1>7. RemainingN[Count - 1] = 1 /\ x \in Nat /\ y \in Nat
  BY SegmentSizes, GeometryAssumption DEF Element
<1> QED
  BY <1>6, <1>7, SMT

(* reverse_streaming_digits is a permutation of the positions of a         *)
(* transform: the stores of the last segment reach every element of the    *)
(* caller's output, each exactly once.                                     *)
THEOREM OutputPermutes ==
    /\ \A x \in Element : OutputAddress(x) \in Element
    /\ \A x, y \in Element : OutputAddress(x) = OutputAddress(y) => x = y
    /\ \A y \in Element : \E x \in Element : OutputAddress(x) = y
<1>1. ASSUME NEW x \in Element PROVE OutputAddress(x) \in Element
  <2>1. PICK f : Reordered(x, f) /\ OutputAddress(x) = f[Count]
    BY OutputAddressSums
  <2>2. Count \in 0 .. Count
    BY GeometryAssumption
  <2> QED
    BY <2>1, <2>2, ReorderedBound DEF Weight, Element
<1>2. \A x, y \in Element : OutputAddress(x) = OutputAddress(y) => x = y
  BY OutputInjective
<1> DEFINE F == [x \in Element |-> OutputAddress(x)]
<1>3. F \in [Element -> Element] /\ \A x, y \in Element : F[x] = F[y] => x = y
  BY <1>1, <1>2
<1>4. F \in Injection(Element, Element)
  <2> HIDE DEF F
  <2> QED
    BY <1>3, Fun_IsInj
<1>5. IsFiniteSet(Element)
  BY GeometryAssumption, FS_Interval DEF Element
<1>6. F \in Surjection(Element, Element)
  <2> HIDE DEF F
  <2> QED
    BY <1>4, <1>5, FS_Injection
<1>7. \A y \in Element : \E x \in Element : F[x] = y
  <2> HIDE DEF F
  <2> QED
    BY <1>6, Fun_SurjectionProperties
<1> QED
  BY <1>1, <1>2, <1>7

----------------------------------------------------------------------------
(* Type correctness.  TypeOK alone is not inductive: that a warp indexes   *)
(* inside the arrays depends on its task number being in range and on its  *)
(* phase being one its role goes through.                                  *)

Busy == {"acquire", "wave", "load"} \cup Loaded

PhaseOK ==
    \A w \in Worker :
        /\ pc[w] \in Busy => task[w] < TotalTasks(Role(w))
        /\ pc[w] = "wave" => AggregatedSource(Role(w))
        /\ pc[w] \in {"observe", "swap", "signal"} => RingSource(Role(w))
        /\ pc[w] = "publish" => ~FinalSegment(Role(w))
        /\ pc[w] # "load" => granted[w] = {}

TypeInv == TypeOK /\ PhaseOK

LEMMA WorkerFacts ==
    ASSUME NEW w \in Worker
    PROVE  /\ Role(w) \in Segment
           /\ w[2] \in 0 .. RoleWorkers[Role(w)] - 1
           /\ w = <<w[1], w[2]>>
           /\ RoleWorkers[Role(w)] \in Nat \ {0}
           /\ SegmentN[Role(w)] \in Nat \ {0}
           /\ Item(w) \subseteq Nat
           /\ TaskCount(Role(w)) \in Nat \ {0}
<1>1. PICK s \in Segment : w \in {s} \X (0 .. RoleWorkers[s] - 1)
  BY DEF Worker
<1>2. Role(w) = s /\ w[2] \in 0 .. RoleWorkers[s] - 1 /\ w = <<w[1], w[2]>>
  BY <1>1 DEF Role
<1> QED
  BY <1>1, <1>2, KernelAssumption, SegmentSizes DEF Item

LEMMA WordFacts ==
    /\ \A w \in Worker : \A i : i \in Item(w) <=> <<w, i>> \in TileWord
    /\ \A e, q, p : <<e, q, p>> \in ReadyWord <=>
            e \in Edge /\ q \in 0 .. Slots[e] - 1 /\ p \in 0 .. ReadyTokens(e) - 1
    /\ \A e, q : <<e, q>> \in StateWord <=> Ring(e) /\ q \in 0 .. Slots[e] - 1
    /\ \A e, q, x : <<e, q, x>> \in Cell <=>
            e \in Edge /\ q \in 0 .. Slots[e] - 1 /\ x \in Element
<1>1. \A w \in Worker : \A i : i \in Item(w) <=> <<w, i>> \in TileWord
  BY DEF TileWord
<1>2. \A e, q, p : <<e, q, p>> \in ReadyWord <=>
            e \in Edge /\ q \in 0 .. Slots[e] - 1 /\ p \in 0 .. ReadyTokens(e) - 1
  BY DEF ReadyWord
<1>3. \A e, q : <<e, q>> \in StateWord <=> Ring(e) /\ q \in 0 .. Slots[e] - 1
  BY DEF StateWord, RingEdge, Ring
<1>4. \A e, q, x : <<e, q, x>> \in Cell <=>
            e \in Edge /\ q \in 0 .. Slots[e] - 1 /\ x \in Element
  BY DEF Cell
<1> QED
  BY <1>1, <1>2, <1>3, <1>4

(* The transform and task a linear task number stands for.                 *)
LEMMA TaskFacts ==
    ASSUME NEW s \in Segment, NEW T \in Nat, T < TotalTasks(s)
    PROVE  /\ T \div TaskCount(s) \in 0 .. Batch - 1
           /\ T % TaskCount(s) \in Task(s)
<1> DEFINE M == TaskCount(s)
<1>1. M \in Nat \ {0} /\ Batch \in Nat \ {0} /\ T < Batch * M
  BY SegmentSizes, KernelAssumption DEF TotalTasks
<1> HIDE DEF M
<1>2. T \div M \in Nat /\ T % M \in 0 .. M - 1 /\ T \div M < Batch
  BY <1>1, DivMod, QuotientBound
<1> QED
  BY <1>1, <1>2 DEF Task, M

LEMMA SlotFacts ==
    ASSUME NEW e \in Edge, NEW t \in 0 .. Batch - 1
    PROVE  /\ Slots[e] \in 1 .. Batch
           /\ Slot(e, t) \in 0 .. Slots[e] - 1
           /\ Slot(e, t) = t % Slots[e]
<1> DEFINE m == Slots[e]
<1>1. m \in 1 .. Batch /\ Batch \in Nat \ {0}
  BY KernelAssumption
<1>2. Slot(e, t) = IF m = Batch THEN t ELSE t % m
  BY DEF Slot
<1> HIDE DEF m
<1>3. t % m \in 0 .. m - 1
  BY <1>1, DivMod
<1>4. CASE m = Batch
  <2>1. (0 * m + t) % m = t
    BY <1>1, <1>4, DivModUnique
  <2>2. t % m = t
    BY <2>1, <1>1, SMT
  <2> QED
    BY <1>1, <1>2, <1>3, <1>4, <2>2 DEF m
<1> QED
  BY <1>1, <1>2, <1>3, <1>4 DEF m

(* Where a warp inside its task loop reads and writes.                     *)
LEMMA ReachFacts ==
    ASSUME TypeInv, NEW w \in Worker, pc[w] \in Busy
    PROVE  /\ Transform(w) \in 0 .. Batch - 1
           /\ Transform(w) \in Nat
           /\ Within(w) \in Task(Role(w))
           /\ \A i \in Item(w) : Here(w, i) \in Element
           /\ Role(w) # 0 =>
                /\ Role(w) - 1 \in Edge
                /\ Source(w) = <<Role(w) - 1, Slot(Role(w) - 1, Transform(w))>>
                /\ Slot(Role(w) - 1, Transform(w)) \in 0 .. Slots[Role(w) - 1] - 1
                /\ \A i \in Item(w) : <<Source(w)[1], Source(w)[2], Here(w, i)>> \in Cell
           /\ RingSource(Role(w)) => Source(w) \in StateWord
           /\ ~FinalSegment(Role(w)) =>
                /\ Role(w) \in Edge
                /\ Slot(Role(w), Transform(w)) \in 0 .. Slots[Role(w)] - 1
                /\ \A i \in Item(w) :
                        <<Destination(w)[1], Destination(w)[2], Here(w, i)>> \in Cell
           /\ <<launch, Transform(w)>> \in Token
<1> DEFINE s == Role(w)
<1>1. s \in Segment /\ s \in Int /\ Count \in Nat \ {0}
  BY WorkerFacts, GeometryAssumption DEF Segment
<1>2. task[w] \in Nat /\ task[w] < TotalTasks(s) /\ launch \in 1 .. Launches
  BY DEF TypeInv, TypeOK, PhaseOK
<1>3. Transform(w) \in 0 .. Batch - 1 /\ Within(w) \in Task(s)
  BY <1>1, <1>2, TaskFacts DEF Transform, Within
<1>12. Transform(w) \in Nat
  BY <1>3, KernelAssumption
<1>4. \A i \in Item(w) : Here(w, i) \in Element
  BY <1>1, <1>3, AddressInRange DEF Here, Item
<1>5. s # 0 => s - 1 \in Edge
  BY <1>1 DEF Segment, Edge
<1>6. ~FinalSegment(s) => s \in Edge
  BY <1>1 DEF Segment, Edge, FinalSegment
<1>7. \A e \in Edge : Slot(e, Transform(w)) \in 0 .. Slots[e] - 1
  BY <1>3, SlotFacts
<1>8. s # 0 => \A i \in Item(w) : <<Source(w)[1], Source(w)[2], Here(w, i)>> \in Cell
  BY <1>4, <1>5, <1>7, WordFacts DEF Source
<1>9. ~FinalSegment(s) => \A i \in Item(w) :
            <<Destination(w)[1], Destination(w)[2], Here(w, i)>> \in Cell
  BY <1>4, <1>6, <1>7, WordFacts DEF Destination
<1>10. RingSource(s) => Source(w) \in StateWord
  BY <1>5, <1>7, WordFacts DEF Source, RingSource
<1>11. <<launch, Transform(w)>> \in Token
  BY <1>2, <1>3 DEF Token
<1> QED
  BY <1>3, <1>4, <1>5, <1>6, <1>7, <1>8, <1>9, <1>10, <1>11, <1>12 DEF Source

LEMMA TypeInit == Init => TypeInv
<1> SUFFICES ASSUME Init PROVE TypeInv
  OBVIOUS
<1>1. \A w \in Worker : w[2] \in Nat
  BY WorkerFacts
<1>2. Garbage \in Token
  BY DEF Token
<1>3. \A w \in Worker : {} \subseteq Item(w) /\ {} \in SUBSET Nat
  OBVIOUS
<1>4. PICK stale \in StaleWords :
        /\ ready = [word \in ReadyWord |-> stale]
        /\ consume_state = [word \in StateWord |-> [epoch |-> stale, count |-> stale]]
        /\ consumed_epoch = [word \in StateWord |-> stale]
  BY DEF Init
<1>5. stale \in Nat
  BY KernelAssumption
<1>6. Unread \in [epoch : Nat, count : Nat]
  BY DEF Unread
<1>7. 1 \in 1 .. Launches
  BY KernelAssumption
<1>8. TypeOK
  BY <1>1, <1>2, <1>3, <1>4, <1>5, <1>6, <1>7 DEF TypeOK, Init
<1>9. PhaseOK
  BY DEF PhaseOK, Init, Busy, Loaded
<1> QED
  BY <1>8, <1>9 DEF TypeInv

(* What the task loop's increment keeps.                                   *)
LEMMA NextTaskType ==
    ASSUME TypeInv, NEW w \in Worker, NextTask(w)
    PROVE  /\ task' = [task EXCEPT ![w] = task'[w]]
           /\ pc' = [pc EXCEPT ![w] = pc'[w]]
           /\ task'[w] \in Nat
           /\ pc'[w] \in {"acquire", "done"}
           /\ pc'[w] = "acquire" => task'[w] < TotalTasks(Role(w))
<1>1. task \in [Worker -> Nat] /\ RoleWorkers[Role(w)] \in Nat
  BY WorkerFacts DEF TypeInv, TypeOK
<1>2. DOMAIN pc = Worker
  BY DEF TypeInv, TypeOK
<1> QED
  BY <1>1, <1>2 DEF NextTask, Goto, PhaseOf

(* Every step of a warp keeps the type invariant.                          *)
LEMMA TypeStep ==
    ASSUME TypeInv, NEW w \in Worker, Step(w)
    PROVE  TypeInv'
<1> USE DEF TypeInv
<1> DEFINE s == Role(w)
<1>u. Unread \in [epoch : Nat, count : Nat] /\ 0 \in Nat
  BY DEF Unread
<1>p. pc[w] \in Busy => w \in Worker /\ task[w] < TotalTasks(s)
  BY DEF PhaseOK
<1>r. RingSource(s) => s # 0 /\ ~AggregatedSource(s)
  BY DEF RingSource, AggregatedSource
<1>1. CASE Clear(w)
  <2>1. TypeOK'
    BY <1>1, <1>u DEF TypeOK, Clear, Goto
  <2>2. PhaseOK'
    BY <1>1 DEF TypeOK, PhaseOK, Clear, Goto, Busy, Loaded
  <2> QED
    BY <2>1, <2>2
<1>2. CASE AcquireSlot(w)
  <2>1. Item(w) \subseteq Nat
    BY WorkerFacts
  <2>2. TypeOK'
    BY <1>2, <2>1 DEF TypeOK, PhaseOK, AcquireSlot, Goto
  <2>3. PhaseOK'
    BY <1>2, <1>p DEF TypeOK, PhaseOK, AcquireSlot, Goto, Busy, Loaded
  <2> QED
    BY <2>2, <2>3
<1>3. CASE AwaitWave(w)
  <2>1. TypeOK'
    BY <1>3 DEF TypeOK, AwaitWave, Goto
  <2>2. PhaseOK'
    BY <1>3, <1>p DEF TypeOK, PhaseOK, AwaitWave, Goto, Busy, Loaded
  <2> QED
    BY <2>1, <2>2
<1>4. ASSUME NEW i \in Item(w), AwaitToken(w, i) PROVE TypeInv'
  <2>1. TypeOK'
    BY <1>4 DEF TypeOK, AwaitToken
  <2>2. PhaseOK'
    BY <1>4 DEF TypeOK, PhaseOK, AwaitToken
  <2> QED
    BY <2>1, <2>2
<1>5. ASSUME NEW i \in Item(w), LoadElement(w, i) PROVE TypeInv'
  <2>1. pc[w] \in Busy
    BY <1>5 DEF LoadElement, Busy
  <2>2. Operand(w, i) \in Token
    <3>1. CASE s = 0
      BY <3>1, <2>1, ReachFacts DEF Operand
    <3>2. CASE s # 0
      BY <3>2, <2>1, ReachFacts DEF Operand, TypeOK
    <3> QED
      BY <3>1, <3>2
  <2>3. TypeOK'
    BY <1>5, <2>2 DEF TypeOK, LoadElement
  <2>4. PhaseOK'
    BY <1>5 DEF TypeOK, PhaseOK, LoadElement
  <2> QED
    BY <2>3, <2>4
<1>6. CASE FinishLoad(w)
  <2>1. TypeOK'
    BY <1>6 DEF TypeOK, FinishLoad, Goto, Loaded
  <2>2. PhaseOK'
    BY <1>6, <1>p DEF TypeOK, PhaseOK, FinishLoad, Goto, Busy, Loaded
  <2> QED
    BY <2>1, <2>2
<1>7. CASE ObserveConsume(w)
  <2>1. RingSource(s) /\ pc[w] \in Busy
    BY <1>7 DEF PhaseOK, ObserveConsume, Busy, Loaded
  <2>2. consume_state[Source(w)] \in [epoch : Nat, count : Nat]
    BY <2>1, ReachFacts DEF TypeOK
  <2>3. TypeOK'
    BY <1>7, <2>2 DEF TypeOK, ObserveConsume, Goto, Loaded
  <2>4. PhaseOK'
    BY <1>7, <1>p, <2>1 DEF TypeOK, PhaseOK, ObserveConsume, Goto, Busy, Loaded
  <2> QED
    BY <2>3, <2>4
<1>8. CASE SwapConsume(w)
  <2>1. RingSource(s) /\ pc[w] \in Busy
    BY <1>8 DEF PhaseOK, SwapConsume, Busy, Loaded
  <2>2. Transform(w) \in Nat
    BY <2>1, ReachFacts
  <2>3. DesiredState(w) \in [epoch : Nat, count : Nat]
    BY <2>2 DEF TypeOK, DesiredState, Epoch
  <2>4. TypeOK'
    BY <1>8, <1>u, <2>3 DEF TypeOK, SwapConsume, Goto, Loaded
  <2>5. PhaseOK'
    BY <1>8, <1>p, <2>1 DEF TypeOK, PhaseOK, SwapConsume, Goto, Busy, Loaded
  <2> QED
    BY <2>4, <2>5
<1>9. CASE RetrySwap(w)
  <2>1. RingSource(s) /\ pc[w] \in Busy
    BY <1>9 DEF PhaseOK, RetrySwap, Busy, Loaded
  <2>2. consume_state[Source(w)] \in [epoch : Nat, count : Nat]
    BY <2>1, ReachFacts DEF TypeOK
  <2>3. TypeOK'
    BY <1>9, <2>2 DEF TypeOK, RetrySwap
  <2>4. PhaseOK'
    BY <1>9 DEF TypeOK, PhaseOK, RetrySwap
  <2> QED
    BY <2>3, <2>4
<1>10. CASE SignalConsumed(w)
  <2>1. RingSource(s) /\ pc[w] \in Busy
    BY <1>10 DEF PhaseOK, SignalConsumed, Busy, Loaded
  <2>2. Epoch(w) \in Nat
    <3>1. Transform(w) \in Nat
      BY <2>1, ReachFacts
    <3> QED
      BY <3>1 DEF Epoch
  <2>3. TypeOK'
    BY <1>10, <2>2 DEF TypeOK, SignalConsumed, Goto, Loaded
  <2>4. PhaseOK'
    BY <1>10, <1>p DEF TypeOK, PhaseOK, SignalConsumed, Goto, Busy, Loaded
  <2> QED
    BY <2>3, <2>4
<1>11. CASE Compute(w)
  <2>1. pc[w] \in Busy
    BY <1>11 DEF Compute, Busy, Loaded
  <2>2. Result(w) \in Token
    BY <2>1, ReachFacts DEF Result, Token
  <2>3. Item(w) \subseteq Nat
    BY WorkerFacts
  <2>4. TypeOK'
    BY <1>11, <2>2, <2>3 DEF TypeOK, PhaseOK, Compute, Goto, Loaded
  <2>5. PhaseOK'
    BY <1>11, <1>p, <2>1 DEF TypeOK, PhaseOK, Compute, Goto, Busy, Loaded
  <2> QED
    BY <2>4, <2>5
<1>12. ASSUME NEW i \in Item(w), StoreElement(w, i) PROVE TypeInv'
  <2>1. tile[<<w, i>>] \in Token /\ granted[w] = {} /\ i \in Item(w)
    BY <1>12, WordFacts DEF TypeOK, PhaseOK, StoreElement
  <2>2. boundary' \in [Cell -> Token]
    BY <1>12, <2>1 DEF TypeOK, StoreElement
  <2>3. output' \in [(0 .. Batch - 1) \X Element -> Token]
    BY <1>12, <2>1 DEF TypeOK, StoreElement
  <2>4. TypeOK'
    BY <1>12, <2>1, <2>2, <2>3 DEF TypeOK, StoreElement
  <2>5. PhaseOK'
    BY <1>12 DEF TypeOK, PhaseOK, StoreElement
  <2> QED
    BY <2>4, <2>5
<1>13. CASE FinishStore(w)
  <2>1. CASE FinalSegment(s)
    <3>1. NextTask(w)
      BY <1>13, <2>1 DEF FinishStore
    <3>2. TypeOK'
      BY <1>13, <3>1, NextTaskType DEF TypeOK, FinishStore
    <3>3. PhaseOK'
      BY <1>13, <3>1, NextTaskType DEF TypeOK, PhaseOK, FinishStore, Busy, Loaded
    <3> QED
      BY <3>2, <3>3
  <2>2. CASE ~FinalSegment(s)
    <3>1. TypeOK'
      BY <1>13, <2>2 DEF TypeOK, FinishStore, Goto, Loaded
    <3>2. PhaseOK'
      BY <1>13, <1>p, <2>2 DEF TypeOK, PhaseOK, FinishStore, Goto, Busy, Loaded
    <3> QED
      BY <3>1, <3>2
  <2> QED
    BY <2>1, <2>2
<1>14. CASE Publish(w)
  <2>1. pc[w] \in Busy /\ ~FinalSegment(s) /\ NextTask(w)
    BY <1>14 DEF PhaseOK, Publish, Busy, Loaded
  <2>2. ready' \in [ReadyWord -> Nat]
    <3>5. Transform(w) \in Nat
      BY <2>1, ReachFacts
    <3>1. Transform(w) + 1 \in Nat
      BY <3>5
    <3> DEFINE token   == <<s, Slot(s, Transform(w)), Within(w)>>
               counter == <<s, Slot(s, Transform(w)), ProducerWave(s, Within(w))>>
    <3>2. ready' = IF Ring(s)
                   THEN [ready EXCEPT ![token] = Transform(w) + 1]
                   ELSE [ready EXCEPT ![counter] = @ + 1]
      BY <1>14 DEF Publish
    <3> HIDE DEF token, counter, s
    <3>3. ready \in [ReadyWord -> Nat]
      BY DEF TypeOK
    <3>4. counter \in ReadyWord => ready[counter] + 1 \in Nat
      BY <3>3
    <3> QED
      BY <3>1, <3>2, <3>3, <3>4
  <2>3. TypeOK'
    BY <1>14, <2>1, <2>2, NextTaskType DEF TypeOK, Publish
  <2>4. PhaseOK'
    BY <1>14, <2>1, NextTaskType DEF TypeOK, PhaseOK, Publish, Busy, Loaded
  <2> QED
    BY <2>3, <2>4
<1> QED
  BY <1>1, <1>2, <1>3, <1>4, <1>5, <1>6, <1>7, <1>8, <1>9, <1>10, <1>11, <1>12,
     <1>13, <1>14 DEF Step

LEMMA TypeNext == TypeInv /\ [Next]_vars => TypeInv'
<1> SUFFICES ASSUME TypeInv, [Next]_vars PROVE TypeInv'
  OBVIOUS
<1>1. CASE \E w \in Worker : Step(w)
  BY <1>1, TypeStep
<1>2. CASE GridSync
  <2>1. \A w \in Worker : PhaseOf(Role(w), task[w]) \in {"acquire", "done"}
    BY DEF PhaseOf
  <2>2. TypeOK'
    BY <1>2, <2>1 DEF TypeInv, TypeOK, GridSync
  <2>3. PhaseOK'
    BY <1>2, <2>1 DEF TypeInv, PhaseOK, GridSync, PhaseOf, Busy, Loaded
  <2> QED
    BY <2>2, <2>3 DEF TypeInv
<1>3. CASE Relaunch
  <2>1. \A w \in Worker : w[2] \in Nat
    BY WorkerFacts
  <2>2. launch' \in 1 .. Launches
    BY <1>3, KernelAssumption DEF TypeInv, TypeOK, Relaunch
  <2>3. TypeOK'
    BY <1>3, <2>1, <2>2 DEF TypeInv, TypeOK, Relaunch
  <2>4. PhaseOK'
    BY <1>3 DEF TypeInv, PhaseOK, Relaunch, AllDone, Busy, Loaded
  <2> QED
    BY <2>3, <2>4 DEF TypeInv
<1>4. CASE UNCHANGED vars
  BY <1>4 DEF TypeInv, TypeOK, PhaseOK, vars
<1> QED
  BY <1>1, <1>2, <1>3, <1>4 DEF Next, Finished

(* Every word and cell that a warp of hierarchical_streaming_kernel        *)
(* indexes lies inside the arrays of the workspace layout, and every value *)
(* in memory is garbage or the result of one transform of one launch,      *)
(* whatever the factorisation, the rings and the number of warps.          *)
THEOREM TypeCorrect == Spec => []TypeOK
<1>1. Init => TypeInv
  BY TypeInit
<1>2. TypeInv /\ [Next]_vars => TypeInv'
  BY TypeNext
<1>3. TypeInv => TypeOK
  BY DEF TypeInv
<1> QED
  BY <1>1, <1>2, <1>3, PTL DEF Spec

----------------------------------------------------------------------------
(* Task numbers and who runs them.                                         *)

LEMMA NumberFacts ==
    ASSUME NEW s \in Segment, NEW t \in 0 .. Batch - 1, NEW k \in Task(s)
    PROVE  /\ TaskNumber(s, t, k) \in Nat
           /\ TaskNumber(s, t, k) < TotalTasks(s)
           /\ TaskNumber(s, t, k) \div TaskCount(s) = t
           /\ (TaskNumber(s, t, k) % TaskCount(s)) = k
<1> DEFINE M == TaskCount(s)
<1>1. M \in Nat \ {0} /\ Batch \in Nat /\ t \in Nat /\ t < Batch /\ k \in 0 .. M - 1
  BY SegmentSizes, KernelAssumption DEF Task
<1>2. TaskNumber(s, t, k) = t * M + k /\ TotalTasks(s) = Batch * M
  BY DEF TaskNumber, TotalTasks
<1> HIDE DEF M
<1>3. (t * M + k) \div M = t /\ (t * M + k) % M = k
  BY <1>1, DivModUnique
<1>4. t * M + M <= Batch * M
  BY <1>1, ProductStep
<1>5. t * M \in Nat /\ Batch * M \in Nat
  BY <1>1, SMT
<1>6. t * M + k \in Nat /\ t * M + k < Batch * M
  BY <1>1, <1>4, <1>5
<1> QED
  BY <1>2, <1>3, <1>6 DEF M

LEMMA NumberOf ==
    ASSUME NEW s \in Segment, NEW T \in Nat
    PROVE  TaskNumber(s, T \div TaskCount(s), T % TaskCount(s)) = T
<1> DEFINE M == TaskCount(s)
<1>1. M \in Nat \ {0}
  BY SegmentSizes
<1> HIDE DEF M
<1>2. T = (T \div M) * M + (T % M)
  BY <1>1, DivMod
<1> QED
  BY <1>2 DEF TaskNumber, M

LEMMA OwnerFacts ==
    ASSUME NEW s \in Segment, NEW T \in Nat
    PROVE  /\ Owner(s, T) \in Worker
           /\ Role(Owner(s, T)) = s
           /\ Owner(s, T)[2] = (T % RoleWorkers[s])
<1> DEFINE m == RoleWorkers[s]
<1>1. m \in Nat \ {0}
  BY KernelAssumption
<1> HIDE DEF m
<1>2. T % m \in 0 .. m - 1
  BY <1>1, DivMod
<1>3. <<s, T % m>> \in Worker
  BY <1>2 DEF Worker, m
<1> QED
  BY <1>3 DEF Owner, Role, m

----------------------------------------------------------------------------
(* The inductive invariant.                                                *)

StartedPhase == {"wave", "load"} \cup Loaded

\* Task number T of segment s is past its wait for the slot it stores into.
Started(s, T) ==
    \/ Stored(s, T)
    \/ T = task[Owner(s, T)] /\ pc[Owner(s, T)] \in StartedPhase

InSlot(e, q) == { t \in 0 .. Batch - 1 : Slot(e, t) = q }

\* The consumer tasks of transform t that have given back edge e's slot.
ReleasedOf(e, t) == { k \in Task(e + 1) : Released(e + 1, TaskNumber(e + 1, t, k)) }

\* The producer of item i of task T of segment s has stored.
ItemFed(s, T, i) ==
    Stored(s - 1, TaskNumber(s - 1, T \div TaskCount(s),
                             ProducerWithin(s - 1, Address(s, T % TaskCount(s), i))))

\* A warp runs the tasks that leave its number as residue.
OwnTask == \A w \in Worker : task[w] % RoleWorkers[Role(w)] = w[2]

\* Before the grid barrier no warp is in its task loop ...
BeforeBarrier ==
    \A w \in Worker : pc[w] \in {"clear", "sync"} =>
        /\ task[w] = w[2]
        /\ \A v \in Worker : pc[v] \in {"clear", "sync"}

\* ... and those that wait at it have cleared their share of the words.
ShareCleared ==
    \A w \in Worker : pc[w] = "sync" =>
        \A word \in ClearShare[w] :
            /\ word \in ReadyWord => ready[word] = 0
            /\ word \in StateWord => consume_state[word] = Unread /\ consumed_epoch[word] = 0

\* A ring token names a transform that its producer task has stored.
TokenTrue ==
    Running => \A e \in RingEdge : \A q \in 0 .. Slots[e] - 1, p \in Task(e) :
        ready[<<e, q, p>>] # 0 =>
            /\ ready[<<e, q, p>>] - 1 \in InSlot(e, q)
            /\ Stored(e, TaskNumber(e, ready[<<e, q, p>>] - 1, p))

\* A lane that saw its token, or has loaded, has a producer that stored.
LoadFed ==
    \A w \in Worker : (pc[w] = "load" /\ RingSource(Role(w))) =>
        \A i \in Item(w) : (i \in granted[w] \/ i \notin pending[w]) =>
            ItemFed(Role(w), task[w], i)

TakenFed ==
    \A e \in RingEdge : \A T \in 0 .. TotalTasks(e + 1) - 1 :
        Taken(e + 1, T) =>
            \A i \in 0 .. SegmentN[e + 1] - 1 : ItemFed(e + 1, T, i)

\* A slot is entered for transform u after every earlier transform in it was
\* released by all its consumers.
HandedOver ==
    \A e \in RingEdge : \A t, u \in 0 .. Batch - 1, p \in Task(e) :
        (t < u /\ Slot(e, t) = Slot(e, u) /\ Started(e, TaskNumber(e, u, p))) =>
            ReleasedOf(e, t) = Task(e + 1)

CountTrue ==
    Running => \A e \in RingEdge : \A q \in 0 .. Slots[e] - 1 :
        LET c == consume_state[<<e, q>>]
        IN  /\ c.epoch # 0 => c.epoch - 1 \in InSlot(e, q)
            /\ \A t \in InSlot(e, q) :
                /\ t + 1 = c.epoch => c.count = Cardinality(ReleasedOf(e, t))
                /\ t + 1 < c.epoch => ReleasedOf(e, t) = Task(e + 1)
                /\ t + 1 > c.epoch => ReleasedOf(e, t) = {}

\* Only the last consumer of a transform signals.
SignalTrue ==
    \A w \in Worker : pc[w] = "signal" =>
        ReleasedOf(Role(w) - 1, Transform(w)) = Task(Role(w))

EpochTrue ==
    Running => \A e \in RingEdge : \A q \in 0 .. Slots[e] - 1 :
        \A t \in InSlot(e, q) :
            t + 1 <= consumed_epoch[<<e, q>>] => ReleasedOf(e, t) = Task(e + 1)

RingInv ==
    /\ TypeInv
    /\ OwnTask
    /\ BeforeBarrier
    /\ ShareCleared
    /\ TokenTrue
    /\ LoadFed
    /\ TakenFed
    /\ HandedOver
    /\ CountTrue
    /\ SignalTrue
    /\ EpochTrue

----------------------------------------------------------------------------
(* What one step of a warp can change.                                     *)

\* The steps that end a task.
EndsTask(w) == Publish(w) \/ (FinishStore(w) /\ FinalSegment(Role(w)))

SamePhase(w) ==
    /\ task' = task
    /\ (pc'[w] \in StartedPhase) <=> (pc[w] \in StartedPhase)
    /\ (pc'[w] \in Loaded) <=> (pc[w] \in Loaded)
    /\ (pc'[w] \in Counted) <=> (pc[w] \in Counted)

LEMMA StepFrame ==
    ASSUME TypeInv, NEW w \in Worker, Step(w)
    PROVE  /\ pc' = [pc EXCEPT ![w] = pc'[w]]
           /\ task' = [task EXCEPT ![w] = task'[w]]
           /\ pending' = [pending EXCEPT ![w] = pending'[w]]
           /\ granted' = [granted EXCEPT ![w] = granted'[w]]
           /\ \/ Clear(w) /\ task' = task /\ pc[w] = "clear" /\ pc'[w] = "sync"
              \/ EndsTask(w) /\ NextTask(w) /\ pc[w] \in {"store", "publish"}
              \/ AcquireSlot(w) /\ task' = task /\ pc[w] = "acquire" /\ pc'[w] \in {"wave", "load"}
              \/ /\ FinishLoad(w) /\ task' = task /\ pc[w] = "load"
                 /\ pc'[w] = IF RingSource(Role(w)) THEN "observe" ELSE "compute"
              \/ SwapConsume(w) /\ task' = task /\ pc[w] = "swap" /\ pc'[w] \in {"signal", "compute"}
              \/ SamePhase(w) /\ pc[w] \in StartedPhase
<1> DEFINE Result0 ==
            /\ pc' = [pc EXCEPT ![w] = pc'[w]]
            /\ task' = [task EXCEPT ![w] = task'[w]]
            /\ pending' = [pending EXCEPT ![w] = pending'[w]]
            /\ granted' = [granted EXCEPT ![w] = granted'[w]]
<1>1. /\ pc \in [Worker -> {"clear", "sync", "acquire", "wave", "load", "done"} \cup Loaded]
      /\ task \in [Worker -> Nat]
      /\ pending \in [Worker -> SUBSET Nat]
      /\ granted \in [Worker -> SUBSET Nat]
  BY DEF TypeInv, TypeOK
<1>2. CASE Clear(w)
  BY <1>1, <1>2 DEF Clear, Goto
<1>3. CASE AcquireSlot(w)
  BY <1>1, <1>3 DEF AcquireSlot, Goto
<1>4. CASE AwaitWave(w)
  <2>1. Result0
    BY <1>1, <1>4 DEF AwaitWave, Goto
  <2>2. SamePhase(w) /\ pc[w] \in StartedPhase
    BY <1>1, <1>4 DEF AwaitWave, Goto, SamePhase, StartedPhase, Loaded, Counted
  <2> QED
    BY <2>1, <2>2
<1>5. ASSUME NEW i \in Item(w), AwaitToken(w, i)
      PROVE  Result0 /\ SamePhase(w) /\ pc[w] \in StartedPhase
  <2>1. Result0
    BY <1>1, <1>5 DEF AwaitToken
  <2>2. SamePhase(w) /\ pc[w] \in StartedPhase
    BY <1>1, <1>5 DEF AwaitToken, SamePhase, StartedPhase
  <2> QED
    BY <2>1, <2>2
<1>6. ASSUME NEW i \in Item(w), LoadElement(w, i)
      PROVE  Result0 /\ SamePhase(w) /\ pc[w] \in StartedPhase
  <2>1. Result0
    BY <1>1, <1>6 DEF LoadElement
  <2>2. SamePhase(w) /\ pc[w] \in StartedPhase
    BY <1>1, <1>6 DEF LoadElement, SamePhase, StartedPhase
  <2> QED
    BY <2>1, <2>2
<1>7. CASE FinishLoad(w)
  BY <1>1, <1>7 DEF FinishLoad, Goto
<1>8. CASE ObserveConsume(w)
  <2>1. Result0
    BY <1>1, <1>8 DEF ObserveConsume, Goto
  <2>2. SamePhase(w) /\ pc[w] \in StartedPhase
    BY <1>1, <1>8 DEF ObserveConsume, Goto, SamePhase, StartedPhase, Loaded, Counted
  <2> QED
    BY <2>1, <2>2
<1>9. CASE SwapConsume(w)
  BY <1>1, <1>9 DEF SwapConsume, Goto
<1>10. CASE RetrySwap(w)
  <2>1. Result0
    BY <1>1, <1>10 DEF RetrySwap
  <2>2. SamePhase(w) /\ pc[w] \in StartedPhase
    BY <1>1, <1>10 DEF RetrySwap, SamePhase, StartedPhase, Loaded
  <2> QED
    BY <2>1, <2>2
<1>11. CASE SignalConsumed(w)
  <2>1. Result0
    BY <1>1, <1>11 DEF SignalConsumed, Goto
  <2>2. SamePhase(w) /\ pc[w] \in StartedPhase
    BY <1>1, <1>11 DEF SignalConsumed, Goto, SamePhase, StartedPhase, Loaded, Counted
  <2> QED
    BY <2>1, <2>2
<1>12. CASE Compute(w)
  <2>1. Result0
    BY <1>1, <1>12 DEF Compute, Goto
  <2>2. SamePhase(w) /\ pc[w] \in StartedPhase
    BY <1>1, <1>12 DEF Compute, Goto, SamePhase, StartedPhase, Loaded, Counted
  <2> QED
    BY <2>1, <2>2
<1>13. ASSUME NEW i \in Item(w), StoreElement(w, i)
       PROVE  Result0 /\ SamePhase(w) /\ pc[w] \in StartedPhase
  <2>1. Result0
    BY <1>1, <1>13 DEF StoreElement
  <2>2. SamePhase(w) /\ pc[w] \in StartedPhase
    BY <1>1, <1>13 DEF StoreElement, SamePhase, StartedPhase, Loaded
  <2> QED
    BY <2>1, <2>2
<1>14. CASE FinishStore(w)
  <2>1. CASE FinalSegment(Role(w))
    <3>1. EndsTask(w) /\ NextTask(w) /\ pc[w] = "store"
      BY <1>14, <2>1 DEF FinishStore, EndsTask
    <3>2. Result0
      BY <1>1, <1>14, <3>1 DEF FinishStore, NextTask, Goto
    <3> QED
      BY <3>1, <3>2
  <2>2. CASE ~FinalSegment(Role(w))
    <3>1. Result0
      BY <1>1, <1>14, <2>2 DEF FinishStore, Goto
    <3>2. SamePhase(w) /\ pc[w] \in StartedPhase
      BY <1>1, <1>14, <2>2 DEF FinishStore, Goto, SamePhase, StartedPhase, Loaded, Counted
    <3> QED
      BY <3>1, <3>2
  <2> QED
    BY <2>1, <2>2
<1>15. CASE Publish(w)
  <2>1. EndsTask(w) /\ NextTask(w) /\ pc[w] = "publish"
    BY <1>15 DEF Publish, EndsTask
  <2>2. Result0
    BY <1>1, <1>15, <2>1 DEF Publish, NextTask, Goto
  <2> QED
    BY <2>1, <2>2
<1> QED
  BY <1>2, <1>3, <1>4, <1>5, <1>6, <1>7, <1>8, <1>9, <1>10, <1>11, <1>12, <1>13,
     <1>14, <1>15 DEF Step

LEMMA StepProgress ==
    ASSUME TypeInv, OwnTask, NEW w \in Worker, Step(w), ~Clear(w),
           NEW s \in Segment, NEW T \in Nat
    PROVE  /\ Stored(s, T) => Stored(s, T)'
           /\ Taken(s, T) => Taken(s, T)'
           /\ Released(s, T) => Released(s, T)'
           /\ Started(s, T) => Started(s, T)'
           /\ Stored(s, T)' => \/ Stored(s, T)
                               \/ EndsTask(w) /\ s = Role(w) /\ T = task[w]
           /\ Taken(s, T)' => \/ Taken(s, T)
                              \/ FinishLoad(w) /\ s = Role(w) /\ T = task[w]
           /\ Released(s, T)' => \/ Released(s, T)
                                 \/ SwapConsume(w) /\ s = Role(w) /\ T = task[w]
                                 \/ FinishLoad(w) /\ s = Role(w) /\ ~RingSource(s)
           /\ Started(s, T)' => \/ Started(s, T)
                                \/ AcquireSlot(w) /\ s = Role(w) /\ T = task[w]
<1> DEFINE v == Owner(s, T)
<1>1. v \in Worker /\ Role(v) = s /\ v[2] = (T % RoleWorkers[s])
  BY OwnerFacts
<1>2. /\ pc \in [Worker -> {"clear", "sync", "acquire", "wave", "load", "done"} \cup Loaded]
      /\ task \in [Worker -> Nat]
  BY DEF TypeInv, TypeOK
<1>3. pc' = [pc EXCEPT ![w] = pc'[w]] /\ task' = [task EXCEPT ![w] = task'[w]]
  BY StepFrame
<1>4. Owner(s, T)' = v
  BY DEF Owner
<1> HIDE DEF v
<1> USE <1>1, <1>4 DEF Stored, Taken, Released, Started
<1>5. CASE v # w
  <2>1. pc'[v] = pc[v] /\ task'[v] = task[v]
    BY <1>2, <1>3, <1>5
  <2> QED
    BY <2>1 DEF v
<1>6. CASE v = w
  <2>1. s = Role(w)
    BY <1>6
  <2>2. CASE EndsTask(w) /\ NextTask(w) /\ pc[w] \in {"store", "publish"}
    <3>1. /\ task[w] \in Nat /\ task'[w] = task[w] + RoleWorkers[s]
          /\ pc'[w] \in {"acquire", "done"}
          /\ RoleWorkers[s] \in Nat \ {0}
      BY <1>2, <2>1, <2>2, NextTaskType, KernelAssumption DEF NextTask
    <3>2. (task[w] % RoleWorkers[s]) = (T % RoleWorkers[s])
      BY <1>6, <2>1 DEF OwnTask
    <3>3. T < task'[w] => T <= task[w]
      <4>1. task[w] < T => task[w] + RoleWorkers[s] <= T
        BY <3>1, <3>2, SameResidue
      <4> QED
        BY <3>1, <4>1
    <3>4. T < task'[w] <=> T < task[w] \/ T = task[w]
      BY <3>1, <3>3
    <3>5. pc'[w] \notin StartedPhase /\ pc'[w] \notin Loaded /\ pc'[w] \notin Counted
      BY <3>1 DEF StartedPhase, Loaded, Counted
    <3>6. pc[w] \in StartedPhase /\ pc[w] \in Loaded /\ pc[w] \in Counted
      BY <2>2 DEF StartedPhase, Loaded, Counted
    <3> QED
      BY <1>6, <2>1, <2>2, <3>4, <3>5, <3>6 DEF v
  <2>3. CASE AcquireSlot(w) /\ task' = task /\ pc[w] = "acquire" /\ pc'[w] \in {"wave", "load"}
    <3>1. /\ pc[w] \notin StartedPhase /\ pc[w] \notin Loaded /\ pc[w] \notin Counted
          /\ pc'[w] \notin Loaded /\ pc'[w] \notin Counted
      BY <2>3 DEF StartedPhase, Loaded, Counted
    <3> QED
      BY <1>6, <2>1, <2>3, <3>1 DEF v
  <2>4. CASE /\ FinishLoad(w) /\ task' = task /\ pc[w] = "load"
             /\ pc'[w] = IF RingSource(Role(w)) THEN "observe" ELSE "compute"
    <3>1. /\ pc[w] \in StartedPhase /\ pc'[w] \in StartedPhase
          /\ pc[w] \notin Loaded /\ pc[w] \notin Counted
          /\ pc'[w] \in Counted => ~RingSource(s)
      BY <2>1, <2>4 DEF StartedPhase, Loaded, Counted
    <3> QED
      BY <1>6, <2>1, <2>4, <3>1 DEF v
  <2>5. CASE SwapConsume(w) /\ task' = task /\ pc[w] = "swap" /\ pc'[w] \in {"signal", "compute"}
    <3>1. /\ pc[w] \in StartedPhase /\ pc'[w] \in StartedPhase
          /\ pc[w] \in Loaded /\ pc'[w] \in Loaded
          /\ pc[w] \notin Counted
      BY <2>5 DEF StartedPhase, Loaded, Counted
    <3> QED
      BY <1>6, <2>1, <2>5, <3>1 DEF v
  <2>6. CASE SamePhase(w)
    BY <1>6, <2>6 DEF v, SamePhase
  <2> QED
    BY <2>2, <2>3, <2>4, <2>5, <2>6, StepFrame
<1> QED
  BY <1>5, <1>6

LEMMA RingEdgeFacts ==
    ASSUME NEW e \in RingEdge
    PROVE  /\ e \in Edge /\ e \in Segment /\ e + 1 \in Segment /\ e \in Nat
           /\ (e + 1) - 1 = e
           /\ Ring(e) /\ RingSource(e + 1) /\ ~FinalSegment(e)
           /\ Slots[e] \in Nat \ {0}
           /\ ReadyTokens(e) = TaskCount(e)
<1>1. e \in Edge /\ Ring(e) /\ Count \in Nat \ {0}
  BY GeometryAssumption DEF RingEdge
<1>2. e \in Segment /\ e + 1 \in Segment /\ e \in Nat /\ (e + 1) - 1 = e /\ e + 1 # 0
  BY <1>1 DEF Edge, Segment
<1>3. Slots[e] \in Nat \ {0}
  BY <1>1, KernelAssumption
<1>4. e + 1 # Count
  BY <1>1, <1>2 DEF Edge
<1> QED
  BY <1>1, <1>2, <1>3, <1>4 DEF RingSource, FinalSegment, ReadyTokens

\* A consumer of a ring edge, seen from its warp.
LEMMA RingSourceFacts ==
    ASSUME NEW w \in Worker, RingSource(Role(w))
    PROVE  Role(w) - 1 \in RingEdge /\ (Role(w) - 1) + 1 = Role(w)
<1>1. Role(w) \in Segment /\ Role(w) # 0 /\ Ring(Role(w) - 1)
  BY WorkerFacts DEF RingSource
<1> QED
  BY <1>1 DEF Ring, RingEdge, Segment

\* A warp inside its loop, its task and the task's owner.
LEMMA TaskOfWarp ==
    ASSUME TypeInv, OwnTask, NEW w \in Worker
    PROVE  /\ task[w] \in Nat
           /\ Owner(Role(w), task[w]) = w
           /\ TaskNumber(Role(w), Transform(w), Within(w)) = task[w]
<1>1. task[w] \in Nat
  BY DEF TypeInv, TypeOK
<1>2. Owner(Role(w), task[w]) = w
  BY WorkerFacts DEF Owner, OwnTask, Role
<1> QED
  BY <1>1, <1>2, NumberOf, WorkerFacts DEF Transform, Within

LEMMA StepRunning ==
    ASSUME TypeInv, BeforeBarrier, NEW w \in Worker, Step(w), ~Clear(w)
    PROVE  Running /\ Running'
<1>1. pc[w] \notin {"clear", "sync"}
  BY StepFrame DEF StartedPhase, Loaded
<1>2. Running
  BY <1>1 DEF Running, BeforeBarrier
<1>3. pc'[w] \notin {"clear", "sync"}
  <2>1. CASE EndsTask(w) /\ NextTask(w)
    BY <2>1, NextTaskType
  <2>2. CASE SamePhase(w) /\ pc[w] \in StartedPhase
    BY <2>2 DEF SamePhase, StartedPhase, Loaded
  <2> QED
    BY <2>1, <2>2, StepFrame
<1>4. \A v \in Worker : v # w => pc'[v] = pc[v]
  BY StepFrame DEF TypeInv, TypeOK
<1> QED
  BY <1>2, <1>3, <1>4 DEF Running

LEMMA ReleasedProgress ==
    ASSUME TypeInv, OwnTask, NEW w \in Worker, Step(w), ~Clear(w),
           NEW e \in RingEdge, NEW t \in 0 .. Batch - 1
    PROVE  /\ ReleasedOf(e, t) \subseteq ReleasedOf(e, t)'
           /\ ReleasedOf(e, t)' \subseteq Task(e + 1)
           /\ ~(SwapConsume(w) /\ Role(w) = e + 1 /\ t = Transform(w)) =>
                    ReleasedOf(e, t)' = ReleasedOf(e, t)
           /\ (SwapConsume(w) /\ Role(w) = e + 1 /\ t = Transform(w)) =>
                    /\ ReleasedOf(e, t)' = ReleasedOf(e, t) \cup {Within(w)}
                    /\ Within(w) \notin ReleasedOf(e, t)
                    /\ Within(w) \in Task(e + 1)
<1> DEFINE s == e + 1
<1>1. s \in Segment /\ RingSource(s) /\ s # 0
  BY RingEdgeFacts DEF RingSource
<1>2. \A k \in Task(s) :
        /\ TaskNumber(s, t, k) \in Nat
        /\ TaskNumber(s, t, k) \div TaskCount(s) = t
        /\ (TaskNumber(s, t, k) % TaskCount(s)) = k
  BY <1>1, NumberFacts
<1> HIDE DEF s
<1>3. ReleasedOf(e, t) = {k \in Task(s) : Released(s, TaskNumber(s, t, k))}
  BY DEF ReleasedOf, s
<1>4. ReleasedOf(e, t)' = {k \in Task(s) : Released(s, TaskNumber(s, t, k))'}
  BY DEF ReleasedOf, s, Released, Stored, Owner, TaskNumber
<1>5. \A k \in Task(s) :
        /\ Released(s, TaskNumber(s, t, k)) => Released(s, TaskNumber(s, t, k))'
        /\ Released(s, TaskNumber(s, t, k))' =>
                \/ Released(s, TaskNumber(s, t, k))
                \/ SwapConsume(w) /\ s = Role(w) /\ TaskNumber(s, t, k) = task[w]
  BY <1>1, <1>2, StepProgress
<1>6. \A k \in Task(s) : (s = Role(w) /\ TaskNumber(s, t, k) = task[w]) =>
            t = Transform(w) /\ k = Within(w)
  BY <1>2 DEF Transform, Within
<1>7. ASSUME SwapConsume(w), Role(w) = s, t = Transform(w)
      PROVE  /\ Within(w) \in Task(s)
             /\ \A k \in Task(s) : k = Within(w) =>
                    /\ ~Released(s, TaskNumber(s, t, k))
                    /\ Released(s, TaskNumber(s, t, k))'
  <2>1. pc[w] = "swap" /\ pc'[w] \in {"signal", "compute"} /\ task' = task
    BY <1>7 DEF TypeInv, TypeOK, SwapConsume, Goto
  <2>2. Within(w) \in Task(s)
    BY <1>7, <2>1, ReachFacts DEF Busy, Loaded
  <2>3. TaskNumber(s, t, Within(w)) = task[w] /\ Owner(s, task[w]) = w /\ task[w] \in Nat
    BY <1>7, TaskOfWarp
  <2>4. ASSUME NEW T, T = task[w] PROVE ~Released(s, T) /\ Released(s, T)'
    <3>1. Owner(s, T) = w /\ Owner(s, T)' = w
      BY <2>3, <2>4 DEF Owner
    <3> QED
      BY <2>1, <2>3, <2>4, <3>1 DEF Released, Stored, Counted
  <2> QED
    BY <2>2, <2>3, <2>4
<1>8. CASE SwapConsume(w) /\ Role(w) = s /\ t = Transform(w)
  BY <1>3, <1>4, <1>5, <1>6, <1>7, <1>8 DEF s
<1>9. CASE ~(SwapConsume(w) /\ Role(w) = s /\ t = Transform(w))
  BY <1>3, <1>4, <1>5, <1>6, <1>9 DEF s
<1> QED
  BY <1>8, <1>9

LEMMA WordFrame ==
    ASSUME NEW w \in Worker, Step(w), ~Clear(w)
    PROVE  /\ ~Publish(w) => ready' = ready
           /\ ~SwapConsume(w) => consume_state' = consume_state
           /\ ~SignalConsumed(w) => consumed_epoch' = consumed_epoch
  BY DEF Step, AcquireSlot, AwaitWave, AwaitToken, LoadElement, FinishLoad,
         ObserveConsume, SwapConsume, RetrySwap, SignalConsumed, Compute,
         StoreElement, FinishStore, Publish

\* A task that ends is stored.
LEMMA EndsTaskStores ==
    ASSUME TypeInv, OwnTask, NEW w \in Worker, NextTask(w),
           NEW T, T = task[w]
    PROVE  Stored(Role(w), T)'
<1>1. task[w] \in Nat /\ Owner(Role(w), T) = w /\ RoleWorkers[Role(w)] \in Nat \ {0}
  BY TaskOfWarp, WorkerFacts
<1>2. task'[w] = task[w] + RoleWorkers[Role(w)]
  BY NextTaskType DEF NextTask, TypeInv, TypeOK
<1>3. Owner(Role(w), T)' = w
  BY <1>1 DEF Owner
<1> QED
  BY <1>1, <1>2, <1>3 DEF Stored

\* The producer of an item of a task in range is a task in range.
LEMMA ItemProducer ==
    ASSUME NEW s \in Segment, s # 0, NEW T \in Nat, T < TotalTasks(s),
           NEW i \in 0 .. SegmentN[s] - 1
    PROVE  LET p == ProducerWithin(s - 1, Address(s, T % TaskCount(s), i))
               t == T \div TaskCount(s)
           IN  /\ s - 1 \in Segment
               /\ t \in 0 .. Batch - 1
               /\ T % TaskCount(s) \in Task(s)
               /\ p \in Task(s - 1)
               /\ TaskNumber(s - 1, t, p) \in Nat
<1>1. s - 1 \in Segment
  BY GeometryAssumption DEF Segment
<1>2. T \div TaskCount(s) \in 0 .. Batch - 1 /\ T % TaskCount(s) \in Task(s)
  BY TaskFacts
<1>3. Address(s, T % TaskCount(s), i) \in Element
  BY <1>2, AddressInRange
<1>4. ProducerWithin(s - 1, Address(s, T % TaskCount(s), i)) \in Task(s - 1)
  BY <1>1, <1>3, EveryElementAddressed
<1> QED
  BY <1>1, <1>2, <1>4, NumberFacts

LEMMA ItemFedStays ==
    ASSUME TypeInv, OwnTask, NEW w \in Worker, Step(w), ~Clear(w),
           NEW s \in Segment, s # 0, NEW T \in Nat, T < TotalTasks(s),
           NEW i \in 0 .. SegmentN[s] - 1, ItemFed(s, T, i)
    PROVE  ItemFed(s, T, i)'
<1> DEFINE X == TaskNumber(s - 1, T \div TaskCount(s),
                           ProducerWithin(s - 1, Address(s, T % TaskCount(s), i)))
<1>1. s - 1 \in Segment /\ X \in Nat
  BY ItemProducer
<1> HIDE DEF X
<1>2. Stored(s - 1, X)
  BY DEF ItemFed, X
<1>3. Stored(s - 1, X)'
  BY <1>1, <1>2, StepProgress
<1> QED
  BY <1>3 DEF ItemFed, X, Stored, Owner, TaskNumber

----------------------------------------------------------------------------
(* Each part of the invariant under a step of a warp in its task loop.     *)

LEMMA OwnTaskStep ==
    ASSUME TypeInv, OwnTask, NEW w \in Worker, Step(w)
    PROVE  OwnTask'
<1>1. task \in [Worker -> Nat]
  BY DEF TypeInv, TypeOK
<1>2. CASE NextTask(w)
  <2>1. RoleWorkers[Role(w)] \in Nat \ {0}
    BY WorkerFacts
  <2>2. task' = [task EXCEPT ![w] = @ + RoleWorkers[Role(w)]]
    BY <1>1, <1>2 DEF NextTask
  <2>3. (task[w] + RoleWorkers[Role(w)]) % RoleWorkers[Role(w)] = task[w] % RoleWorkers[Role(w)]
    BY <1>1, <2>1, ResidueStep
  <2> QED
    BY <1>1, <2>2, <2>3 DEF OwnTask
<1>3. CASE task' = task
  BY <1>3 DEF OwnTask
<1> QED
  BY <1>2, <1>3, StepFrame DEF SamePhase

LEMMA TokenTrueStep ==
    ASSUME RingInv, NEW w \in Worker, Step(w), ~Clear(w)
    PROVE  TokenTrue'
<1> USE DEF RingInv
<1> SUFFICES ASSUME NEW e \in RingEdge, NEW q \in 0 .. Slots[e] - 1, NEW p \in Task(e),
                    ready'[<<e, q, p>>] # 0
             PROVE  /\ ready'[<<e, q, p>>] - 1 \in InSlot(e, q)
                    /\ Stored(e, TaskNumber(e, ready[<<e, q, p>>] - 1, p))'
  BY DEF TokenTrue, InSlot
<1>1. Running
  BY StepRunning
<1>2. e \in Segment /\ Ring(e) /\ e \in Edge
  BY RingEdgeFacts
<1>3. CASE ready'[<<e, q, p>>] = ready[<<e, q, p>>]
  <2> DEFINE u == ready[<<e, q, p>>] - 1
  <2>1. u \in InSlot(e, q) /\ Stored(e, TaskNumber(e, u, p))
    BY <1>1, <1>3 DEF TokenTrue
  <2>2. TaskNumber(e, u, p) \in Nat
    BY <1>2, <2>1, NumberFacts DEF InSlot
  <2>3. ASSUME NEW T, T = TaskNumber(e, u, p) PROVE Stored(e, T)'
    BY <1>2, <2>1, <2>2, <2>3, StepProgress
  <2>4. Stored(e, TaskNumber(e, u, p))'
    <3>1. TaskNumber(e, u, p)' = TaskNumber(e, u, p)
      BY <1>3 DEF TaskNumber
    <3> QED
      BY <2>3, <3>1 DEF Stored, Owner
  <2> QED
    BY <1>3, <2>1, <2>4
<1>4. CASE ready'[<<e, q, p>>] # ready[<<e, q, p>>]
  <2>1. Publish(w)
    BY <1>4, WordFrame
  <2>2. pc[w] \in Busy /\ NextTask(w) /\ task[w] \in Nat
    BY <2>1 DEF Publish, Busy, Loaded, TypeInv, TypeOK
  <2>3. Transform(w) \in 0 .. Batch - 1 /\ Transform(w) \in Nat /\ Within(w) \in Task(Role(w))
    BY <2>2, ReachFacts
  <2>4. ready \in [ReadyWord -> Nat]
    BY DEF TypeInv, TypeOK
  <2>5. /\ Ring(Role(w)) /\ e = Role(w)
        /\ q = Slot(e, Transform(w)) /\ p = Within(w)
        /\ ready'[<<e, q, p>>] = Transform(w) + 1
    <3>1. CASE Ring(Role(w))
      BY <1>4, <2>1, <2>4, <3>1, WordFacts, <1>2, RingEdgeFacts DEF Publish, Task
    <3>2. CASE ~Ring(Role(w))
      BY <1>2, <1>4, <2>1, <2>4, <3>2 DEF Publish
    <3> QED
      BY <3>1, <3>2
  <2>6. ready'[<<e, q, p>>] - 1 = Transform(w)
    BY <2>3, <2>5
  <2>7. TaskNumber(e, Transform(w), p) = task[w]
    BY <2>5, TaskOfWarp
  <2>8. ASSUME NEW T, T = task[w] PROVE Stored(e, T)'
    BY <2>2, <2>5, <2>8, EndsTaskStores
  <2>9. Stored(e, TaskNumber(e, ready[<<e, q, p>>] - 1, p))'
    <3>1. TaskNumber(e, ready[<<e, q, p>>] - 1, p)' = task[w]
      BY <2>6, <2>7 DEF TaskNumber
    <3> QED
      BY <2>8, <3>1 DEF Stored, Owner
  <2> QED
    BY <2>3, <2>5, <2>6, <2>9 DEF InSlot
<1> QED
  BY <1>3, <1>4

\* A warp that has not announced its task keeps the slot from being released.
LEMMA NotReleased ==
    ASSUME TypeInv, OwnTask, NEW w \in Worker, RingSource(Role(w)),
           pc[w] \in Busy \ Counted
    PROVE  /\ Within(w) \in Task(Role(w))
           /\ Within(w) \notin ReleasedOf(Role(w) - 1, Transform(w))
<1>1. Within(w) \in Task(Role(w))
  BY ReachFacts
<1>2. ~Released(Role(w), task[w])
  BY TaskOfWarp DEF Released, Stored
<1>3. (Role(w) - 1) + 1 = Role(w)
  BY RingSourceFacts
<1> QED
  BY <1>1, <1>2, <1>3, TaskOfWarp DEF ReleasedOf

\* What a lane that sees its token may conclude.
LEMMA TokenMeansFed ==
    ASSUME RingInv, Running, NEW w \in Worker, RingSource(Role(w)), pc[w] = "load",
           NEW i \in Item(w), TokenReady(w, i)
    PROVE  ItemFed(Role(w), task[w], i)
<1> USE DEF RingInv
<1> DEFINE s == Role(w)
           e == Role(w) - 1
           t == Transform(w)
           p == ProducerWithin(e, Here(w, i))
           u == ready[TokenWord(w, i)] - 1
<1>1. pc[w] \in Busy /\ pc[w] \in Busy \ Counted
  BY DEF Busy, Counted
<1>2. e \in RingEdge /\ e + 1 = s
  BY RingSourceFacts
<1>3. e \in Edge /\ e \in Segment
  BY <1>2, RingEdgeFacts
<1>4. t \in 0 .. Batch - 1 /\ t \in Nat /\ Here(w, i) \in Element
  BY <1>1, ReachFacts
<1>5. p \in Task(e)
  BY <1>3, <1>4, EveryElementAddressed
<1>6. Slot(e, t) \in 0 .. Slots[e] - 1
  BY <1>3, <1>4, SlotFacts
<1>7. TokenWord(w, i) = <<e, Slot(e, t), p>>
  BY DEF TokenWord
<1>8. TokenWord(w, i) \in ReadyWord
  BY <1>2, <1>3, <1>5, <1>6, <1>7, WordFacts, RingEdgeFacts DEF Task
<1>9. ready[TokenWord(w, i)] \in Nat /\ ready[TokenWord(w, i)] >= t + 1
  BY <1>8 DEF TypeInv, TypeOK, TokenReady
<1>10. u \in Int /\ u >= t
  BY <1>4, <1>9
<1>11. u \in InSlot(e, Slot(e, t)) /\ Stored(e, TaskNumber(e, u, p))
  <2>1. ready[<<e, Slot(e, t), p>>] # 0
    BY <1>4, <1>7, <1>9
  <2> QED
    BY <2>1, <1>2, <1>5, <1>6, <1>7 DEF TokenTrue
<1>12. CASE u > t
  <2>1. Slot(e, t) = Slot(e, u) /\ u \in 0 .. Batch - 1
    BY <1>11 DEF InSlot
  <2>2. Started(e, TaskNumber(e, u, p))
    BY <1>11 DEF Started
  <2>3. ReleasedOf(e, t) = Task(e + 1)
    BY <1>2, <1>4, <1>5, <1>12, <2>1, <2>2 DEF HandedOver
  <2> QED
    BY <1>1, <1>2, <2>3, NotReleased
<1>13. CASE u = t
  BY <1>11, <1>13 DEF ItemFed, Transform, Within, Here
<1> QED
  BY <1>4, <1>10, <1>12, <1>13

LEMMA LoadFedStep ==
    ASSUME RingInv, NEW w \in Worker, Step(w), ~Clear(w)
    PROVE  LoadFed'
<1> USE DEF RingInv
<1> SUFFICES ASSUME NEW v \in Worker, pc'[v] = "load", RingSource(Role(v)),
                    NEW i \in Item(v), i \in granted'[v] \/ i \notin pending'[v]
             PROVE  ItemFed(Role(v), task[v], i)'
  BY DEF LoadFed
<1>1. /\ pc \in [Worker -> {"clear", "sync", "acquire", "wave", "load", "done"} \cup Loaded]
      /\ task \in [Worker -> Nat]
      /\ pending \in [Worker -> SUBSET Nat]
      /\ granted \in [Worker -> SUBSET Nat]
  BY DEF TypeInv, TypeOK
<1>2. Running /\ Role(v) \in Segment /\ Role(v) # 0 /\ i \in 0 .. SegmentN[Role(v)] - 1
  BY StepRunning, WorkerFacts DEF RingSource, Item
<1>3. ASSUME ItemFed(Role(v), task[v], i), task'[v] = task[v], pc[v] \in Busy
      PROVE  ItemFed(Role(v), task[v], i)'
  <2> DEFINE T == task[v]
  <2>1. T \in Nat /\ T < TotalTasks(Role(v))
    BY <1>1, <1>3 DEF TypeInv, PhaseOK
  <2> HIDE DEF T
  <2>2. ItemFed(Role(v), T, i)
    BY <1>3 DEF T
  <2>3. ASSUME NEW X, X = T PROVE ItemFed(Role(v), X, i)'
    BY <1>2, <2>1, <2>2, <2>3, ItemFedStays
  <2> QED
    BY <1>3, <2>3 DEF T, ItemFed, Stored, Owner, TaskNumber
<1>4. CASE v # w
  <2>1. /\ pc'[v] = pc[v] /\ task'[v] = task[v]
        /\ pending'[v] = pending[v] /\ granted'[v] = granted[v]
    BY <1>1, <1>4, StepFrame
  <2>2. ItemFed(Role(v), task[v], i) /\ pc[v] \in Busy
    BY <2>1 DEF LoadFed, Busy
  <2> QED
    BY <1>3, <2>1, <2>2
<1>5. CASE v = w
  <2>1. \/ AcquireSlot(w) \/ AwaitWave(w)
        \/ \E j \in Item(w) : AwaitToken(w, j)
        \/ \E j \in Item(w) : LoadElement(w, j)
    <3>1. ~FinishLoad(w) /\ ~ObserveConsume(w) /\ ~SwapConsume(w) /\ ~SignalConsumed(w) /\ ~Compute(w)
      BY <1>1, <1>5 DEF FinishLoad, ObserveConsume, SwapConsume, SignalConsumed, Compute, Goto
    <3>2. ~RetrySwap(w) /\ \A j : ~StoreElement(w, j)
      BY <1>1, <1>5 DEF RetrySwap, StoreElement
    <3>3. ~FinishStore(w) /\ ~Publish(w)
      <4>1. ~NextTask(w)
        BY <1>5, NextTaskType
      <4> QED
        BY <1>1, <1>5, <4>1 DEF FinishStore, Publish, Goto
    <3> QED
      BY <3>1, <3>2, <3>3 DEF Step
  <2>2. CASE AcquireSlot(w)
    BY <1>1, <1>5, <2>2 DEF AcquireSlot, TypeInv, PhaseOK
  <2>3. CASE AwaitWave(w)
    BY <1>5, <2>3 DEF AwaitWave, TypeInv, PhaseOK, AggregatedSource, RingSource
  <2>4. ASSUME NEW j \in Item(w), AwaitToken(w, j) PROVE ItemFed(Role(v), task[v], i)'
    <3>1. pc[w] = "load" /\ task' = task /\ TokenReady(w, j)
      BY <2>4 DEF AwaitToken
    <3>2. i = j \/ i \in granted[w] \/ i \notin pending[w]
      BY <1>1, <1>5, <2>4 DEF AwaitToken
    <3>3. ItemFed(Role(v), task[v], i)
      BY <1>2, <1>5, <3>1, <3>2, TokenMeansFed DEF LoadFed
    <3> QED
      BY <1>3, <1>5, <3>1, <3>3 DEF Busy
  <2>5. ASSUME NEW j \in Item(w), LoadElement(w, j) PROVE ItemFed(Role(v), task[v], i)'
    <3>1. pc[w] = "load" /\ task' = task
      BY <2>5 DEF LoadElement
    <3>2. i \in granted[w] \/ i \notin pending[w]
      BY <1>1, <1>5, <2>5 DEF LoadElement
    <3>3. ItemFed(Role(v), task[v], i)
      BY <1>5, <3>1, <3>2 DEF LoadFed
    <3> QED
      BY <1>3, <1>5, <3>1, <3>3 DEF Busy
  <2> QED
    BY <2>1, <2>2, <2>3, <2>4, <2>5
<1> QED
  BY <1>4, <1>5

LEMMA TakenFedStep ==
    ASSUME RingInv, NEW w \in Worker, Step(w), ~Clear(w)
    PROVE  TakenFed'
<1> USE DEF RingInv
<1> SUFFICES ASSUME NEW e \in RingEdge, NEW T \in 0 .. TotalTasks(e + 1) - 1,
                    Taken(e + 1, T)', NEW i \in 0 .. SegmentN[e + 1] - 1
             PROVE  ItemFed(e + 1, T, i)'
  BY DEF TakenFed
<1>1. e + 1 \in Segment /\ e + 1 # 0 /\ RingSource(e + 1)
  BY RingEdgeFacts DEF RingSource
<1>2. T \in Nat /\ T < TotalTasks(e + 1)
  <2>1. TotalTasks(e + 1) \in Nat
    BY <1>1, SegmentSizes, KernelAssumption, SMT DEF TotalTasks
  <2> QED
    BY <2>1
<1>3. ItemFed(e + 1, T, i)
  <2>1. CASE Taken(e + 1, T)
    BY <2>1 DEF TakenFed
  <2>2. CASE FinishLoad(w) /\ e + 1 = Role(w) /\ T = task[w]
    BY <1>1, <2>2 DEF FinishLoad, LoadFed, Item
  <2> QED
    BY <1>1, <1>2, <2>1, <2>2, StepProgress
<1> QED
  BY <1>1, <1>2, <1>3, ItemFedStays

LEMMA HandedOverStep ==
    ASSUME RingInv, NEW w \in Worker, Step(w), ~Clear(w)
    PROVE  HandedOver'
<1> USE DEF RingInv
<1> SUFFICES ASSUME NEW e \in RingEdge, NEW t \in 0 .. Batch - 1, NEW u \in 0 .. Batch - 1,
                    NEW p \in Task(e), t < u, Slot(e, t) = Slot(e, u),
                    Started(e, TaskNumber(e, u, p))'
             PROVE  ReleasedOf(e, t)' = Task(e + 1)
  BY DEF HandedOver
<1> DEFINE T == TaskNumber(e, u, p)
<1>1. e \in Segment /\ e \in Edge /\ Ring(e) /\ Slots[e] \in Nat \ {0}
  BY RingEdgeFacts
<1>2. T \in Nat /\ T \div TaskCount(e) = u /\ t \in Nat /\ u \in Nat
  BY <1>1, NumberFacts, KernelAssumption
<1> HIDE DEF T
<1>3. Started(e, T)'
  BY DEF T, Started, Stored, Owner, TaskNumber
<1>4. ReleasedOf(e, t) = Task(e + 1)
  <2>1. CASE Started(e, T)
    BY <2>1 DEF HandedOver, T
  <2>2. CASE AcquireSlot(w) /\ e = Role(w) /\ T = task[w]
    <3>1. Transform(w) = u
      BY <1>2, <2>2 DEF Transform
    <3>2. t + Slots[e] <= u
      <4>1. (t % Slots[e]) = (u % Slots[e])
        BY <1>1, SlotFacts
      <4> QED
        BY <1>1, <1>2, <4>1, SameResidue
    <3>3. Slot(e, t) \in 0 .. Slots[e] - 1 /\ <<e, Slot(e, t)>> \in StateWord
      BY <1>1, SlotFacts, WordFacts
    <3>4. consumed_epoch[<<e, Slot(e, t)>>] \in Nat
      BY <3>3 DEF TypeInv, TypeOK
    <3>5. Destination(w) = <<e, Slot(e, t)>>
      BY <2>2, <3>1 DEF Destination
    <3>6. consumed_epoch[<<e, Slot(e, t)>>] >= u - Slots[e] + 1
      BY <1>1, <1>2, <2>2, <3>1, <3>2, <3>5 DEF AcquireSlot, SlotFree
    <3>7. t + 1 <= consumed_epoch[<<e, Slot(e, t)>>]
      BY <1>1, <1>2, <3>2, <3>4, <3>6
    <3> QED
      BY <3>3, <3>7, StepRunning DEF EpochTrue, InSlot
  <2> QED
    BY <1>1, <1>2, <1>3, <2>1, <2>2, StepProgress
<1> QED
  BY <1>4, ReleasedProgress

LEMMA ReleasedFinite ==
    ASSUME NEW e \in RingEdge, NEW X \in SUBSET Task(e + 1)
    PROVE  /\ IsFiniteSet(X)
           /\ Cardinality(X) \in Nat
           /\ Cardinality(X) = TaskCount(e + 1) => X = Task(e + 1)
<1>1. TaskCount(e + 1) \in Nat \ {0}
  BY RingEdgeFacts, SegmentSizes
<1>2. IsFiniteSet(Task(e + 1)) /\ Cardinality(Task(e + 1)) = TaskCount(e + 1)
  BY <1>1, FS_Interval DEF Task
<1>3. /\ IsFiniteSet(X) /\ Cardinality(X) \in Nat
      /\ Cardinality(X) = Cardinality(Task(e + 1)) => X = Task(e + 1)
  BY <1>2, FS_Subset, FS_CardinalityType
<1> QED
  BY <1>2, <1>3

LEMMA SignalTrueStep ==
    ASSUME RingInv, CountTrue', NEW w \in Worker, Step(w), ~Clear(w)
    PROVE  SignalTrue'
<1> USE DEF RingInv
<1> SUFFICES ASSUME NEW v \in Worker, pc'[v] = "signal"
             PROVE  ReleasedOf(Role(v) - 1, Transform(v))' = Task(Role(v))
  BY DEF SignalTrue
<1>1. /\ pc \in [Worker -> {"clear", "sync", "acquire", "wave", "load", "done"} \cup Loaded]
      /\ task \in [Worker -> Nat]
  BY DEF TypeInv, TypeOK
<1>2. CASE pc[v] = "signal"
  <2>1. task'[v] = task[v] /\ (SwapConsume(w) => v # w)
    <3>1. CASE v # w
      BY <1>1, <3>1, StepFrame
    <3>2. CASE v = w
      <4>1. ~EndsTask(w) /\ ~SwapConsume(w)
        BY <1>2, <3>2 DEF EndsTask, Publish, FinishStore, SwapConsume
      <4> QED
        BY <3>2, <4>1, StepFrame DEF SamePhase
    <3> QED
      BY <3>1, <3>2
  <2>2. RingSource(Role(v)) /\ pc[v] \in Busy
    BY <1>2 DEF TypeInv, PhaseOK, Busy, Loaded
  <2>3. Role(v) - 1 \in RingEdge /\ (Role(v) - 1) + 1 = Role(v) /\ Transform(v) \in 0 .. Batch - 1
    BY <2>2, RingSourceFacts, ReachFacts
  <2> DEFINE t == Transform(v)
             e == Role(v) - 1
  <2> HIDE DEF t, e
  <2>4. ReleasedOf(e, t) = Task(Role(v))
    BY <1>2 DEF SignalTrue, t, e
  <2>5. ReleasedOf(e, t)' = ReleasedOf(e, t)'
    OBVIOUS
  <2>6. ASSUME NEW tt \in 0 .. Batch - 1, tt = t PROVE ReleasedOf(e, tt)' = Task(Role(v))
    <3>1. e \in RingEdge /\ e + 1 = Role(v)
      BY <2>3 DEF e
    <3>2. ReleasedOf(e, tt) \subseteq ReleasedOf(e, tt)' /\ ReleasedOf(e, tt)' \subseteq Task(e + 1)
      BY <3>1, ReleasedProgress
    <3> QED
      BY <2>4, <2>6, <3>1, <3>2
  <2>7. Transform(v)' = t
    BY <2>1 DEF Transform, t
  <2> QED
    BY <2>3, <2>6, <2>7 DEF t, e, ReleasedOf, Released, Stored, Owner, TaskNumber
<1>3. CASE pc[v] # "signal"
  <2>1. v = w
    BY <1>1, <1>3, StepFrame
  <2>2. SwapConsume(w)
    <3>1. ~FinishLoad(w) /\ ~ObserveConsume(w) /\ ~SignalConsumed(w) /\ ~Compute(w) /\ ~AcquireSlot(w) /\ ~AwaitWave(w)
      BY <1>1, <2>1 DEF FinishLoad, ObserveConsume, SignalConsumed, Compute, AcquireSlot, AwaitWave, Goto
    <3>2. ~RetrySwap(w) /\ \A j : ~StoreElement(w, j) /\ ~AwaitToken(w, j) /\ ~LoadElement(w, j)
      BY <1>1, <1>3, <2>1 DEF RetrySwap, StoreElement, AwaitToken, LoadElement
    <3>3. ~FinishStore(w) /\ ~Publish(w)
      <4>1. ~NextTask(w)
        BY <2>1, NextTaskType
      <4> QED
        BY <1>1, <2>1, <4>1 DEF FinishStore, Publish, Goto
    <3> QED
      BY <3>1, <3>2, <3>3 DEF Step
  <2>3. RingSource(Role(w)) /\ pc[w] \in Busy
    BY <2>2 DEF SwapConsume, TypeInv, PhaseOK, Busy, Loaded
  <2> DEFINE t == Transform(w)
             e == Role(w) - 1
  <2>4. /\ e \in RingEdge /\ e + 1 = Role(w)
        /\ t \in 0 .. Batch - 1 /\ t \in Nat
        /\ Source(w) = <<e, Slot(e, t)>> /\ Slot(e, t) \in 0 .. Slots[e] - 1
        /\ Source(w) \in StateWord
    BY <2>3, RingSourceFacts, ReachFacts DEF RingSource
  <2>5. /\ consume_state'[Source(w)] = DesiredState(w)
        /\ DesiredState(w).count = TaskCount(Role(w))
        /\ DesiredState(w).epoch = t + 1
        /\ task' = task
    BY <2>1, <2>2, <2>4, <1>1 DEF SwapConsume, TypeInv, TypeOK, Goto, DesiredState, Epoch
  <2> HIDE DEF t, e
  <2>6. Running'
    BY StepRunning
  <2>7. ASSUME NEW u \in 0 .. Batch - 1, u = t
        PROVE  ReleasedOf(e, u)' = Task(e + 1)
    <3>1. /\ consume_state'[<<e, Slot(e, u)>>].epoch = u + 1
          /\ consume_state'[<<e, Slot(e, u)>>].count = TaskCount(e + 1)
          /\ u \in InSlot(e, Slot(e, u))
          /\ Slot(e, u) \in 0 .. Slots[e] - 1
      BY <2>4, <2>5, <2>7 DEF InSlot
    <3>2. Cardinality(ReleasedOf(e, u)') = TaskCount(e + 1)
      BY <2>4, <2>6, <3>1 DEF CountTrue
    <3>3. ReleasedOf(e, u)' \subseteq Task(e + 1)
      BY DEF ReleasedOf
    <3> QED
      BY <2>4, <3>2, <3>3, ReleasedFinite
  <2>8. Transform(w)' = t
    BY <2>5 DEF t, Transform
  <2> QED
    BY <2>1, <2>4, <2>7, <2>8 DEF t, e, ReleasedOf, Released, Stored, Owner, TaskNumber
<1> QED
  BY <1>2, <1>3

LEMMA EpochTrueStep ==
    ASSUME RingInv, NEW w \in Worker, Step(w), ~Clear(w)
    PROVE  EpochTrue'
<1> USE DEF RingInv
<1> SUFFICES ASSUME NEW e \in RingEdge, NEW q \in 0 .. Slots[e] - 1, NEW t \in InSlot(e, q),
                    t + 1 <= consumed_epoch'[<<e, q>>]
             PROVE  ReleasedOf(e, t)' = Task(e + 1)
  BY DEF EpochTrue, InSlot
<1>1. Running /\ e \in Edge /\ Ring(e) /\ t \in 0 .. Batch - 1 /\ t \in Nat /\ Slot(e, t) = q
  BY StepRunning, RingEdgeFacts, KernelAssumption DEF InSlot
<1>2. <<e, q>> \in StateWord /\ consumed_epoch \in [StateWord -> Nat]
      /\ consume_state \in [StateWord -> [epoch : Nat, count : Nat]]
  BY <1>1, WordFacts DEF TypeInv, TypeOK
<1>3. ReleasedOf(e, t) = Task(e + 1)
  <2>1. CASE consumed_epoch'[<<e, q>>] = consumed_epoch[<<e, q>>]
    BY <1>1, <2>1 DEF EpochTrue
  <2>2. CASE consumed_epoch'[<<e, q>>] # consumed_epoch[<<e, q>>]
    <3>1. SignalConsumed(w)
      BY <2>2, WordFrame
    <3>2. pc[w] \in Busy /\ RingSource(Role(w)) /\ pc[w] = "signal"
      BY <3>1 DEF SignalConsumed, TypeInv, PhaseOK, Busy, Loaded
    <3> DEFINE u == Transform(w)
    <3>3. /\ Role(w) - 1 \in RingEdge /\ (Role(w) - 1) + 1 = Role(w)
          /\ u \in 0 .. Batch - 1 /\ u \in Nat
          /\ Source(w) = <<Role(w) - 1, Slot(Role(w) - 1, u)>>
      BY <3>2, RingSourceFacts, ReachFacts DEF RingSource
    <3>4. Role(w) - 1 = e /\ Slot(e, u) = q /\ consumed_epoch'[<<e, q>>] = u + 1
      BY <1>2, <2>2, <3>1, <3>3 DEF SignalConsumed, Epoch
    <3>5. ReleasedOf(e, u) = Task(e + 1)
      BY <3>2, <3>3, <3>4 DEF SignalTrue
    <3>6. CASE t = u
      BY <3>5, <3>6
    <3>7. CASE t < u
      <4> DEFINE c == consume_state[<<e, q>>]
      <4>1. u \in InSlot(e, q) /\ t \in InSlot(e, q) /\ c.epoch \in Nat
        BY <1>2, <3>3, <3>4 DEF InSlot
      <4>2. Task(e + 1) # {}
        <5>1. e + 1 \in Segment
          BY RingEdgeFacts
        <5>2. TaskCount(e + 1) \in Nat \ {0}
          BY <5>1, SegmentSizes
        <5>3. 0 \in Task(e + 1)
          BY <5>2 DEF Task
        <5> QED
          BY <5>3
      <4>3. ~(u + 1 > c.epoch)
        BY <1>1, <3>5, <4>1, <4>2 DEF CountTrue
      <4>4. t + 1 < c.epoch
        BY <1>1, <3>3, <3>7, <4>1, <4>3
      <4> QED
        BY <1>1, <4>1, <4>4 DEF CountTrue
    <3> QED
      BY <1>1, <3>3, <3>4, <3>6, <3>7
  <2> QED
    BY <2>1, <2>2
<1> QED
  BY <1>1, <1>3, ReleasedProgress

LEMMA CountTrueStep ==
    ASSUME RingInv, NEW w \in Worker, Step(w), ~Clear(w)
    PROVE  CountTrue'
<1> USE DEF RingInv
<1> SUFFICES ASSUME NEW e \in RingEdge, NEW q \in 0 .. Slots[e] - 1
             PROVE  /\ consume_state'[<<e, q>>].epoch # 0 =>
                            consume_state'[<<e, q>>].epoch - 1 \in InSlot(e, q)
                    /\ \A t \in InSlot(e, q) :
                        /\ t + 1 = consume_state'[<<e, q>>].epoch =>
                                consume_state'[<<e, q>>].count = Cardinality(ReleasedOf(e, t)')
                        /\ t + 1 < consume_state'[<<e, q>>].epoch =>
                                ReleasedOf(e, t)' = Task(e + 1)
                        /\ t + 1 > consume_state'[<<e, q>>].epoch => ReleasedOf(e, t)' = {}
  BY DEF CountTrue, InSlot
<1> DEFINE c == consume_state[<<e, q>>]
           d == consume_state'[<<e, q>>]
<1>1. Running /\ e \in Edge /\ Ring(e)
  BY StepRunning, RingEdgeFacts
<1>2. /\ <<e, q>> \in StateWord
      /\ consume_state \in [StateWord -> [epoch : Nat, count : Nat]]
      /\ c.epoch \in Nat /\ c.count \in Nat
  BY <1>1, WordFacts DEF TypeInv, TypeOK
<1>3. /\ c.epoch # 0 => c.epoch - 1 \in InSlot(e, q)
      /\ \A t \in InSlot(e, q) :
                /\ t + 1 = c.epoch => c.count = Cardinality(ReleasedOf(e, t))
                /\ t + 1 < c.epoch => ReleasedOf(e, t) = Task(e + 1)
                /\ t + 1 > c.epoch => ReleasedOf(e, t) = {}
  BY <1>1 DEF CountTrue
<1>4. CASE ~(SwapConsume(w) /\ Source(w) = <<e, q>>)
  <2>1. d = c
    BY <1>2, <1>4, WordFrame DEF SwapConsume
  <2>2. ASSUME NEW t \in InSlot(e, q) PROVE ReleasedOf(e, t)' = ReleasedOf(e, t)
    <3>1. t \in 0 .. Batch - 1 /\ Slot(e, t) = q
      BY DEF InSlot
    <3>2. ~(SwapConsume(w) /\ Role(w) = e + 1 /\ t = Transform(w))
      BY <1>4, <3>1, RingEdgeFacts DEF Source
    <3> QED
      BY <3>1, <3>2, ReleasedProgress
  <2> QED
    BY <1>3, <2>1, <2>2
<1>5. CASE SwapConsume(w) /\ Source(w) = <<e, q>>
  <2>1. pc[w] \in Busy /\ pc[w] \in Busy \ Counted /\ RingSource(Role(w)) /\ pc[w] \in Loaded
    BY <1>5 DEF SwapConsume, TypeInv, PhaseOK, Busy, Loaded, Counted
  <2>15. PICK u \in 0 .. Batch - 1 : u = Transform(w)
    BY <2>1, ReachFacts
  <2>16. PICK k \in Task(Role(w)) : k = Within(w)
    BY <2>1, ReachFacts
  <2>17. /\ Source(w) = <<Role(w) - 1, Slot(Role(w) - 1, u)>>
         /\ Role(w) - 1 \in RingEdge /\ (Role(w) - 1) + 1 = Role(w)
    BY <2>1, <2>15, RingSourceFacts DEF Source
  <2>18. Role(w) \in Segment /\ Role(w) # 0
    BY <2>1, WorkerFacts DEF RingSource
  <2>2. /\ Role(w) - 1 = e /\ Role(w) = e + 1 /\ Role(w) \in Segment /\ Role(w) # 0
        /\ u \in 0 .. Batch - 1 /\ u \in Nat
        /\ q = Slot(e, u)
    BY <1>5, <2>17, <2>18, KernelAssumption
  <2>3. u \in InSlot(e, q)
    BY <2>2 DEF InSlot
  <2>4. k \in Task(e + 1) /\ k \notin ReleasedOf(e, u)
    BY <2>1, <2>2, <2>15, <2>16, NotReleased
  \* The consumer's operands came from a producer of its transform, which
  \* entered the slot after every earlier transform was released ...
  <2>5. PICK p \in Task(e) : Stored(e, TaskNumber(e, u, p))
    <3> DEFINE T == task[w]
    <3>1. T \in Nat /\ T < TotalTasks(e + 1) /\ Owner(e + 1, T) = w
      BY <2>1, <2>2, TaskOfWarp DEF TypeInv, PhaseOK
    <3>2. Taken(e + 1, T)
      BY <2>1, <3>1 DEF Taken
    <3>3. SegmentN[e + 1] \in Nat \ {0} /\ 0 \in 0 .. SegmentN[e + 1] - 1
      BY <2>2, SegmentSizes
    <3>4. T \in 0 .. TotalTasks(e + 1) - 1
      <4>1. TotalTasks(e + 1) \in Nat
        BY <2>2, SegmentSizes, KernelAssumption, SMT DEF TotalTasks
      <4> QED
        BY <3>1, <4>1
    <3>5. ItemFed(e + 1, T, 0)
      BY <3>2, <3>3, <3>4 DEF TakenFed
    <3>6. ProducerWithin((e + 1) - 1, Address(e + 1, T % TaskCount(e + 1), 0)) \in Task((e + 1) - 1)
      BY <2>2, <3>1, <3>3, ItemProducer
    <3>7. (e + 1) - 1 = e
      BY RingEdgeFacts
    <3>8. T \div TaskCount(e + 1) = u
      BY <2>2, <2>15 DEF Transform
    <3> QED
      BY <3>5, <3>6, <3>7, <3>8 DEF ItemFed
  <2>6. \A t \in InSlot(e, q) : t < u => ReleasedOf(e, t) = Task(e + 1)
    BY <2>2, <2>5 DEF HandedOver, InSlot, Started
  \* ... so no later transform of the slot can have been released.
  <2>7. ASSUME NEW t \in InSlot(e, q), t > u PROVE ReleasedOf(e, t) = {}
    <3>1. t \in 0 .. Batch - 1 /\ t \in Nat /\ Slot(e, t) = Slot(e, u)
      BY <2>2, KernelAssumption DEF InSlot
    <3>2. ASSUME NEW m \in ReleasedOf(e, t) PROVE FALSE
      <4> DEFINE X == TaskNumber(e + 1, t, m)
      <4>1. m \in Task(e + 1) /\ Released(e + 1, X)
        BY <3>2 DEF ReleasedOf
      <4>2. X \in Nat /\ X < TotalTasks(e + 1) /\ X \div TaskCount(e + 1) = t
        BY <2>2, <3>1, <4>1, NumberFacts
      <4> HIDE DEF X
      <4>3. Taken(e + 1, X)
        BY <4>1 DEF Released, Taken, Counted, Loaded
      <4>4. SegmentN[e + 1] \in Nat \ {0} /\ 0 \in 0 .. SegmentN[e + 1] - 1
        BY <2>2, SegmentSizes
      <4>5. X \in 0 .. TotalTasks(e + 1) - 1
        <5>1. TotalTasks(e + 1) \in Nat
          BY <2>2, SegmentSizes, KernelAssumption, SMT DEF TotalTasks
        <5> QED
          BY <4>2, <5>1
      <4>6. ItemFed(e + 1, X, 0)
        BY <4>3, <4>4, <4>5 DEF TakenFed
      <4>7. PICK p2 \in Task(e) : Stored(e, TaskNumber(e, t, p2))
        <5>1. ProducerWithin((e + 1) - 1, Address(e + 1, X % TaskCount(e + 1), 0)) \in Task((e + 1) - 1)
          BY <2>2, <4>2, <4>4, ItemProducer
        <5>2. (e + 1) - 1 = e
          BY RingEdgeFacts
        <5> QED
          BY <4>2, <4>6, <5>1, <5>2 DEF ItemFed
      <4>8. ReleasedOf(e, u) = Task(e + 1)
        BY <2>2, <2>7, <3>1, <4>7 DEF HandedOver, Started
      <4> QED
        BY <2>4, <4>8
    <3> QED
      BY <3>2
  <2>8. /\ c = observed[w]
        /\ d = DesiredState(w)
    BY <1>2, <1>5 DEF SwapConsume
  <2>9. /\ d.epoch = u + 1
        /\ d.count = IF c.epoch = u + 1 THEN c.count + 1 ELSE 1
    BY <2>8, <2>15 DEF DesiredState, Epoch
  <2>10. ~(u + 1 < c.epoch)
    BY <1>3, <2>3, <2>4
  <2>11. /\ ReleasedOf(e, u)' = ReleasedOf(e, u) \cup {k}
         /\ \A t \in InSlot(e, q) : t # u => ReleasedOf(e, t)' = ReleasedOf(e, t)
    BY <1>5, <2>2, <2>15, <2>16, ReleasedProgress DEF InSlot
  <2>12. d.count = Cardinality(ReleasedOf(e, u)')
    <3>1. ReleasedOf(e, u) \in SUBSET Task(e + 1)
      BY DEF ReleasedOf
    <3>2. IsFiniteSet(ReleasedOf(e, u))
      BY <3>1, ReleasedFinite
    <3>3. Cardinality(ReleasedOf(e, u)') = Cardinality(ReleasedOf(e, u)) + 1
      BY <2>4, <2>11, <3>2, FS_AddElement
    <3>4. CASE c.epoch = u + 1
      BY <1>3, <2>3, <2>9, <3>3, <3>4
    <3>5. CASE c.epoch # u + 1
      <4>1. ReleasedOf(e, u) = {}
        BY <1>2, <1>3, <2>2, <2>3, <2>10, <3>5
      <4>2. Cardinality(ReleasedOf(e, u)) = 0
        BY <4>1, FS_EmptySet
      <4> QED
        BY <2>9, <3>3, <3>5, <4>2
    <3> QED
      BY <3>4, <3>5
  <2> HIDE DEF c, d
  <2>13. ASSUME NEW t \in InSlot(e, q)
         PROVE  /\ t + 1 = d.epoch => d.count = Cardinality(ReleasedOf(e, t)')
                /\ t + 1 < d.epoch => ReleasedOf(e, t)' = Task(e + 1)
                /\ t + 1 > d.epoch => ReleasedOf(e, t)' = {}
    <3>1. t \in Nat
      BY KernelAssumption DEF InSlot
    <3>2. CASE t = u
      BY <2>2, <2>9, <2>12, <3>1, <3>2
    <3>3. CASE t < u
      BY <2>2, <2>6, <2>9, <2>11, <3>1, <3>3
    <3>4. CASE t > u
      BY <2>2, <2>7, <2>9, <2>11, <3>1, <3>4
    <3> QED
      BY <2>2, <3>1, <3>2, <3>3, <3>4
  <2>14. d.epoch - 1 \in InSlot(e, q)
    BY <2>2, <2>3, <2>9
  <2> QED
    BY <2>13, <2>14 DEF d
<1> QED
  BY <1>4, <1>5

----------------------------------------------------------------------------
(* The start of a launch: no task has been touched.                        *)

Untouched ==
    /\ \A w \in Worker : task[w] = w[2] /\ pc[w] \in {"clear", "sync", "acquire", "done"}
    /\ Running =>
        /\ \A word \in ReadyWord : ready[word] = 0
        /\ \A word \in StateWord : consume_state[word] = Unread /\ consumed_epoch[word] = 0

LEMMA UntouchedTask ==
    ASSUME Untouched, NEW s \in Segment, NEW T \in Nat
    PROVE  ~Stored(s, T) /\ ~Taken(s, T) /\ ~Released(s, T) /\ ~Started(s, T)
<1>1. Owner(s, T) \in Worker /\ Owner(s, T)[2] = (T % RoleWorkers[s])
  BY OwnerFacts
<1>2. task[Owner(s, T)] = (T % RoleWorkers[s])
      /\ pc[Owner(s, T)] \in {"clear", "sync", "acquire", "done"}
  BY <1>1 DEF Untouched
<1>3. (T % RoleWorkers[s]) <= T
  <2> DEFINE m == RoleWorkers[s]
             q == T \div m
             r == T % m
  <2>1. m \in Nat \ {0}
    BY KernelAssumption
  <2>2. q \in Nat /\ r \in 0 .. m - 1 /\ T = q * m + r
    BY <2>1, DivMod
  <2> HIDE DEF m, q, r
  <2>3. q * m \in Nat
    BY <2>1, <2>2, SMT
  <2>4. r <= T
    BY <2>1, <2>2, <2>3
  <2> QED
    BY <2>4 DEF r, m
<1>4. ~(T < task[Owner(s, T)])
  <2>1. T % RoleWorkers[s] \in Nat
    BY KernelAssumption, DivMod
  <2> QED
    BY <1>2, <1>3, <2>1
<1> QED
  BY <1>2, <1>4 DEF Stored, Taken, Released, Started, StartedPhase, Loaded, Counted

LEMMA UntouchedRing ==
    TypeInv /\ Untouched /\ BeforeBarrier /\ ShareCleared => RingInv
<1> SUFFICES ASSUME TypeInv, Untouched, BeforeBarrier, ShareCleared PROVE RingInv
  OBVIOUS
<1>1. OwnTask
  BY WorkerFacts, ResidueSmall DEF Untouched, OwnTask
<1>2. ASSUME NEW e \in RingEdge, NEW t \in 0 .. Batch - 1 PROVE ReleasedOf(e, t) = {}
  <2>1. \A k \in Task(e + 1) : ~Released(e + 1, TaskNumber(e + 1, t, k))
    BY RingEdgeFacts, NumberFacts, UntouchedTask
  <2> QED
    BY <2>1 DEF ReleasedOf
<1>3. ASSUME NEW e \in RingEdge, NEW q \in 0 .. Slots[e] - 1
      PROVE  /\ <<e, q>> \in StateWord
             /\ \A p \in Task(e) : <<e, q, p>> \in ReadyWord
             /\ InSlot(e, q) \subseteq 0 .. Batch - 1
             /\ \A t \in InSlot(e, q) : t \in Nat
  BY RingEdgeFacts, WordFacts, KernelAssumption DEF Task, InSlot
<1>4. TokenTrue
  BY <1>3 DEF TokenTrue, Untouched
<1>5. LoadFed
  BY DEF LoadFed, Untouched
<1>6. TakenFed
  <2>1. ASSUME NEW e \in RingEdge, NEW T \in 0 .. TotalTasks(e + 1) - 1 PROVE ~Taken(e + 1, T)
    <3>1. e + 1 \in Segment
      BY RingEdgeFacts
    <3>2. T \in Nat
      BY <3>1, SegmentSizes, KernelAssumption DEF TotalTasks
    <3> QED
      BY <3>1, <3>2, UntouchedTask
  <2> QED
    BY <2>1 DEF TakenFed
<1>7. HandedOver
  <2>1. ASSUME NEW e \in RingEdge, NEW u \in 0 .. Batch - 1, NEW p \in Task(e)
        PROVE  ~Started(e, TaskNumber(e, u, p))
    BY RingEdgeFacts, NumberFacts, UntouchedTask
  <2> QED
    BY <2>1 DEF HandedOver
<1>8. CountTrue
  <2> SUFFICES ASSUME Running, NEW e \in RingEdge, NEW q \in 0 .. Slots[e] - 1
               PROVE  LET c == consume_state[<<e, q>>]
                      IN  /\ c.epoch # 0 => c.epoch - 1 \in InSlot(e, q)
                          /\ \A t \in InSlot(e, q) :
                                /\ t + 1 = c.epoch => c.count = Cardinality(ReleasedOf(e, t))
                                /\ t + 1 < c.epoch => ReleasedOf(e, t) = Task(e + 1)
                                /\ t + 1 > c.epoch => ReleasedOf(e, t) = {}
    BY DEF CountTrue
  <2>1. consume_state[<<e, q>>].epoch = 0
    BY <1>3 DEF Untouched, Unread
  <2> QED
    BY <1>2, <1>3, <2>1
<1>9. SignalTrue
  BY DEF SignalTrue, Untouched
<1>10. EpochTrue
  <2> SUFFICES ASSUME Running, NEW e \in RingEdge, NEW q \in 0 .. Slots[e] - 1,
                      NEW t \in InSlot(e, q), t + 1 <= consumed_epoch[<<e, q>>]
               PROVE  FALSE
    BY DEF EpochTrue
  <2>1. consumed_epoch[<<e, q>>] = 0 /\ t \in Nat
    BY <1>3 DEF Untouched
  <2> QED
    BY <2>1
<1> QED
  BY <1>1, <1>4, <1>5, <1>6, <1>7, <1>8, <1>9, <1>10 DEF RingInv

LEMMA SomeWorker == Worker # {}
<1>1. 0 \in Segment
  BY GeometryAssumption DEF Segment
<1>2. Owner(0, 0) \in Worker
  BY <1>1, OwnerFacts
<1> QED
  BY <1>2

LEMMA RingInit == Init => RingInv
<1> SUFFICES ASSUME Init PROVE RingInv
  OBVIOUS
<1>1. Untouched
  BY SomeWorker DEF Init, Untouched, Running
<1>2. BeforeBarrier /\ ShareCleared
  BY DEF Init, BeforeBarrier, ShareCleared
<1> QED
  BY <1>1, <1>2, TypeInit, UntouchedRing

\* The steps outside the task loop lead to an untouched launch.
LEMMA OutsideLoop ==
    ASSUME RingInv, NEW w \in Worker, Clear(w) \/ GridSync \/ Relaunch
    PROVE  Untouched' /\ BeforeBarrier' /\ ShareCleared'
<1> USE DEF RingInv
<1>1. /\ pc \in [Worker -> {"clear", "sync", "acquire", "wave", "load", "done"} \cup Loaded]
      /\ ready \in [ReadyWord -> Nat]
      /\ consume_state \in [StateWord -> [epoch : Nat, count : Nat]]
      /\ consumed_epoch \in [StateWord -> Nat]
  BY DEF TypeInv, TypeOK
<1>2. CASE Clear(w)
  <2>1. \A v \in Worker : pc[v] \in {"clear", "sync"} /\ task[v] = v[2]
    BY <1>2 DEF Clear, BeforeBarrier
  <2>2. /\ task' = task /\ pc' = [pc EXCEPT ![w] = "sync"]
    BY <1>2 DEF Clear, Goto
  <2>3. Untouched' /\ BeforeBarrier'
    BY <1>1, <2>1, <2>2 DEF Untouched, BeforeBarrier, Running
  <2>4. \A word \in ReadyWord :
            (word \in ClearShare[w] \/ ready[word] = 0) => ready'[word] = 0
    BY <1>1, <1>2 DEF Clear
  <2>5. \A word \in StateWord :
            /\ (word \in ClearShare[w] \/ consume_state[word] = Unread) => consume_state'[word] = Unread
            /\ (word \in ClearShare[w] \/ consumed_epoch[word] = 0) => consumed_epoch'[word] = 0
    BY <1>1, <1>2 DEF Clear
  <2>6. ShareCleared'
    BY <1>1, <2>2, <2>4, <2>5 DEF ShareCleared
  <2> QED
    BY <2>3, <2>6
<1>3. CASE GridSync
  <2>1. \A v \in Worker : pc[v] = "sync" /\ task[v] = v[2]
    BY <1>3 DEF GridSync, BeforeBarrier
  <2>2. \A v \in Worker : pc'[v] \in {"acquire", "done"}
    BY <1>3 DEF GridSync, PhaseOf
  <2>3. \A word \in ReadyWord : ready[word] = 0
    BY <2>1, ClearAssumption DEF ShareCleared
  <2>4. \A word \in StateWord : consume_state[word] = Unread /\ consumed_epoch[word] = 0
    BY <2>1, ClearAssumption DEF ShareCleared
  <2>5. /\ task' = task /\ ready' = ready
        /\ consume_state' = consume_state /\ consumed_epoch' = consumed_epoch
    BY <1>3 DEF GridSync
  <2> QED
    BY <2>1, <2>2, <2>3, <2>4, <2>5 DEF Untouched, BeforeBarrier, ShareCleared
<1>4. CASE Relaunch
  BY <1>4, SomeWorker DEF Relaunch, Untouched, BeforeBarrier, ShareCleared, Running
<1> QED
  BY <1>2, <1>3, <1>4

LEMMA RingNext == RingInv /\ [Next]_vars => RingInv'
<1>1. TypeInv' /\ Untouched' /\ BeforeBarrier' /\ ShareCleared' => RingInv'
  BY UntouchedRing, PTL
<1> SUFFICES ASSUME RingInv, [Next]_vars PROVE RingInv'
  OBVIOUS
<1>2. TypeInv'
  BY TypeNext DEF RingInv
<1>3. ASSUME NEW w \in Worker, Step(w), ~Clear(w) PROVE RingInv'
  <2>1. Running'
    BY <1>3, StepRunning DEF RingInv
  <2>2. OwnTask'
    BY <1>3, OwnTaskStep DEF RingInv
  <2>3. BeforeBarrier' /\ ShareCleared'
    BY <2>1 DEF Running, BeforeBarrier, ShareCleared
  <2>4. CountTrue'
    BY <1>3, CountTrueStep
  <2>5. TokenTrue' /\ LoadFed' /\ TakenFed' /\ HandedOver' /\ EpochTrue'
    BY <1>3, TokenTrueStep, LoadFedStep, TakenFedStep, HandedOverStep, EpochTrueStep
  <2>6. SignalTrue'
    BY <1>3, <2>4, SignalTrueStep
  <2> QED
    BY <1>2, <2>2, <2>3, <2>4, <2>5, <2>6 DEF RingInv
<1>4. ASSUME NEW w \in Worker, Clear(w) \/ GridSync \/ Relaunch PROVE RingInv'
  BY <1>1, <1>2, <1>4, OutsideLoop
<1>5. CASE UNCHANGED vars
  <2> USE <1>5 DEF vars, RingInv
  <2>1. OwnTask' /\ BeforeBarrier' /\ ShareCleared'
    BY DEF OwnTask, BeforeBarrier, ShareCleared
  <2>2. TokenTrue'
    BY DEF TokenTrue, Running, Stored, Owner, InSlot, TaskNumber
  <2>3. LoadFed'
    BY DEF LoadFed, ItemFed, Stored, Owner, TaskNumber
  <2>4. TakenFed'
    BY DEF TakenFed, Taken, ItemFed, Stored, Owner, TaskNumber
  <2>5. HandedOver'
    BY DEF HandedOver, ReleasedOf, Started, Released, Stored, Owner, TaskNumber
  <2>6. CountTrue'
    <3>1. \A e, t : ReleasedOf(e, t)' = ReleasedOf(e, t)
      BY DEF ReleasedOf, Released, Stored, Owner, TaskNumber
    <3>2. (Running' <=> Running) /\ consume_state' = consume_state
      BY DEF Running
    <3>3. CountTrue
      OBVIOUS
    <3> QED
      BY ONLY <3>1, <3>2, <3>3 DEF CountTrue, InSlot
  <2>7. SignalTrue'
    BY DEF SignalTrue, ReleasedOf, Released, Stored, Owner, Transform, TaskNumber
  <2>8. EpochTrue'
    BY DEF EpochTrue, Running, ReleasedOf, Released, Stored, Owner, InSlot, TaskNumber
  <2> QED
    BY <1>2, <2>1, <2>2, <2>3, <2>4, <2>5, <2>6, <2>7, <2>8
<1> QED
  BY <1>3, <1>4, <1>5, SomeWorker DEF Next, Finished

LEMMA RingAlways == Spec => []RingInv
  BY RingInit, RingNext, PTL DEF Spec

(* The packed epoch/count word of every ring slot counts, after every      *)
(* interleaving of the compare-and-swap loops, exactly the consumer tasks  *)
(* of the transform its epoch names; none of a later transform has been    *)
(* released, all of the earlier ones have.                                 *)
THEOREM CountCorrect == Spec => []ConsumeCountExact
<1>1. RingInv => ConsumeCountExact
  <2> SUFFICES ASSUME RingInv, Running, NEW word \in StateWord
               PROVE  LET s == word[1] + 1
                          c == consume_state[word]
                          released(t) == {k \in Task(s) : Released(s, TaskNumber(s, t, k))}
                          inSlot == {t \in 0 .. Batch - 1 : Slot(word[1], t) = word[2]}
                      IN  /\ c.epoch = 0 => \A t \in inSlot : released(t) = {}
                          /\ c.epoch # 0 =>
                              /\ c.epoch - 1 \in inSlot
                              /\ c.count = Cardinality(released(c.epoch - 1))
                              /\ \A t \in inSlot : t < c.epoch - 1 => released(t) = Task(s)
                              /\ \A t \in inSlot : t > c.epoch - 1 => released(t) = {}
    BY DEF ConsumeCountExact
  <2>1. PICK e \in RingEdge, q \in Nat : q \in 0 .. Slots[e] - 1 /\ word = <<e, q>>
    <3>1. PICK e \in RingEdge : word \in {e} \X (0 .. Slots[e] - 1)
      BY DEF StateWord
    <3> QED
      BY <3>1
  <2> DEFINE c == consume_state[<<e, q>>]
  <2>2. c.epoch \in Nat
    BY <2>1 DEF RingInv, TypeInv, TypeOK
  <2>3. /\ c.epoch # 0 => c.epoch - 1 \in InSlot(e, q)
        /\ \A t \in InSlot(e, q) :
                /\ t \in Nat
                /\ t + 1 = c.epoch => c.count = Cardinality(ReleasedOf(e, t))
                /\ t + 1 < c.epoch => ReleasedOf(e, t) = Task(e + 1)
                /\ t + 1 > c.epoch => ReleasedOf(e, t) = {}
    BY <2>1, KernelAssumption DEF RingInv, CountTrue, InSlot
  <2> HIDE DEF c
  <2>4. /\ c.epoch = 0 => \A t \in InSlot(e, q) : ReleasedOf(e, t) = {}
        /\ c.epoch # 0 =>
            /\ c.epoch - 1 \in InSlot(e, q)
            /\ c.count = Cardinality(ReleasedOf(e, c.epoch - 1))
            /\ \A t \in InSlot(e, q) : t < c.epoch - 1 => ReleasedOf(e, t) = Task(e + 1)
            /\ \A t \in InSlot(e, q) : t > c.epoch - 1 => ReleasedOf(e, t) = {}
    <3>1. CASE c.epoch = 0
      BY <2>3, <3>1
    <3>2. CASE c.epoch # 0
      <4>1. c.epoch - 1 \in InSlot(e, q) /\ (c.epoch - 1) + 1 = c.epoch
        BY <2>2, <2>3, <3>2
      <4>2. c.count = Cardinality(ReleasedOf(e, c.epoch - 1))
        BY <2>3, <4>1
      <4>3. \A t \in InSlot(e, q) : t < c.epoch - 1 => ReleasedOf(e, t) = Task(e + 1)
        BY <2>2, <2>3
      <4>4. \A t \in InSlot(e, q) : t > c.epoch - 1 => ReleasedOf(e, t) = {}
        BY <2>2, <2>3
      <4> QED
        BY <3>2, <4>1, <4>2, <4>3, <4>4
    <3> QED
      BY <3>1, <3>2
  <2> QED
    BY <2>1, <2>4 DEF c, InSlot, ReleasedOf
<1> QED
  BY <1>1, RingAlways, PTL

(* A producer warp that may store into a ring slot is alone with it: every *)
(* consumer task of every earlier transform of the slot has taken its      *)
(* operands, for any ring size, batch, segment sizes and warps per role.   *)
THEOREM HandoverCorrect == Spec => []SlotHandover
<1>1. RingInv => SlotHandover
  <2> SUFFICES ASSUME RingInv, NEW w \in Worker, Ring(Role(w)),
                      pc[w] \in {"load", "wave"} \cup Loaded,
                      NEW t \in 0 .. Transform(w) - 1,
                      Slot(Role(w), t) = Slot(Role(w), Transform(w)),
                      NEW k \in Task(Role(w) + 1)
               PROVE  Taken(Role(w) + 1, TaskNumber(Role(w) + 1, t, k))
    BY DEF SlotHandover
  <2> DEFINE e == Role(w)
             u == Transform(w)
             p == Within(w)
  <2>1. e \in RingEdge
    BY DEF Ring, RingEdge
  <2>2. pc[w] \in Busy
    BY DEF Busy
  <2>3. u \in 0 .. Batch - 1 /\ u \in Nat /\ p \in Task(e)
    BY <2>2, ReachFacts DEF RingInv
  <2>4. t \in 0 .. Batch - 1 /\ t < u
    BY <2>3, KernelAssumption
  <2>5. Started(e, TaskNumber(e, u, p))
    BY TaskOfWarp DEF RingInv, Started, StartedPhase
  <2> HIDE DEF e, u, p
  <2>6. ReleasedOf(e, t) = Task(e + 1)
    BY <2>1, <2>3, <2>4, <2>5 DEF RingInv, HandedOver, e, u
  <2>7. Released(e + 1, TaskNumber(e + 1, t, k))
    BY <2>6 DEF ReleasedOf, e
  <2> QED
    BY <2>7 DEF Released, Taken, Counted, Loaded, e
<1> QED
  BY <1>1, RingAlways, PTL

----------------------------------------------------------------------------
(* What a transform in a slot says of the earlier ones.                    *)

\* A task that entered the slot of an edge leaves behind it a transform whose
\* consumers have all read, so whose producers had all stored.
LEMMA EarlierStored ==
    ASSUME RingInv, NEW e \in Edge,
           NEW t \in 0 .. Batch - 1, NEW u \in 0 .. Batch - 1, NEW p \in Task(e),
           t < u, Slot(e, t) = Slot(e, u), Started(e, TaskNumber(e, u, p)),
           NEW k \in Task(e)
    PROVE  Stored(e, TaskNumber(e, t, k))
<1>1. e \in RingEdge
  <2>1. Slots[e] # Batch
    BY DEF Slot
  <2> QED
    BY <2>1, KernelAssumption DEF Ring, RingEdge
<1>2. ReleasedOf(e, t) = Task(e + 1)
  BY <1>1 DEF RingInv, HandedOver
<1> DEFINE x == Address(e, k, 0)
           c == ProducerWithin(e + 1, x)
           T == TaskNumber(e + 1, t, c)
<1>3. e \in Segment /\ e + 1 \in Segment /\ (e + 1) - 1 = e
  BY EdgeSizes
<1>4. x \in Element /\ ProducerWithin(e, x) = k
  <2>1. 0 \in 0 .. SegmentN[e] - 1
    BY <1>3, SegmentSizes
  <2> QED
    BY <1>3, <2>1, AddressInRange, ProducerOfAddress
<1> HIDE DEF x
<1>5. c \in Task(e + 1) /\ \E i \in 0 .. SegmentN[e + 1] - 1 : Address(e + 1, c, i) = x
  BY <1>3, <1>4, EveryElementAddressed
<1>6. PICK i \in 0 .. SegmentN[e + 1] - 1 : Address(e + 1, c, i) = x
  BY <1>5
<1> HIDE DEF c
<1>7. /\ T \in Nat /\ T < TotalTasks(e + 1)
      /\ T \div TaskCount(e + 1) = t /\ T % TaskCount(e + 1) = c
  BY <1>3, <1>5, NumberFacts
<1>8. Taken(e + 1, T)
  <2>1. Released(e + 1, T)
    BY <1>2, <1>5 DEF ReleasedOf
  <2> QED
    BY <2>1 DEF Released, Taken, Counted, Loaded
<1> HIDE DEF T
<1>9. T \in 0 .. TotalTasks(e + 1) - 1
  <2>1. TotalTasks(e + 1) \in Nat
    BY <1>3, SegmentSizes, KernelAssumption, SMT DEF TotalTasks
  <2> QED
    BY <1>7, <2>1
<1>10. ItemFed(e + 1, T, i)
  BY <1>1, <1>8, <1>9 DEF RingInv, TakenFed
<1> QED
  BY <1>3, <1>4, <1>6, <1>7, <1>10 DEF ItemFed

\* The task a warp is in has started and is not stored.
LEMMA CurrentTask ==
    ASSUME TypeInv, OwnTask, NEW w \in Worker
    PROVE  /\ ~Stored(Role(w), TaskNumber(Role(w), Transform(w), Within(w)))
           /\ pc[w] \in StartedPhase =>
                Started(Role(w), TaskNumber(Role(w), Transform(w), Within(w)))
  BY TaskOfWarp DEF Stored, Started

----------------------------------------------------------------------------
(* The synchronisation words of a launch only advance.                     *)

\* A transform enters a slot only after the epoch of every earlier transform
\* in it has been signalled.
EpochReached ==
    Running => \A e \in RingEdge : \A t, u \in 0 .. Batch - 1, p \in Task(e) :
        (t < u /\ Slot(e, t) = Slot(e, u) /\ Started(e, TaskNumber(e, u, p))) =>
            t + 1 <= consumed_epoch[<<e, Slot(e, t)>>]

\* A warp about to signal an epoch is the only one for its slot, and the slot's
\* consumed epoch is still an earlier one.
SignalFirst ==
    \A w \in Worker : pc[w] = "signal" =>
        /\ consumed_epoch[Source(w)] <= Transform(w)
        /\ \A v \in Worker : (pc[v] = "signal" /\ Source(v) = Source(w)) => v = w

EpochInv == RingInv /\ EpochReached /\ SignalFirst

\* A consumer that has its operands has a producer that stored.
LEMMA TransformStored ==
    ASSUME RingInv, NEW w \in Worker, RingSource(Role(w)), pc[w] \in Loaded,
           NEW e, e = Role(w) - 1, NEW u, u = Transform(w)
    PROVE  \E p \in Task(e) : Stored(e, TaskNumber(e, u, p))
<1> USE DEF RingInv
<1> DEFINE T == task[w]
<1>1. e \in RingEdge /\ e + 1 = Role(w) /\ (e + 1) - 1 = e /\ e + 1 \in Segment /\ e + 1 # 0
  BY RingSourceFacts, RingEdgeFacts, WorkerFacts DEF RingSource
<1>2. T \in Nat /\ T < TotalTasks(e + 1) /\ Owner(e + 1, T) = w
  BY <1>1, TaskOfWarp DEF TypeInv, PhaseOK, Busy
<1>3. Taken(e + 1, T)
  BY <1>2 DEF Taken
<1>4. SegmentN[e + 1] \in Nat \ {0} /\ 0 \in 0 .. SegmentN[e + 1] - 1
  BY <1>1, SegmentSizes
<1>5. T \in 0 .. TotalTasks(e + 1) - 1
  <2>1. TotalTasks(e + 1) \in Nat
    BY <1>1, SegmentSizes, KernelAssumption, SMT DEF TotalTasks
  <2> QED
    BY <1>2, <2>1
<1>6. ItemFed(e + 1, T, 0)
  BY <1>1, <1>3, <1>4, <1>5 DEF TakenFed
<1>7. ProducerWithin((e + 1) - 1, Address(e + 1, T % TaskCount(e + 1), 0)) \in Task((e + 1) - 1)
  BY <1>1, <1>2, <1>4, ItemProducer
<1>8. T \div TaskCount(e + 1) = u
  BY <1>1 DEF Transform
<1> QED
  BY <1>1, <1>6, <1>7, <1>8 DEF ItemFed

\* What holds of the consumer that swaps a slot's state word.
LEMMA SwapFacts ==
    ASSUME RingInv, NEW w \in Worker, SwapConsume(w)
    PROVE  \E e \in RingEdge : \E u \in 0 .. Batch - 1 :
             /\ RingSource(Role(w)) /\ e = Role(w) - 1 /\ e + 1 = Role(w) /\ u = Transform(w)
             /\ Source(w) = <<e, Slot(e, u)>>
             /\ Slot(e, u) \in 0 .. Slots[e] - 1 /\ <<e, Slot(e, u)>> \in StateWord
             /\ ReleasedOf(e, u) # Task(e + 1)
             /\ pc[w] \in Loaded
<1>1. RingSource(Role(w)) /\ pc[w] \in Busy \ Counted /\ pc[w] \in Busy /\ pc[w] \in Loaded
  BY DEF RingInv, SwapConsume, TypeInv, PhaseOK, Busy, Loaded, Counted
<1>2. PICK u \in 0 .. Batch - 1 : u = Transform(w)
  BY <1>1, ReachFacts DEF RingInv
<1>3. PICK e \in RingEdge : e = Role(w) - 1 /\ e + 1 = Role(w)
  BY <1>1, RingSourceFacts
<1>4. Source(w) = <<e, Slot(e, u)>> /\ Slot(e, u) \in 0 .. Slots[e] - 1
  BY <1>2, <1>3, RingEdgeFacts, SlotFacts DEF Source
<1>5. <<e, Slot(e, u)>> \in StateWord
  BY <1>3, <1>4, RingEdgeFacts, WordFacts
<1>6. ReleasedOf(e, u) # Task(e + 1)
  BY <1>1, <1>2, <1>3, NotReleased DEF RingInv
<1> QED
  BY <1>1, <1>2, <1>3, <1>4, <1>5, <1>6

LEMMA SignalFirstStep ==
    ASSUME EpochInv, NEW w \in Worker, Step(w), ~Clear(w)
    PROVE  SignalFirst'
<1> USE DEF EpochInv
<1>1. Running /\ consumed_epoch \in [StateWord -> Nat]
      /\ pc \in [Worker -> {"clear", "sync", "acquire", "wave", "load", "done"} \cup Loaded]
  BY StepRunning DEF RingInv, TypeInv, TypeOK
\* A warp that signals after the step did so before it, or is swapping.
<1>2. ASSUME NEW v \in Worker, pc'[v] = "signal"
      PROVE  /\ Transform(v)' = Transform(v) /\ Source(v)' = Source(v)
             /\ v # w => pc[v] = "signal"
             /\ v = w => SwapConsume(w)
  <2>1. CASE v # w
    BY <1>1, <1>2, <2>1, StepFrame DEF RingInv, TypeInv, TypeOK, Transform, Source
  <2>2. CASE v = w
    <3>1. ~AcquireSlot(w) /\ ~AwaitWave(w) /\ ~FinishLoad(w) /\ ~ObserveConsume(w)
          /\ ~SignalConsumed(w) /\ ~Compute(w)
      BY <1>1, <1>2, <2>2 DEF FinishLoad, ObserveConsume, SignalConsumed, Compute,
                              AcquireSlot, AwaitWave, Goto
    <3>2. ~RetrySwap(w) /\ \A j : ~StoreElement(w, j) /\ ~AwaitToken(w, j) /\ ~LoadElement(w, j)
      BY <1>2, <2>2 DEF RetrySwap, StoreElement, AwaitToken, LoadElement
    <3>3. ~FinishStore(w) /\ ~Publish(w)
      <4>1. ~NextTask(w)
        BY <1>2, <2>2, NextTaskType DEF RingInv
      <4> QED
        BY <1>1, <1>2, <2>2, <4>1 DEF FinishStore, Publish, Goto
    <3>4. SwapConsume(w)
      BY <3>1, <3>2, <3>3 DEF Step
    <3> QED
      BY <2>2, <3>4 DEF SwapConsume, Transform, Source
  <2> QED
    BY <2>1, <2>2
\* A warp that swaps shares its slot with no warp that signals.
<1>3. ASSUME SwapConsume(w), NEW v \in Worker, pc[v] = "signal", Source(v) = Source(w)
      PROVE  FALSE
  <2>1. PICK e \in RingEdge, u \in 0 .. Batch - 1 :
             /\ RingSource(Role(w)) /\ e = Role(w) - 1 /\ e + 1 = Role(w) /\ u = Transform(w)
             /\ Source(w) = <<e, Slot(e, u)>>
             /\ Slot(e, u) \in 0 .. Slots[e] - 1 /\ <<e, Slot(e, u)>> \in StateWord
             /\ ReleasedOf(e, u) # Task(e + 1)
             /\ pc[w] \in Loaded
    BY <1>3, SwapFacts
  <2>2. RingSource(Role(v)) /\ pc[v] \in Busy /\ pc[v] \in Loaded
    BY <1>3 DEF RingInv, TypeInv, PhaseOK, Busy, Loaded
  <2>3. PICK x \in 0 .. Batch - 1 : x = Transform(v)
    BY <2>2, ReachFacts DEF RingInv
  <2>4. Role(v) - 1 = e /\ Role(v) = e + 1 /\ Slot(e, x) = Slot(e, u)
    BY <1>3, <2>1, <2>2, <2>3, RingSourceFacts DEF Source
  <2>5. PICK p \in Task(e) : Stored(e, TaskNumber(e, u, p))
    BY <2>1, TransformStored
  <2>6. PICK q \in Task(e) : Stored(e, TaskNumber(e, x, q))
    BY <2>2, <2>3, <2>4, TransformStored
  <2>7. ReleasedOf(e, x) = Task(e + 1) /\ consumed_epoch[<<e, Slot(e, u)>>] <= x
    BY <1>3, <2>1, <2>3, <2>4 DEF RingInv, SignalTrue, SignalFirst
  <2>8. ~(x < u)
    <3>1. x < u => x + 1 <= consumed_epoch[<<e, Slot(e, u)>>]
      BY <1>1, <2>4, <2>5 DEF EpochReached, Started
    <3> QED
      BY <1>1, <2>1, <2>7, <3>1, KernelAssumption
  <2>9. ~(u < x)
    <3>1. u < x => u + 1 <= consumed_epoch[<<e, Slot(e, u)>>]
      BY <1>1, <2>4, <2>6 DEF EpochReached, Started
    <3>2. ~(u + 1 <= consumed_epoch[<<e, Slot(e, u)>>])
      BY <1>1, <2>1 DEF RingInv, EpochTrue, InSlot
    <3> QED
      BY <3>1, <3>2
  <2>10. x = u
    BY <2>8, <2>9, KernelAssumption
  <2> QED
    BY <2>1, <2>7, <2>10
<1>4. ASSUME NEW v \in Worker, pc'[v] = "signal"
      PROVE  consumed_epoch'[Source(v)] <= Transform(v)
  <2>1. CASE v # w
    <3>1. pc[v] = "signal" /\ consumed_epoch[Source(v)] <= Transform(v)
      BY <1>2, <1>4, <2>1 DEF SignalFirst
    <3>2. SignalConsumed(w) => Source(w) # Source(v)
      BY <2>1, <3>1 DEF SignalConsumed, SignalFirst
    <3>3. Source(v) \in StateWord
      BY <3>1, ReachFacts DEF RingInv, TypeInv, PhaseOK, Busy, Loaded
    <3>4. consumed_epoch'[Source(v)] = consumed_epoch[Source(v)]
      BY <3>2, <3>3, <1>1, WordFrame DEF SignalConsumed
    <3> QED
      BY <3>1, <3>4
  <2>2. CASE v = w
    <3>1. PICK e \in RingEdge, u \in 0 .. Batch - 1 :
             /\ u = Transform(w) /\ Source(w) = <<e, Slot(e, u)>>
             /\ Slot(e, u) \in 0 .. Slots[e] - 1 /\ <<e, Slot(e, u)>> \in StateWord
             /\ ReleasedOf(e, u) # Task(e + 1)
      BY <1>2, <1>4, <2>2, SwapFacts
    <3>2. ~(u + 1 <= consumed_epoch[<<e, Slot(e, u)>>])
      BY <1>1, <3>1 DEF RingInv, EpochTrue, InSlot
    <3>3. consumed_epoch[<<e, Slot(e, u)>>] <= u
      BY <1>1, <3>1, <3>2, KernelAssumption
    <3>4. consumed_epoch' = consumed_epoch
      BY <1>2, <1>4, <2>2 DEF SwapConsume
    <3> QED
      BY <2>2, <3>1, <3>3, <3>4
  <2> QED
    BY <2>1, <2>2
<1>5. ASSUME NEW v \in Worker, pc'[v] = "signal", NEW x \in Worker, pc'[x] = "signal",
             Source(v) = Source(x)
      PROVE  x = v
  <2>1. CASE v # w /\ x # w
    BY <1>2, <1>5, <2>1 DEF SignalFirst
  <2>2. CASE v = w /\ x # w
    BY <1>2, <1>3, <1>5, <2>2
  <2>3. CASE v # w /\ x = w
    BY <1>2, <1>3, <1>5, <2>3
  <2> QED
    BY <2>1, <2>2, <2>3
<1>6. ASSUME NEW v \in Worker, pc'[v] = "signal"
      PROVE  /\ consumed_epoch'[Source(v)'] <= Transform(v)'
             /\ \A x \in Worker : (pc'[x] = "signal" /\ Source(x)' = Source(v)') => x = v
  BY <1>2, <1>4, <1>5, <1>6
<1> QED
  BY <1>6 DEF SignalFirst

\* A ring token is never set back: the task of an earlier transform would have
\* been stored before the later one started.
LEMMA ReadyAdvances ==
    ASSUME RingInv, NEW w \in Worker, Step(w), ~Clear(w), NEW word \in ReadyWord
    PROVE  ready'[word] >= ready[word]
<1> USE DEF RingInv
<1>1. Running /\ ready \in [ReadyWord -> Nat]
  BY StepRunning DEF TypeInv, TypeOK
<1>2. CASE ~Publish(w)
  BY <1>1, <1>2, WordFrame
<1>3. CASE Publish(w)
  <2>1. pc[w] \in Busy /\ pc[w] \in StartedPhase /\ ~FinalSegment(Role(w))
    BY <1>3 DEF Publish, TypeInv, PhaseOK, Busy, StartedPhase, Loaded
  <2>2. PICK u \in 0 .. Batch - 1 : u = Transform(w)
    BY <2>1, ReachFacts
  <2>3. PICK k \in Task(Role(w)) : k = Within(w)
    BY <2>1, ReachFacts
  <2>4. PICK e : e = Role(w)
    OBVIOUS
  <2>5. CASE ~Ring(e)
    BY <1>1, <1>3, <2>4, <2>5 DEF Publish
  <2>6. CASE Ring(e)
    <3>1. e \in RingEdge
      BY <2>6 DEF Ring, RingEdge
    <3>2. ready' = [ready EXCEPT ![<<e, Slot(e, u), k>>] = u + 1]
      BY <1>3, <2>2, <2>3, <2>4, <2>6 DEF Publish
    <3>3. ASSUME word = <<e, Slot(e, u), k>>, ready[word] # 0 PROVE ready[word] <= u + 1
      <4>1. PICK x \in InSlot(e, Slot(e, u)) : x = ready[word] - 1 /\ Stored(e, TaskNumber(e, x, k))
        BY <1>1, <2>3, <2>4, <3>1, <3>3, SlotFacts, RingEdgeFacts DEF TokenTrue
      <4>2. x \in 0 .. Batch - 1 /\ Slot(e, x) = Slot(e, u)
        BY <4>1 DEF InSlot
      <4>3. ~Stored(e, TaskNumber(e, u, k))
        BY <2>2, <2>3, <2>4, CurrentTask
      <4>4. ~(u < x)
        BY <2>3, <2>4, <3>1, <4>1, <4>2, <4>3, RingEdgeFacts, EarlierStored DEF Started
      <4> QED
        BY <1>1, <4>1, <4>2, <4>4, KernelAssumption
    <3> QED
      BY <1>1, <3>2, <3>3, KernelAssumption
  <2> QED
    BY <2>5, <2>6
<1> QED
  BY <1>2, <1>3

LEMMA ConsumedAdvances ==
    ASSUME EpochInv, NEW w \in Worker, Step(w), ~Clear(w), NEW word \in StateWord
    PROVE  consumed_epoch'[word] >= consumed_epoch[word]
<1> USE DEF EpochInv, RingInv
<1>1. consumed_epoch \in [StateWord -> Nat]
  BY DEF TypeInv, TypeOK
<1>2. CASE ~SignalConsumed(w)
  BY <1>1, <1>2, WordFrame
<1>3. CASE SignalConsumed(w)
  <2>1. pc[w] \in Busy /\ pc[w] = "signal"
    BY <1>3 DEF SignalConsumed, Busy, Loaded
  <2>2. Transform(w) \in Nat /\ consumed_epoch[Source(w)] <= Transform(w)
    BY <2>1, ReachFacts DEF SignalFirst
  <2> QED
    BY <1>1, <1>3, <2>2 DEF SignalConsumed, Epoch
<1> QED
  BY <1>2, <1>3

LEMMA StateAdvances ==
    ASSUME RingInv, NEW w \in Worker, Step(w), ~Clear(w), NEW word \in StateWord
    PROVE  \/ consume_state'[word].epoch > consume_state[word].epoch
           \/ /\ consume_state'[word].epoch = consume_state[word].epoch
              /\ consume_state'[word].count >= consume_state[word].count
<1> USE DEF RingInv
<1>1. Running /\ consume_state \in [StateWord -> [epoch : Nat, count : Nat]]
  BY StepRunning DEF TypeInv, TypeOK
<1>2. CASE ~(SwapConsume(w) /\ word = Source(w))
  <2>1. consume_state'[word] = consume_state[word]
    BY <1>1, <1>2, WordFrame DEF SwapConsume
  <2> QED
    BY <1>1, <2>1
<1>3. CASE SwapConsume(w) /\ word = Source(w)
  <2>1. PICK e \in RingEdge, u \in 0 .. Batch - 1 :
             /\ u = Transform(w) /\ Source(w) = <<e, Slot(e, u)>>
             /\ Slot(e, u) \in 0 .. Slots[e] - 1 /\ <<e, Slot(e, u)>> \in StateWord
             /\ ReleasedOf(e, u) # Task(e + 1)
    BY <1>3, SwapFacts
  <2>2. ~(u + 1 < consume_state[word].epoch)
    BY <1>1, <1>3, <2>1 DEF CountTrue, InSlot
  <2>3. /\ consume_state'[word].epoch = u + 1
        /\ consume_state[word].epoch = u + 1 =>
                consume_state'[word].count = consume_state[word].count + 1
    BY <1>1, <1>3, <2>1 DEF SwapConsume, DesiredState, Epoch
  <2>4. consume_state[word].epoch \in Nat /\ consume_state[word].count \in Nat /\ u \in Nat
    BY <1>1, KernelAssumption
  <2> QED
    BY <2>2, <2>3, <2>4
<1> QED
  BY <1>2, <1>3

LEMMA EpochReachedStep ==
    ASSUME EpochInv, NEW w \in Worker, Step(w), ~Clear(w)
    PROVE  EpochReached'
<1> USE DEF EpochInv, RingInv
<1> SUFFICES ASSUME NEW e \in RingEdge, NEW t \in 0 .. Batch - 1, NEW u \in 0 .. Batch - 1,
                    NEW p \in Task(e), t < u, Slot(e, t) = Slot(e, u),
                    Started(e, TaskNumber(e, u, p))'
             PROVE  t + 1 <= consumed_epoch'[<<e, Slot(e, t)>>]
  BY DEF EpochReached
<1> DEFINE T == TaskNumber(e, u, p)
<1>1. e \in Segment /\ e \in Edge /\ Ring(e) /\ Slots[e] \in Nat \ {0} /\ Running
  BY RingEdgeFacts, StepRunning
<1>2. T \in Nat /\ T \div TaskCount(e) = u /\ t \in Nat /\ u \in Nat
  BY <1>1, NumberFacts, KernelAssumption
<1>3. Started(e, T)'
  BY DEF Started, Stored, Owner, TaskNumber
<1>4. <<e, Slot(e, t)>> \in StateWord /\ consumed_epoch[<<e, Slot(e, t)>>] \in Nat
  BY <1>1, SlotFacts, WordFacts DEF TypeInv, TypeOK
<1>5. CASE Started(e, T)
  <2>1. t + 1 <= consumed_epoch[<<e, Slot(e, t)>>]
    BY <1>1, <1>5 DEF EpochReached
  <2>2. consumed_epoch'[<<e, Slot(e, t)>>] >= consumed_epoch[<<e, Slot(e, t)>>]
    BY <1>4, ConsumedAdvances
  <2>3. consumed_epoch'[<<e, Slot(e, t)>>] \in Nat
    <3>1. TypeInv'
      BY TypeStep
    <3> QED
      BY <1>4, <3>1 DEF TypeInv, TypeOK
  <2> QED
    BY <1>2, <1>4, <2>1, <2>2, <2>3
<1> HIDE DEF T
<1>6. CASE AcquireSlot(w) /\ e = Role(w) /\ T = task[w]
  <2>1. Transform(w) = u /\ consumed_epoch' = consumed_epoch
    BY <1>2, <1>6 DEF Transform, AcquireSlot
  <2>2. t + Slots[e] <= u
    <3>1. (t % Slots[e]) = (u % Slots[e])
      BY <1>1, SlotFacts
    <3> QED
      BY <1>1, <1>2, <3>1, SameResidue
  <2>3. Destination(w) = <<e, Slot(e, t)>>
    BY <1>6, <2>1 DEF Destination
  <2>4. consumed_epoch[<<e, Slot(e, t)>>] >= u - Slots[e] + 1
    BY <1>1, <1>2, <1>6, <2>1, <2>2, <2>3 DEF AcquireSlot, SlotFree
  <2> QED
    BY <1>1, <1>2, <1>4, <2>1, <2>2, <2>4
<1> QED
  BY <1>1, <1>2, <1>3, <1>5, <1>6, StepProgress

LEMMA UntouchedEpoch ==
    RingInv /\ Untouched => EpochInv
<1> SUFFICES ASSUME RingInv, Untouched PROVE EpochInv
  OBVIOUS
<1>1. EpochReached
  <2> SUFFICES ASSUME NEW e \in RingEdge, NEW u \in 0 .. Batch - 1, NEW p \in Task(e)
               PROVE  ~Started(e, TaskNumber(e, u, p))
    BY DEF EpochReached
  <2> QED
    BY RingEdgeFacts, NumberFacts, UntouchedTask
<1>2. SignalFirst
  BY DEF SignalFirst, Untouched
<1> QED
  BY <1>1, <1>2 DEF EpochInv

LEMMA EpochInit == Init => EpochInv
<1>1. Init => Untouched
  BY SomeWorker DEF Init, Untouched, Running
<1> QED
  BY <1>1, RingInit, UntouchedEpoch

LEMMA EpochNext == EpochInv /\ [Next]_vars => EpochInv'
<1>1. RingInv' /\ Untouched' => EpochInv'
  BY UntouchedEpoch, PTL
<1> SUFFICES ASSUME EpochInv, [Next]_vars PROVE EpochInv'
  OBVIOUS
<1>2. RingInv /\ RingInv'
  BY RingNext DEF EpochInv
<1>3. ASSUME NEW w \in Worker, Step(w), ~Clear(w) PROVE EpochInv'
  BY <1>2, <1>3, SignalFirstStep, EpochReachedStep DEF EpochInv
<1>4. ASSUME NEW w \in Worker, Clear(w) \/ GridSync \/ Relaunch PROVE EpochInv'
  BY <1>1, <1>2, <1>4, OutsideLoop
<1>5. CASE UNCHANGED vars
  <2>1. \A e, T : Started(e, T)' <=> Started(e, T)
    BY <1>5 DEF vars, Started, Stored, Owner
  <2>2. (Running' <=> Running) /\ consumed_epoch' = consumed_epoch /\ EpochReached /\ SignalFirst
    BY <1>5 DEF vars, Running, EpochInv
  <2>3. EpochReached'
    BY ONLY <2>1, <2>2 DEF EpochReached, TaskNumber, Slot
  <2>4. SignalFirst'
    BY <1>5, <2>2 DEF vars, SignalFirst, Source, Transform
  <2> QED
    BY <1>2, <2>3, <2>4 DEF EpochInv
<1> QED
  BY <1>3, <1>4, <1>5, SomeWorker DEF Next, Finished

(* Between grid.sync and the end of a launch no synchronisation word goes  *)
(* back, whatever the interleaving: a token, a wave counter and a consumed *)
(* epoch never decrease, and the packed consume_state moves on in its      *)
(* epoch or to a later one.  A poll that succeeded therefore stays true.   *)
THEOREM EpochsAdvanceCorrect == Spec => EpochsAdvance
<1> DEFINE Advance ==
        (Running /\ launch' = launch) =>
          /\ \A word \in ReadyWord : ready'[word] >= ready[word]
          /\ \A word \in StateWord :
                /\ consumed_epoch'[word] >= consumed_epoch[word]
                /\ \/ consume_state'[word].epoch > consume_state[word].epoch
                   \/ /\ consume_state'[word].epoch = consume_state[word].epoch
                      /\ consume_state'[word].count >= consume_state[word].count
<1>1. EpochInv /\ [Next]_vars => [Advance]_vars
  <2> SUFFICES ASSUME EpochInv, Next, Running, launch' = launch PROVE Advance
    OBVIOUS
  <2>1. ASSUME NEW w \in Worker, Step(w) PROVE Advance
    <3>1. ~Clear(w)
      BY DEF Clear, Running
    <3> QED
      BY <2>1, <3>1, ReadyAdvances, ConsumedAdvances, StateAdvances DEF EpochInv
  <2>2. ~GridSync
    BY SomeWorker DEF GridSync, Running
  <2>3. ~Relaunch
    BY DEF Relaunch, EpochInv, RingInv, TypeInv, TypeOK
  <2>4. CASE UNCHANGED vars
    <3>1. /\ ready \in [ReadyWord -> Nat] /\ consumed_epoch \in [StateWord -> Nat]
          /\ consume_state \in [StateWord -> [epoch : Nat, count : Nat]]
      BY DEF EpochInv, RingInv, TypeInv, TypeOK
    <3> QED
      BY <2>4, <3>1 DEF vars
  <2> QED
    BY <2>1, <2>2, <2>3, <2>4 DEF Next, Finished
<1> QED
  BY <1>1, EpochInit, EpochNext, PTL DEF Spec, EpochsAdvance

----------------------------------------------------------------------------
(* The inductive invariant: where the results of a launch are.             *)

FullEdge == { e \in Edge : ~Ring(e) }

\* The producer tasks of a wave that have stored transform t.
FedBy(e, t, v) == { k \in Feeders(e, v) : Stored(e, TaskNumber(e, t, k)) }

\* Every producer of task number T of segment s has stored.
Fed(s, T) == \A i \in 0 .. SegmentN[s] - 1 : ItemFed(s, T, i)

WaveTrue ==
    Running => \A e \in FullEdge : \A t \in 0 .. Batch - 1, v \in 0 .. WaveCount(e) - 1 :
        ready[<<e, t, v>>] = Cardinality(FedBy(e, t, v))

\* A warp past its wave's counter, or that has taken its operands, was fed.
WaveFed ==
    \A w \in Worker : (pc[w] = "load" /\ AggregatedSource(Role(w))) => Fed(Role(w), task[w])

FullTakenFed ==
    \A e \in FullEdge : \A T \in 0 .. TotalTasks(e + 1) - 1 :
        Taken(e + 1, T) => Fed(e + 1, T)

UnreadTile == \A w \in Worker : pc[w] = "wave" => pending[w] = Item(w)

\* The last transform a task of segment e has stored into its slot is still
\* there, unless a later one has entered the slot.
CellsTrue ==
    \A e \in Edge : \A t \in 0 .. Batch - 1, k \in Task(e) :
        (/\ Stored(e, TaskNumber(e, t, k))
         /\ \A u \in InSlot(e, Slot(e, t)) : u > t => ~Started(e, TaskNumber(e, u, k)))
        => \A i \in 0 .. SegmentN[e] - 1 :
                boundary[<<e, Slot(e, t), Address(e, k, i)>>] = <<launch, t>>

\* What a warp has stored of the task it is storing is in the slot.
StoringTrue ==
    \A w \in Worker : (pc[w] \in {"store", "publish"} /\ ~FinalSegment(Role(w))) =>
        \A i \in Item(w) : (i \notin pending[w] \/ pc[w] = "publish") =>
            boundary[<<Role(w), Slot(Role(w), Transform(w)), Here(w, i)>>]
                = <<launch, Transform(w)>>

\* The same for the last segment, whose results no later task overwrites.
StoringOut ==
    \A w \in Worker : (pc[w] = "store" /\ FinalSegment(Role(w))) =>
        \A i \in Item(w) : i \notin pending[w] =>
            output[<<Transform(w), OutputAddress(Here(w, i))>>] = <<launch, Transform(w)>>

OutputTrue ==
    \A t \in 0 .. Batch - 1, k \in Task(Count - 1) :
        Stored(Count - 1, TaskNumber(Count - 1, t, k)) =>
            \A i \in 0 .. SegmentN[Count - 1] - 1 :
                output[<<t, OutputAddress(Address(Count - 1, k, i))>>] = <<launch, t>>

\* A warp leaves its loop when its role's tasks are used up.
DoneTrue == \A w \in Worker : pc[w] = "done" => task[w] >= TotalTasks(Role(w))

DataInv ==
    /\ RingInv
    /\ WaveTrue
    /\ WaveFed
    /\ FullTakenFed
    /\ UnreadTile
    /\ OperandsFresh
    /\ CellsTrue
    /\ StoringTrue
    /\ StoringOut
    /\ OutputTrue
    /\ DoneTrue

----------------------------------------------------------------------------
(* What follows about tasks and slots.                                     *)

LEMMA FullEdgeFacts ==
    ASSUME NEW e \in FullEdge
    PROVE  /\ e \in Edge /\ ~Ring(e) /\ Slots[e] = Batch
           /\ ReadyTokens(e) = WaveCount(e)
           /\ AggregatedSource(e + 1) /\ ~RingSource(e + 1)
           /\ \A t \in 0 .. Batch - 1 : Slot(e, t) = t
<1>1. e \in Edge /\ ~Ring(e)
  BY DEF FullEdge
<1>2. Slots[e] = Batch
  BY <1>1, KernelAssumption DEF Ring
<1> QED
  BY <1>1, <1>2, EdgeSizes DEF ReadyTokens, AggregatedSource, RingSource, Slot

\* Two warps that store to the same place are one.
LEMMA StoringAlone ==
    ASSUME RingInv, NEW v \in Worker, NEW w \in Worker, Role(v) = Role(w),
           ~FinalSegment(Role(w)), pc[v] \in StartedPhase, pc[w] \in StartedPhase,
           Slot(Role(w), Transform(v)) = Slot(Role(w), Transform(w)),
           Within(v) = Within(w)
    PROVE  v = w
<1> DEFINE s == Role(w)
           t == Transform(v)
           u == Transform(w)
           k == Within(w)
<1>1. TypeInv /\ OwnTask /\ pc[v] \in Busy /\ pc[w] \in Busy
  BY DEF RingInv, StartedPhase, Busy
<1>2. /\ s \in Edge /\ k \in Task(s)
      /\ t \in 0 .. Batch - 1 /\ u \in 0 .. Batch - 1 /\ t \in Nat /\ u \in Nat
  BY <1>1, ReachFacts
<1>3. /\ ~Stored(s, TaskNumber(s, t, k)) /\ ~Stored(s, TaskNumber(s, u, k))
      /\ Started(s, TaskNumber(s, t, k)) /\ Started(s, TaskNumber(s, u, k))
  BY <1>1, CurrentTask
<1>4. Owner(s, TaskNumber(s, t, k)) = v /\ Owner(s, TaskNumber(s, u, k)) = w
  BY <1>1, TaskOfWarp
<1> HIDE DEF s, t, u, k
<1>5. ~(t < u)
  BY <1>2, <1>3, EarlierStored DEF s, t, u
<1>6. ~(u < t)
  BY <1>2, <1>3, EarlierStored DEF s, t, u
<1>7. t = u
  BY <1>2, <1>5, <1>6
<1> QED
  BY <1>4, <1>7

\* The position a warp stores to tells its task.
LEMMA PlaceOfTask ==
    ASSUME TypeInv, NEW w \in Worker, pc[w] \in Busy, NEW i \in Item(w),
           NEW k \in Task(Role(w)), NEW j \in 0 .. SegmentN[Role(w)] - 1,
           Here(w, i) = Address(Role(w), k, j)
    PROVE  k = Within(w)
<1>1. Role(w) \in Segment /\ Within(w) \in Task(Role(w)) /\ i \in 0 .. SegmentN[Role(w)] - 1
  BY WorkerFacts, ReachFacts DEF Item
<1>2. /\ ProducerWithin(Role(w), Address(Role(w), Within(w), i)) = Within(w)
      /\ ProducerWithin(Role(w), Address(Role(w), k, j)) = k
  BY <1>1, ProducerOfAddress
<1> QED
  BY <1>2 DEF Here

LEMMA MemoryFrame ==
    ASSUME NEW w \in Worker, Step(w), ~Clear(w)
    PROVE  /\ launch' = launch
           /\ (\A i \in Item(w) : ~StoreElement(w, i)) => boundary' = boundary /\ output' = output
           /\ ((\A i \in Item(w) : ~LoadElement(w, i)) /\ ~Compute(w)) => tile' = tile
  BY DEF Step, AcquireSlot, AwaitWave, AwaitToken, LoadElement, FinishLoad,
         ObserveConsume, SwapConsume, RetrySwap, SignalConsumed, Compute,
         StoreElement, FinishStore, Publish

LEMMA FedStays ==
    ASSUME TypeInv, OwnTask, NEW w \in Worker, Step(w), ~Clear(w),
           NEW s \in Segment, s # 0, NEW T \in Nat, T < TotalTasks(s), Fed(s, T)
    PROVE  Fed(s, T)'
  BY ItemFedStays DEF Fed

----------------------------------------------------------------------------
(* The full-scratch counters.                                              *)

\* A counter that reached segment_n means that every producer has stored.
LEMMA WaveMeansFed ==
    ASSUME RingInv, WaveTrue, Running, NEW w \in Worker, pc[w] = "wave", WaveComplete(w)
    PROVE  Fed(Role(w), task[w])
<1> DEFINE s == Role(w)
           e == Role(w) - 1
           t == Transform(w)
           k == Within(w)
           v == ConsumerWave(e, k)
<1>1. TypeInv /\ OwnTask /\ pc[w] \in Busy /\ AggregatedSource(s)
  BY DEF RingInv, TypeInv, PhaseOK, Busy
<1>2. s \in Segment /\ s # 0 /\ e + 1 = s
  BY <1>1, WorkerFacts DEF AggregatedSource, Segment
<1>3. e \in Edge /\ t \in 0 .. Batch - 1 /\ k \in Task(s)
  BY <1>1, <1>2, ReachFacts
<1>4. e \in FullEdge
  BY <1>1, <1>3 DEF AggregatedSource, FullEdge
<1> HIDE DEF s, e, t, k
<1>5. v \in 0 .. WaveCount(e) - 1
  <2>1. 0 \in 0 .. SegmentN[e + 1] - 1
    BY <1>2, SegmentSizes
  <2> QED
    BY <1>2, <1>3, <2>1, WaveOfProducer
<1>6. ready[<<e, t, v>>] >= SegmentN[s]
  BY DEF WaveComplete, s, e, t, k
<1> HIDE DEF v
<1>7. Cardinality(FedBy(e, t, v)) >= SegmentN[s]
  BY <1>3, <1>4, <1>5, <1>6 DEF WaveTrue
<1>8. FedBy(e, t, v) = Feeders(e, v)
  <2>1. IsFiniteSet(Feeders(e, v)) /\ Cardinality(Feeders(e, v)) = SegmentN[s]
    BY <1>2, <1>3, <1>5, FeederCount
  <2>2. FedBy(e, t, v) \in SUBSET Feeders(e, v)
    BY DEF FedBy
  <2>3. /\ IsFiniteSet(FedBy(e, t, v))
        /\ Cardinality(FedBy(e, t, v)) <= Cardinality(Feeders(e, v))
        /\ Cardinality(Feeders(e, v)) = Cardinality(FedBy(e, t, v)) => Feeders(e, v) = FedBy(e, t, v)
    BY <2>1, <2>2, FS_Subset
  <2>4. Cardinality(FedBy(e, t, v)) \in Nat /\ SegmentN[s] \in Nat
    BY <1>2, <2>3, FS_CardinalityType, SegmentSizes
  <2> QED
    BY <1>7, <2>1, <2>3, <2>4
<1>9. ASSUME NEW i \in 0 .. SegmentN[s] - 1 PROVE ItemFed(s, task[w], i)
  <2> DEFINE p == ProducerWithin(e, Address(s, k, i))
  <2>1. p \in Feeders(e, v)
    BY <1>2, <1>3, WaveOfProducer DEF Feeders, v
  <2>2. Stored(e, TaskNumber(e, t, p))
    BY <1>8, <2>1 DEF FedBy
  <2> QED
    BY <2>2 DEF ItemFed, s, e, t, k, Transform, Within
<1> QED
  BY <1>9 DEF Fed, s

LEMMA WaveTrueStep ==
    ASSUME RingInv, WaveTrue, NEW w \in Worker, Step(w), ~Clear(w)
    PROVE  WaveTrue'
<1> SUFFICES ASSUME NEW e \in FullEdge, NEW t \in 0 .. Batch - 1, NEW v \in 0 .. WaveCount(e) - 1
             PROVE  ready'[<<e, t, v>>] = Cardinality(FedBy(e, t, v)')
  BY DEF WaveTrue
<1>1. TypeInv /\ OwnTask /\ BeforeBarrier
  BY DEF RingInv
<1>2. /\ e \in Edge /\ e \in Segment /\ ~Ring(e) /\ ~FinalSegment(e)
      /\ <<e, t, v>> \in ReadyWord /\ \A u \in 0 .. Batch - 1 : Slot(e, u) = u
  BY FullEdgeFacts, EdgeSizes, WordFacts DEF FinalSegment
<1>3. ready[<<e, t, v>>] = Cardinality(FedBy(e, t, v))
  BY <1>1, StepRunning DEF WaveTrue
<1>4. FedBy(e, t, v)' = { k \in Feeders(e, v) : Stored(e, TaskNumber(e, t, k))' }
  BY DEF FedBy, Feeders, Stored, Owner, TaskNumber
<1>5. \A k \in Feeders(e, v) :
        /\ k \in Task(e)
        /\ TaskNumber(e, t, k) \in Nat
        /\ TaskNumber(e, t, k) \div TaskCount(e) = t
        /\ (TaskNumber(e, t, k) % TaskCount(e)) = k
  BY <1>2, NumberFacts DEF Feeders
<1>6. \A k \in Feeders(e, v) :
        /\ Stored(e, TaskNumber(e, t, k)) => Stored(e, TaskNumber(e, t, k))'
        /\ Stored(e, TaskNumber(e, t, k))' =>
                \/ Stored(e, TaskNumber(e, t, k))
                \/ Publish(w) /\ e = Role(w) /\ TaskNumber(e, t, k) = task[w]
  BY <1>1, <1>2, <1>5, StepProgress DEF EndsTask
<1>7. CASE Publish(w) /\ e = Role(w) /\ t = Transform(w) /\ v = ProducerWave(e, Within(w))
  <2>1. pc[w] \in Busy /\ NextTask(w)
    BY <1>7 DEF Publish, Busy, Loaded
  <2>2. PICK k \in Feeders(e, v) : k = Within(w)
    BY <1>1, <1>7, <2>1, ReachFacts DEF Feeders
  <2>3. TaskNumber(e, t, k) = task[w] /\ task[w] \in Nat
    BY <1>1, <1>7, <2>2, TaskOfWarp
  <2>4. ~Stored(e, TaskNumber(e, t, k))
    BY <1>1, <1>7, <2>2, CurrentTask
  <2>5. Stored(e, TaskNumber(e, t, k))'
    <3>1. ASSUME NEW T, T = task[w] PROVE Stored(e, T)'
      BY <1>1, <1>7, <2>1, <3>1, EndsTaskStores
    <3> QED
      BY <2>3, <3>1 DEF Stored, Owner, TaskNumber
  <2>6. ready'[<<e, t, v>>] = ready[<<e, t, v>>] + 1
    <3>1. <<Role(w), Slot(Role(w), Transform(w)), ProducerWave(Role(w), Within(w))>> = <<e, t, v>>
      BY <1>2, <1>7
    <3>2. ready' = [ready EXCEPT ![<<e, t, v>>] = @ + 1]
      BY <1>2, <1>7, <3>1 DEF Publish
    <3> QED
      BY <1>1, <1>2, <3>2 DEF TypeInv, TypeOK
  <2>7. FedBy(e, t, v)' = FedBy(e, t, v) \cup {k}
    <3>1. \A j \in Feeders(e, v) : TaskNumber(e, t, j) = task[w] => j = k
      BY <1>5, <2>2, <1>7 DEF Within
    <3> QED
      BY <1>4, <1>6, <2>2, <2>5, <3>1 DEF FedBy
  <2>8. k \notin FedBy(e, t, v)
    BY <2>4 DEF FedBy
  <2>9. IsFiniteSet(FedBy(e, t, v))
    <3>1. IsFiniteSet(Feeders(e, v)) /\ FedBy(e, t, v) \in SUBSET Feeders(e, v)
      BY <1>2, FeederCount DEF FedBy
    <3> QED
      BY <3>1, FS_Subset
  <2> QED
    BY <1>3, <2>6, <2>7, <2>8, <2>9, FS_AddElement
<1>8. CASE ~(Publish(w) /\ e = Role(w) /\ t = Transform(w) /\ v = ProducerWave(e, Within(w)))
  <2>1. FedBy(e, t, v)' = FedBy(e, t, v)
    <3>1. \A k \in Feeders(e, v) :
            (Publish(w) /\ e = Role(w) /\ TaskNumber(e, t, k) = task[w]) => FALSE
      BY <1>5, <1>8 DEF Feeders, Transform, Within
    <3> QED
      BY <1>4, <1>6, <3>1 DEF FedBy
  <2>2. ready'[<<e, t, v>>] = ready[<<e, t, v>>]
    <3>1. CASE ~Publish(w)
      BY <3>1, WordFrame
    <3>2. CASE Publish(w) /\ Ring(Role(w))
      BY <1>1, <1>2, <3>2 DEF Publish, TypeInv, TypeOK
    <3>3. CASE Publish(w) /\ ~Ring(Role(w))
      <4>1. pc[w] \in Busy
        BY <3>3 DEF Publish, Busy, Loaded
      <4>2. Transform(w) \in 0 .. Batch - 1
        BY <1>1, <4>1, ReachFacts
      <4>3. <<Role(w), Slot(Role(w), Transform(w)), ProducerWave(Role(w), Within(w))>> # <<e, t, v>>
        BY <1>2, <1>8, <3>3, <4>2
      <4> QED
        BY <1>1, <1>2, <3>3, <4>3 DEF Publish, TypeInv, TypeOK
    <3> QED
      BY <3>1, <3>2, <3>3
  <2> QED
    BY <1>3, <2>1, <2>2
<1> QED
  BY <1>7, <1>8

LEMMA StepTypes ==
    ASSUME TypeInv
    PROVE  /\ pc \in [Worker -> {"clear", "sync", "acquire", "wave", "load", "done"} \cup Loaded]
           /\ task \in [Worker -> Nat]
           /\ pending \in [Worker -> SUBSET Nat]
           /\ granted \in [Worker -> SUBSET Nat]
           /\ tile \in [TileWord -> Token]
           /\ boundary \in [Cell -> Token]
           /\ output \in [(0 .. Batch - 1) \X Element -> Token]
  BY DEF TypeInv, TypeOK

LEMMA OtherWarp ==
    ASSUME TypeInv, NEW w \in Worker, Step(w), ~Clear(w), NEW v \in Worker, v # w
    PROVE  /\ pc'[v] = pc[v] /\ task'[v] = task[v]
           /\ pending'[v] = pending[v] /\ granted'[v] = granted[v]
           /\ \A i \in Item(v) : tile'[<<v, i>>] = tile[<<v, i>>]
           /\ Transform(v)' = Transform(v) /\ Within(v)' = Within(v)
           /\ \A i : Here(v, i)' = Here(v, i)
<1>1. /\ pc'[v] = pc[v] /\ task'[v] = task[v]
      /\ pending'[v] = pending[v] /\ granted'[v] = granted[v]
  BY StepTypes, StepFrame
<1>2. ASSUME NEW i \in Item(v) PROVE tile'[<<v, i>>] = tile[<<v, i>>]
  <2>1. <<v, i>> \in TileWord
    BY WordFacts
  <2>2. ASSUME NEW j \in Item(w), LoadElement(w, j) PROVE tile'[<<v, i>>] = tile[<<v, i>>]
    BY <2>1, <2>2, StepTypes DEF LoadElement
  <2>3. CASE Compute(w)
    BY <2>1, <2>3 DEF Compute
  <2> QED
    BY <2>2, <2>3, MemoryFrame
<1>3. Transform(v)' = Transform(v) /\ Within(v)' = Within(v)
  BY <1>1 DEF Transform, Within
<1> QED
  BY <1>1, <1>2, <1>3 DEF Here

\* The steps of a warp that keep it inside its task.
LEMMA OwnTaskKept ==
    ASSUME TypeInv, NEW w \in Worker, Step(w), ~Clear(w), ~EndsTask(w)
    PROVE  /\ task' = task
           /\ Transform(w)' = Transform(w) /\ Within(w)' = Within(w)
           /\ \A i : Here(w, i)' = Here(w, i)
<1>1. task' = task
  BY StepFrame DEF SamePhase
<1> QED
  BY <1>1 DEF Transform, Within, Here

LEMMA UnreadTileStep ==
    ASSUME TypeInv, UnreadTile, NEW w \in Worker, Step(w), ~Clear(w)
    PROVE  UnreadTile'
<1> SUFFICES ASSUME NEW v \in Worker, pc'[v] = "wave" PROVE pending'[v] = Item(v)
  BY DEF UnreadTile, Item
<1>1. CASE v # w
  BY <1>1, OtherWarp DEF UnreadTile
<1>2. CASE v = w
  <2>1. CASE AcquireSlot(w)
    BY <1>2, <2>1, StepTypes DEF AcquireSlot
  <2>2. CASE ~AcquireSlot(w)
    <3>1. ~AwaitWave(w) /\ ~FinishLoad(w) /\ ~ObserveConsume(w) /\ ~SwapConsume(w)
          /\ ~SignalConsumed(w) /\ ~Compute(w)
      BY <1>2, StepTypes DEF AwaitWave, FinishLoad, ObserveConsume, SwapConsume,
            SignalConsumed, Compute, Goto
    <3>2. ~RetrySwap(w) /\ \A j : ~StoreElement(w, j) /\ ~AwaitToken(w, j) /\ ~LoadElement(w, j)
      BY <1>2, StepTypes DEF RetrySwap, StoreElement, AwaitToken, LoadElement
    <3>3. ~FinishStore(w) /\ ~Publish(w)
      <4>1. ~NextTask(w)
        BY <1>2, NextTaskType
      <4> QED
        BY <1>2, <4>1, StepTypes DEF FinishStore, Publish, Goto
    <3> QED
      BY <2>2, <3>1, <3>2, <3>3 DEF Step
  <2> QED
    BY <2>1, <2>2
<1> QED
  BY <1>1, <1>2

LEMMA DoneTrueStep ==
    ASSUME TypeInv, DoneTrue, NEW w \in Worker, Step(w), ~Clear(w)
    PROVE  DoneTrue'
<1> SUFFICES ASSUME NEW v \in Worker, pc'[v] = "done"
             PROVE  task'[v] >= TotalTasks(Role(v))
  BY DEF DoneTrue, TotalTasks
<1>1. CASE v # w
  BY <1>1, OtherWarp DEF DoneTrue
<1>2. CASE v = w
  <2>1. NextTask(w)
    BY <1>2, StepFrame DEF SamePhase, StartedPhase, Loaded
  <2>2. pc'[w] = PhaseOf(Role(w), task'[w]) /\ task'[w] \in Nat
    BY <2>1, StepTypes, NextTaskType DEF NextTask, Goto
  <2>3. ~(task'[w] < TotalTasks(Role(w)))
    BY <1>2, <2>2 DEF PhaseOf
  <2>4. TotalTasks(Role(w)) \in Nat
    BY WorkerFacts, KernelAssumption, SMT DEF TotalTasks
  <2> QED
    BY <1>2, <2>2, <2>3, <2>4
<1> QED
  BY <1>1, <1>2

LEMMA WaveFedStep ==
    ASSUME RingInv, WaveTrue, WaveFed, NEW w \in Worker, Step(w), ~Clear(w)
    PROVE  WaveFed'
<1> SUFFICES ASSUME NEW v \in Worker, pc'[v] = "load", AggregatedSource(Role(v))
             PROVE  Fed(Role(v), task[v])'
  BY DEF WaveFed
<1>1. TypeInv /\ OwnTask /\ Running
  BY StepRunning DEF RingInv
<1>2. Role(v) \in Segment /\ Role(v) # 0 /\ ~RingSource(Role(v))
  BY WorkerFacts DEF AggregatedSource, RingSource
<1>3. ASSUME Fed(Role(v), task[v]), task'[v] = task[v], pc[v] \in Busy
      PROVE  Fed(Role(v), task[v])'
  <2>1. ASSUME NEW T \in Nat, T < TotalTasks(Role(v)), Fed(Role(v), T) PROVE Fed(Role(v), T)'
    BY <1>1, <1>2, <2>1, FedStays
  <2>2. task[v] \in Nat /\ task[v] < TotalTasks(Role(v))
    BY <1>1, <1>3 DEF TypeInv, TypeOK, PhaseOK
  <2>3. PICK T \in Nat : T = task[v]
    BY <2>2
  <2>4. Fed(Role(v), T)'
    BY <1>3, <2>1, <2>2, <2>3
  <2> QED
    BY <1>3, <2>3, <2>4 DEF Fed, ItemFed, Stored, Owner, TaskNumber
<1>4. CASE v # w
  BY <1>1, <1>3, <1>4, OtherWarp DEF WaveFed, Busy
<1>5. CASE v = w
  <2>1. CASE AwaitWave(w)
    <3>1. pc[w] = "wave" /\ WaveComplete(w) /\ task' = task
      BY <2>1 DEF AwaitWave
    <3> QED
      BY <1>1, <1>3, <1>5, <3>1, WaveMeansFed DEF Busy
  <2>2. ASSUME NEW j \in Item(w), LoadElement(w, j) PROVE Fed(Role(v), task[v])'
    <3>1. pc[w] = "load" /\ task' = task
      BY <2>2 DEF LoadElement
    <3> QED
      BY <1>3, <1>5, <3>1 DEF WaveFed, Busy
  <2>3. CASE ~AwaitWave(w) /\ \A j \in Item(w) : ~LoadElement(w, j)
    <3>1. ~AcquireSlot(w) /\ ~FinishLoad(w) /\ ~ObserveConsume(w) /\ ~SwapConsume(w)
          /\ ~SignalConsumed(w) /\ ~Compute(w)
      BY <1>1, <1>5, StepTypes DEF AcquireSlot, FinishLoad, ObserveConsume, SwapConsume,
            SignalConsumed, Compute, Goto
    <3>2. ~RetrySwap(w) /\ \A j : ~StoreElement(w, j) /\ ~AwaitToken(w, j)
      BY <1>1, <1>2, <1>5, StepTypes DEF RetrySwap, StoreElement, AwaitToken
    <3>3. ~FinishStore(w) /\ ~Publish(w)
      <4>1. ~NextTask(w)
        BY <1>1, <1>5, NextTaskType
      <4> QED
        BY <1>1, <1>5, <4>1, StepTypes DEF FinishStore, Publish, Goto
    <3> QED
      BY <2>3, <3>1, <3>2, <3>3 DEF Step
  <2> QED
    BY <2>1, <2>2, <2>3
<1> QED
  BY <1>4, <1>5

LEMMA FullTakenFedStep ==
    ASSUME RingInv, WaveFed, FullTakenFed, NEW w \in Worker, Step(w), ~Clear(w)
    PROVE  FullTakenFed'
<1> SUFFICES ASSUME NEW e \in FullEdge, NEW T \in 0 .. TotalTasks(e + 1) - 1, Taken(e + 1, T)'
             PROVE  Fed(e + 1, T)'
  BY DEF FullTakenFed
<1>1. TypeInv /\ OwnTask
  BY DEF RingInv
<1>2. e + 1 \in Segment /\ e + 1 # 0 /\ AggregatedSource(e + 1)
  BY FullEdgeFacts, EdgeSizes
<1>3. T \in Nat /\ T < TotalTasks(e + 1)
  <2>1. TotalTasks(e + 1) \in Nat
    BY <1>2, SegmentSizes, KernelAssumption, SMT DEF TotalTasks
  <2> QED
    BY <2>1
<1>4. Fed(e + 1, T)
  <2>1. CASE Taken(e + 1, T)
    BY <2>1 DEF FullTakenFed
  <2>2. CASE FinishLoad(w) /\ e + 1 = Role(w) /\ T = task[w]
    BY <1>2, <2>2 DEF FinishLoad, WaveFed
  <2> QED
    BY <1>1, <1>2, <1>3, <2>1, <2>2, StepProgress
<1> QED
  BY <1>1, <1>2, <1>3, <1>4, FedStays

----------------------------------------------------------------------------
(* The data.                                                               *)

\* The elements a warp has in its tile.
Have(w) ==
    IF pc[w] = "load" THEN Item(w) \ pending[w]
    ELSE IF pc[w] \in Loaded THEN Item(w) ELSE {}

LEMMA FreshOperand ==
    ASSUME RingInv, WaveFed, CellsTrue, NEW w \in Worker, pc[w] = "load",
           NEW i \in Item(w), i \in pending[w], RingSource(Role(w)) => i \in granted[w]
    PROVE  Operand(w, i) = <<launch, Transform(w)>>
<1> DEFINE s == Role(w)
           e == Role(w) - 1
           t == Transform(w)
           p == ProducerWithin(e, Here(w, i))
<1>1. TypeInv /\ OwnTask /\ pc[w] \in Busy /\ pc[w] \in Busy \ Counted
  BY DEF RingInv, Busy, Counted
<1>2. CASE s = 0
  BY <1>2 DEF Operand
<1>3. CASE s # 0
  <2>0. s \in Segment /\ e \in Edge
    BY <1>1, <1>3, WorkerFacts, ReachFacts
  <2>1. s \in Segment /\ e + 1 = s /\ e \in Edge /\ e \in Segment
    BY <2>0, EdgeSizes DEF Segment
  <2>2. /\ t \in 0 .. Batch - 1 /\ t \in Nat /\ Here(w, i) \in Element
        /\ i \in 0 .. SegmentN[s] - 1
    BY <1>1, ReachFacts DEF Item
  <2>3. p \in Task(e) /\ \E j \in 0 .. SegmentN[e] - 1 : Address(e, p, j) = Here(w, i)
    BY <2>1, <2>2, EveryElementAddressed
  <2>4. ItemFed(s, task[w], i)
    <3>1. CASE Ring(e)
      BY <1>3, <2>1, <3>1 DEF RingInv, LoadFed, RingSource
    <3>2. CASE ~Ring(e)
      BY <1>3, <2>2, <3>2 DEF WaveFed, AggregatedSource, Fed
    <3> QED
      BY <3>1, <3>2
  <2>5. Stored(e, TaskNumber(e, t, p))
    BY <2>4 DEF ItemFed, Transform, Within, Here
  <2>6. ASSUME NEW u \in InSlot(e, Slot(e, t)), u > t
        PROVE  ~Started(e, TaskNumber(e, u, p))
    <3>1. u \in 0 .. Batch - 1 /\ Slot(e, u) = Slot(e, t) /\ u \in Nat
      BY KernelAssumption DEF InSlot
    <3>2. CASE Ring(e)
      <4> SUFFICES ASSUME Started(e, TaskNumber(e, u, p)) PROVE FALSE
        OBVIOUS
      <4>1. e \in RingEdge /\ RingSource(s)
        BY <1>3, <2>1, <3>2 DEF RingEdge, RingSource
      <4>2. ReleasedOf(e, t) = Task(e + 1)
        BY <2>2, <2>3, <2>6, <3>1, <4>1 DEF RingInv, HandedOver
      <4> QED
        BY <1>1, <2>1, <4>1, <4>2, NotReleased
    <3>3. CASE ~Ring(e)
      BY <2>1, <2>2, <2>6, <3>1, <3>3, FullEdgeFacts DEF FullEdge
    <3> QED
      BY <3>2, <3>3
  <2>7. boundary[<<e, Slot(e, t), Here(w, i)>>] = <<launch, t>>
    BY <2>1, <2>2, <2>3, <2>5, <2>6 DEF CellsTrue
  <2> QED
    BY <1>3, <2>7 DEF Operand, Source
<1> QED
  BY <1>2, <1>3

LEMMA OperandsFreshStep ==
    ASSUME RingInv, WaveFed, CellsTrue, UnreadTile, OperandsFresh,
           NEW w \in Worker, Step(w), ~Clear(w)
    PROVE  OperandsFresh'
<1>1. TypeInv
  BY DEF RingInv
<1>2. \A v \in Worker : \A i \in Have(v) : tile[<<v, i>>] = <<launch, Transform(v)>>
  BY DEF OperandsFresh, Have
<1>3. launch' = launch
  BY MemoryFrame
<1> SUFFICES ASSUME NEW v \in Worker, NEW i \in Item(v), i \in Have(v)'
             PROVE  tile'[<<v, i>>] = <<launch, Transform(v)'>>
  BY <1>3 DEF OperandsFresh, Have, Item
<1>4. <<v, i>> \in TileWord
  BY WordFacts
<1>5. CASE v # w
  BY <1>1, <1>2, <1>5, OtherWarp DEF Have, Item
<1>6. CASE v = w
  <2>1. CASE EndsTask(w)
    <3>1. NextTask(w)
      BY <2>1 DEF EndsTask, Publish, FinishStore
    <3> QED
      BY <1>1, <1>6, <3>1, NextTaskType DEF Have, Loaded
  <2>2. CASE ~EndsTask(w)
    <3>0. Transform(w)' = Transform(w)
      BY <1>1, <2>2, OwnTaskKept
    <3>1. ASSUME i \in Have(w), tile' = tile PROVE tile'[<<w, i>>] = <<launch, Transform(w)>>
      BY <1>2, <3>1
    <3>2. ASSUME AcquireSlot(w) PROVE tile'[<<w, i>>] = <<launch, Transform(w)>>
      <4>1. pending'[w] = Item(w) /\ pc'[w] \in {"wave", "load"}
        BY <1>1, <3>2, StepTypes DEF AcquireSlot, Goto
      <4> QED
        BY <1>6, <4>1 DEF Have, Loaded, Item
    <3>3. ASSUME AwaitWave(w) PROVE tile'[<<w, i>>] = <<launch, Transform(w)>>
      <4>1. pending'[w] = Item(w) /\ pc'[w] = "load"
        BY <1>1, <3>3, StepTypes DEF AwaitWave, Goto, UnreadTile
      <4> QED
        BY <1>6, <4>1 DEF Have, Loaded, Item
    <3>4. ASSUME NEW j \in Item(w), AwaitToken(w, j) PROVE tile'[<<w, i>>] = <<launch, Transform(w)>>
      <4>1. i \in Have(w) /\ tile' = tile
        BY <1>6, <3>4 DEF AwaitToken, Have, Item
      <4> QED
        BY <3>1, <4>1
    <3>5. ASSUME NEW j \in Item(w), LoadElement(w, j) PROVE tile'[<<w, i>>] = <<launch, Transform(w)>>
      <4>1. pc[w] = "load" /\ pc' = pc /\ j \in pending[w] /\ (RingSource(Role(w)) => j \in granted[w])
            /\ pending'[w] = pending[w] \ {j}
            /\ tile' = [tile EXCEPT ![<<w, j>>] = Operand(w, j)]
        BY <1>1, <3>5, StepTypes DEF LoadElement
      <4>2. Operand(w, j) = <<launch, Transform(w)>>
        BY <3>5, <4>1, FreshOperand
      <4>3. CASE i = j
        BY <1>1, <1>4, <1>6, <4>1, <4>2, <4>3, StepTypes
      <4>4. CASE i # j
        <5>1. i \in Have(w)
          BY <1>6, <4>1, <4>4 DEF Have, Item
        <5>2. tile'[<<w, i>>] = tile[<<w, i>>]
          BY <1>1, <1>4, <1>6, <4>1, <4>4, StepTypes
        <5> QED
          BY <1>2, <5>1, <5>2
      <4> QED
        BY <4>3, <4>4
    <3>6. ASSUME FinishLoad(w) PROVE tile'[<<w, i>>] = <<launch, Transform(w)>>
      <4>1. i \in Have(w) /\ tile' = tile
        BY <1>6, <3>6 DEF FinishLoad, Have, Item
      <4> QED
        BY <3>1, <4>1
    <3>7. ASSUME Compute(w) PROVE tile'[<<w, i>>] = <<launch, Transform(w)>>
      <4>1. \A j \in Item(w) : tile[<<w, j>>] = <<launch, Transform(w)>>
        BY <1>2, <3>7 DEF Compute, Have, Loaded
      <4>2. Result(w) = <<launch, Transform(w)>>
        BY <4>1 DEF Result
      <4> QED
        BY <1>4, <1>6, <3>7, <4>2 DEF Compute
    <3>8. ASSUME pc[w] \in Loaded, tile' = tile PROVE tile'[<<w, i>>] = <<launch, Transform(w)>>
      <4>1. i \in Have(w)
        BY <1>6, <3>8 DEF Have, Loaded
      <4> QED
        BY <3>1, <3>8, <4>1
    <3>9. ASSUME ObserveConsume(w) \/ SwapConsume(w) \/ RetrySwap(w) \/ SignalConsumed(w)
          PROVE tile'[<<w, i>>] = <<launch, Transform(w)>>
      BY <3>8, <3>9 DEF ObserveConsume, SwapConsume, RetrySwap, SignalConsumed, Loaded
    <3>10. ASSUME NEW j \in Item(w), StoreElement(w, j) PROVE tile'[<<w, i>>] = <<launch, Transform(w)>>
      BY <3>8, <3>10 DEF StoreElement, Loaded
    <3>11. ASSUME FinishStore(w) PROVE tile'[<<w, i>>] = <<launch, Transform(w)>>
      BY <3>8, <3>11 DEF FinishStore, Loaded
    <3>12. ASSUME Publish(w) PROVE tile'[<<w, i>>] = <<launch, Transform(w)>>
      BY <2>2, <3>12 DEF EndsTask
    <3> QED
      BY <1>6, <3>0, <3>2, <3>3, <3>4, <3>5, <3>6, <3>7, <3>9, <3>10, <3>11, <3>12 DEF Step
  <2> QED
    BY <2>1, <2>2
<1> QED
  BY <1>5, <1>6

LEMMA CellsTrueStep ==
    ASSUME RingInv, CellsTrue, StoringTrue, NEW w \in Worker, Step(w), ~Clear(w)
    PROVE  CellsTrue'
<1>1. TypeInv /\ OwnTask /\ launch' = launch
  BY MemoryFrame DEF RingInv
<1> SUFFICES ASSUME NEW e \in Edge, NEW t \in 0 .. Batch - 1, NEW k \in Task(e),
                    Stored(e, TaskNumber(e, t, k))',
                    \A u \in InSlot(e, Slot(e, t)) : u > t => ~Started(e, TaskNumber(e, u, k))',
                    NEW i \in 0 .. SegmentN[e] - 1
             PROVE  boundary'[<<e, Slot(e, t), Address(e, k, i)>>] = <<launch, t>>
  BY <1>1 DEF CellsTrue, InSlot
<1> DEFINE T == TaskNumber(e, t, k)
           cell == <<e, Slot(e, t), Address(e, k, i)>>
<1>2. e \in Segment /\ ~FinalSegment(e) /\ t \in Nat
  BY EdgeSizes, KernelAssumption DEF FinalSegment
<1>3. T \in Nat /\ T \div TaskCount(e) = t /\ T % TaskCount(e) = k
  BY <1>2, NumberFacts
<1>4. cell \in Cell
  BY <1>2, SlotFacts, AddressInRange, WordFacts
<1>5. \A u \in InSlot(e, Slot(e, t)) : u > t => ~Started(e, TaskNumber(e, u, k))
  <2> SUFFICES ASSUME NEW u \in InSlot(e, Slot(e, t)), u > t, Started(e, TaskNumber(e, u, k))
               PROVE  FALSE
    OBVIOUS
  <2>1. TaskNumber(e, u, k) \in Nat
    BY <1>2, NumberFacts DEF InSlot
  <2>2. ASSUME NEW X \in Nat, Started(e, X) PROVE Started(e, X)'
    BY <1>1, <1>2, <2>2, StepProgress
  <2>3. PICK X \in Nat : X = TaskNumber(e, u, k)
    BY <2>1
  <2>4. Started(e, TaskNumber(e, u, k))'
    BY <2>2, <2>3 DEF Started, Stored, Owner, TaskNumber
  <2> QED
    BY <2>4
<1>6. CASE Stored(e, T)
  <2>1. boundary[cell] = <<launch, t>>
    BY <1>5, <1>6 DEF CellsTrue
  <2>2. CASE \A j \in Item(w) : ~StoreElement(w, j)
    BY <2>1, <2>2, MemoryFrame
  <2>3. ASSUME NEW j \in Item(w), StoreElement(w, j) PROVE boundary'[cell] = <<launch, t>>
    <3>1. pc[w] \in Busy /\ pc[w] \in StartedPhase
      BY <2>3 DEF StoreElement, Busy, StartedPhase, Loaded
    <3>2. CASE FinalSegment(Role(w))
      BY <2>1, <2>3, <3>2 DEF StoreElement
    <3>3. CASE ~FinalSegment(Role(w))
      <4> DEFINE mine == <<Role(w), Slot(Role(w), Transform(w)), Here(w, j)>>
      <4>1. boundary' = [boundary EXCEPT ![mine] = tile[<<w, j>>]]
        BY <2>3, <3>3 DEF StoreElement, Destination
      <4>2. mine # cell
        <5> SUFFICES ASSUME mine = cell PROVE FALSE
          OBVIOUS
        <5>1. Role(w) = e /\ Slot(e, Transform(w)) = Slot(e, t) /\ Here(w, j) = Address(e, k, i)
          OBVIOUS
        <5>2. Within(w) = k
          BY <1>1, <3>1, <5>1, PlaceOfTask
        <5>3. PICK u \in 0 .. Batch - 1 : u = Transform(w)
          BY <1>1, <3>1, ReachFacts
        <5>4. ~Stored(e, TaskNumber(e, u, k)) /\ Started(e, TaskNumber(e, u, k))
          BY <1>1, <3>1, <5>1, <5>2, <5>3, CurrentTask
        <5>5. u \in InSlot(e, Slot(e, t)) /\ u \in Nat
          BY <5>1, <5>3, KernelAssumption DEF InSlot
        <5>6. ~(u > t)
          BY <1>5, <5>4, <5>5
        <5>7. ~(u < t)
          BY <1>6, <5>1, <5>3, <5>4, EarlierStored DEF Started
        <5>8. u = t
          BY <1>2, <5>5, <5>6, <5>7
        <5> QED
          BY <1>6, <5>4, <5>8
      <4> QED
        BY <1>1, <1>4, <2>1, <4>1, <4>2, StepTypes
    <3> QED
      BY <3>2, <3>3
  <2> QED
    BY <2>2, <2>3
<1>7. CASE ~Stored(e, T)
  <2>1. PICK X \in Nat : X = T
    BY <1>3
  <2>2. Stored(e, X)'
    BY <2>1 DEF Stored, Owner, TaskNumber
  <2>3. EndsTask(w) /\ e = Role(w) /\ X = task[w]
    BY <1>1, <1>2, <1>7, <2>1, <2>2, StepProgress
  <2>4. Publish(w)
    BY <1>2, <2>3 DEF EndsTask
  <2>5. pc[w] = "publish" /\ boundary' = boundary
    BY <2>4 DEF Publish
  <2>6. t = Transform(w) /\ k = Within(w)
    BY <1>3, <2>1, <2>3 DEF Transform, Within
  <2>7. boundary[<<Role(w), Slot(Role(w), Transform(w)), Here(w, i)>>] = <<launch, Transform(w)>>
    BY <1>2, <2>3, <2>5 DEF StoringTrue, Item
  <2> QED
    BY <2>3, <2>5, <2>6, <2>7 DEF Here
<1> QED
  BY <1>6, <1>7

LEMMA StoringTrueStep ==
    ASSUME RingInv, OperandsFresh, StoringTrue, NEW w \in Worker, Step(w), ~Clear(w)
    PROVE  StoringTrue'
<1>1. TypeInv /\ OwnTask /\ launch' = launch
  BY MemoryFrame DEF RingInv
<1> SUFFICES ASSUME NEW v \in Worker, pc'[v] \in {"store", "publish"}, ~FinalSegment(Role(v)),
                    NEW i \in Item(v), i \notin pending'[v] \/ pc'[v] = "publish"
             PROVE  boundary'[<<Role(v), Slot(Role(v), Transform(v)'), Here(v, i)'>>]
                        = <<launch, Transform(v)'>>
  BY <1>1 DEF StoringTrue, Item, Slot
<1> DEFINE place(x) == <<Role(x), Slot(Role(x), Transform(x)), Here(x, i)>>
\* A store by w leaves what v has stored as it is.
<1>2. ASSUME pc[v] \in {"store", "publish"}, boundary[place(v)] = <<launch, Transform(v)>>
      PROVE  boundary'[place(v)] = <<launch, Transform(v)>>
  <2>1. CASE \A j \in Item(w) : ~StoreElement(w, j)
    BY <1>2, <2>1, MemoryFrame
  <2>2. ASSUME NEW j \in Item(w), StoreElement(w, j)
        PROVE  boundary'[place(v)] = <<launch, Transform(v)>>
    <3>1. /\ pc[w] \in Busy /\ pc[w] \in StartedPhase /\ pc[w] = "store"
          /\ pc[v] \in Busy /\ pc[v] \in StartedPhase
      BY <1>2, <2>2 DEF StoreElement, Busy, StartedPhase, Loaded
    <3>2. CASE FinalSegment(Role(w))
      BY <1>2, <2>2, <3>2 DEF StoreElement
    <3>3. CASE ~FinalSegment(Role(w))
      <4> DEFINE mine == <<Role(w), Slot(Role(w), Transform(w)), Here(w, j)>>
      <4>1. boundary' = [boundary EXCEPT ![mine] = tile[<<w, j>>]]
        BY <2>2, <3>3 DEF StoreElement, Destination
      <4>2. place(v) \in Cell
        BY <1>1, <3>1, ReachFacts DEF Destination
      <4>3. CASE mine = place(v)
        <5>1. Role(w) = Role(v) /\ Slot(Role(w), Transform(w)) = Slot(Role(w), Transform(v))
              /\ Here(w, j) = Here(v, i)
          BY <4>3
        <5>2. Within(v) \in Task(Role(w)) /\ i \in 0 .. SegmentN[Role(w)] - 1
          BY <1>1, <3>1, <5>1, ReachFacts DEF Item
        <5>3. Within(v) = Within(w)
          BY <1>1, <3>1, <5>1, <5>2, PlaceOfTask DEF Here
        <5>4. v = w
          BY <3>1, <3>3, <5>1, <5>3, StoringAlone
        <5>5. tile[<<w, j>>] = <<launch, Transform(w)>>
          BY <2>2, <3>1 DEF OperandsFresh, Loaded
        <5> QED
          BY <1>1, <4>1, <4>2, <4>3, <5>4, <5>5, StepTypes
      <4>4. CASE mine # place(v)
        BY <1>1, <1>2, <4>1, <4>2, <4>4, StepTypes
      <4> QED
        BY <4>3, <4>4
    <3> QED
      BY <3>2, <3>3
  <2> QED
    BY <2>1, <2>2
<1>3. CASE v # w
  <2>1. /\ pc'[v] = pc[v] /\ pending'[v] = pending[v]
        /\ Transform(v)' = Transform(v) /\ Here(v, i)' = Here(v, i)
    BY <1>1, <1>3, OtherWarp
  <2>2. boundary[place(v)] = <<launch, Transform(v)>>
    BY <2>1 DEF StoringTrue
  <2> QED
    BY <1>2, <2>1, <2>2
<1>4. CASE v = w
  <2>1. ~EndsTask(w)
    <3> SUFFICES ASSUME EndsTask(w) PROVE FALSE
      OBVIOUS
    <3>1. NextTask(w)
      BY DEF EndsTask, Publish, FinishStore
    <3> QED
      BY <1>1, <1>4, <3>1, NextTaskType
  <2>2. Transform(w)' = Transform(w) /\ Here(w, i)' = Here(w, i)
    BY <1>1, <2>1, OwnTaskKept
  <2>3. ASSUME NEW j \in Item(w), StoreElement(w, j)
        PROVE  boundary'[place(w)] = <<launch, Transform(w)>>
    <3>1. pc[w] = "store" /\ pc' = pc /\ pending'[w] = pending[w] \ {j}
      BY <1>1, <2>3, StepTypes DEF StoreElement
    <3>2. CASE i = j
      <4>1. tile[<<w, j>>] = <<launch, Transform(w)>>
        BY <2>3, <3>1 DEF OperandsFresh, Loaded
      <4>2. boundary' = [boundary EXCEPT ![place(w)] = tile[<<w, j>>]]
        BY <1>4, <2>3, <3>2 DEF StoreElement, Destination
      <4>3. place(w) \in Cell
        BY <1>1, <1>4, <3>1, ReachFacts DEF Destination, Busy, Loaded
      <4> QED
        BY <1>1, <4>1, <4>2, <4>3, StepTypes
    <3>3. CASE i # j
      <4>1. i \notin pending[w]
        BY <1>4, <3>1, <3>3
      <4>2. boundary[place(w)] = <<launch, Transform(w)>>
        BY <1>4, <3>1, <4>1 DEF StoringTrue
      <4> QED
        BY <1>2, <1>4, <3>1, <4>2
    <3> QED
      BY <3>2, <3>3
  <2>4. ASSUME FinishStore(w) PROVE boundary'[place(w)] = <<launch, Transform(w)>>
    <3>1. pc[w] = "store" /\ pending[w] = {} /\ boundary' = boundary
      BY <2>4 DEF FinishStore
    <3>2. boundary[place(w)] = <<launch, Transform(w)>>
      BY <1>4, <3>1 DEF StoringTrue
    <3> QED
      BY <3>1, <3>2
  <2>5. ~Compute(w)
    BY <1>1, <1>4, StepTypes DEF Compute, Goto, Item
  <2>6. ~AcquireSlot(w) /\ ~AwaitWave(w) /\ ~FinishLoad(w) /\ ~ObserveConsume(w)
        /\ ~SwapConsume(w) /\ ~SignalConsumed(w)
    BY <1>1, <1>4, StepTypes DEF AcquireSlot, AwaitWave, FinishLoad, ObserveConsume,
          SwapConsume, SignalConsumed, Goto
  <2>7. ~RetrySwap(w) /\ \A j : ~AwaitToken(w, j) /\ ~LoadElement(w, j)
    BY <1>1, <1>4, StepTypes DEF RetrySwap, AwaitToken, LoadElement
  <2>8. ~Publish(w)
    BY <2>1 DEF EndsTask
  <2> QED
    BY <1>4, <2>2, <2>3, <2>4, <2>5, <2>6, <2>7, <2>8 DEF Step
<1> QED
  BY <1>3, <1>4

\* A store by the last segment writes the transform's own result.
LEMMA OutputKept ==
    ASSUME RingInv, OperandsFresh, NEW w \in Worker, Step(w), ~Clear(w),
           NEW t \in 0 .. Batch - 1, NEW x \in Element
    PROVE  /\ output[<<t, x>>] = <<launch, t>> => output'[<<t, x>>] = <<launch, t>>
           /\ \A j \in Item(w) :
                (StoreElement(w, j) /\ FinalSegment(Role(w)) /\ t = Transform(w)
                    /\ x = OutputAddress(Here(w, j))) => output'[<<t, x>>] = <<launch, t>>
<1>1. output \in [(0 .. Batch - 1) \X Element -> Token] /\ <<t, x>> \in (0 .. Batch - 1) \X Element
  BY StepTypes DEF RingInv
<1>2. ASSUME NEW j \in Item(w), StoreElement(w, j), FinalSegment(Role(w))
      PROVE  output' = [output EXCEPT ![<<Transform(w), OutputAddress(Here(w, j))>>]
                                        = <<launch, Transform(w)>>]
  <2>1. tile[<<w, j>>] = <<launch, Transform(w)>>
    BY <1>2 DEF OperandsFresh, StoreElement, Loaded
  <2> QED
    BY <1>2, <2>1 DEF StoreElement
<1>3. ASSUME output' = output, output[<<t, x>>] = <<launch, t>>
      PROVE  output'[<<t, x>>] = <<launch, t>>
  BY <1>3
<1>4. ASSUME NEW j \in Item(w), StoreElement(w, j), ~FinalSegment(Role(w)) PROVE output' = output
  BY <1>4 DEF StoreElement
<1>5. ASSUME NEW j \in Item(w), StoreElement(w, j), output[<<t, x>>] = <<launch, t>>
      PROVE  output'[<<t, x>>] = <<launch, t>>
  <2>1. CASE FinalSegment(Role(w))
    <3>1. output' = [output EXCEPT ![<<Transform(w), OutputAddress(Here(w, j))>>]
                                        = <<launch, Transform(w)>>]
      BY <1>2, <1>5, <2>1
    <3>2. CASE <<Transform(w), OutputAddress(Here(w, j))>> = <<t, x>>
      BY <1>1, <3>1, <3>2
    <3>3. CASE <<Transform(w), OutputAddress(Here(w, j))>> # <<t, x>>
      BY <1>1, <1>5, <3>1, <3>3
    <3> QED
      BY <3>2, <3>3
  <2>2. CASE ~FinalSegment(Role(w))
    BY <1>3, <1>4, <1>5, <2>2
  <2> QED
    BY <2>1, <2>2
<1>6. ASSUME NEW j \in Item(w), StoreElement(w, j), FinalSegment(Role(w)), t = Transform(w),
             x = OutputAddress(Here(w, j))
      PROVE  output'[<<t, x>>] = <<launch, t>>
  BY <1>1, <1>2, <1>6
<1>7. CASE \A j \in Item(w) : ~StoreElement(w, j)
  BY <1>3, <1>7, MemoryFrame
<1> QED
  BY <1>5, <1>6, <1>7

LEMMA StoringOutStep ==
    ASSUME RingInv, OperandsFresh, StoringOut, NEW w \in Worker, Step(w), ~Clear(w)
    PROVE  StoringOut'
<1>1. TypeInv /\ OwnTask /\ launch' = launch
  BY MemoryFrame DEF RingInv
<1> SUFFICES ASSUME NEW v \in Worker, pc'[v] = "store", FinalSegment(Role(v)),
                    NEW i \in Item(v), i \notin pending'[v]
             PROVE  output'[<<Transform(v)', OutputAddress(Here(v, i)')>>]
                        = <<launch, Transform(v)'>>
  BY <1>1 DEF StoringOut, Item, OutputAddress
<1>2. ASSUME pc[v] = "store"
      PROVE  /\ Transform(v) \in 0 .. Batch - 1
             /\ OutputAddress(Here(v, i)) \in Element
  BY <1>1, <1>2, ReachFacts, OutputPermutes DEF Busy, Loaded
<1>3. ASSUME pc[v] = "store",
             output[<<Transform(v), OutputAddress(Here(v, i))>>] = <<launch, Transform(v)>>
      PROVE  output'[<<Transform(v), OutputAddress(Here(v, i))>>] = <<launch, Transform(v)>>
  BY <1>2, <1>3, OutputKept
<1>4. CASE v # w
  <2>1. /\ pc'[v] = pc[v] /\ pending'[v] = pending[v]
        /\ Transform(v)' = Transform(v) /\ Here(v, i)' = Here(v, i)
    BY <1>1, <1>4, OtherWarp
  <2>2. output[<<Transform(v), OutputAddress(Here(v, i))>>] = <<launch, Transform(v)>>
    BY <2>1 DEF StoringOut
  <2> QED
    BY <1>3, <2>1, <2>2
<1>5. CASE v = w
  <2>1. ~EndsTask(w)
    <3> SUFFICES ASSUME EndsTask(w) PROVE FALSE
      OBVIOUS
    <3>1. NextTask(w)
      BY DEF EndsTask, Publish, FinishStore
    <3> QED
      BY <1>1, <1>5, <3>1, NextTaskType
  <2>2. Transform(w)' = Transform(w) /\ Here(w, i)' = Here(w, i)
    BY <1>1, <2>1, OwnTaskKept
  <2>3. ASSUME NEW j \in Item(w), StoreElement(w, j)
        PROVE  output'[<<Transform(w), OutputAddress(Here(w, i))>>] = <<launch, Transform(w)>>
    <3>1. pc[w] = "store" /\ pc' = pc /\ pending'[w] = pending[w] \ {j}
      BY <1>1, <2>3, StepTypes DEF StoreElement
    <3>2. CASE i = j
      BY <1>2, <1>5, <2>3, <3>1, <3>2, OutputKept
    <3>3. CASE i # j
      <4>1. i \notin pending[w]
        BY <1>5, <3>1, <3>3
      <4> QED
        BY <1>3, <1>5, <3>1, <4>1 DEF StoringOut
    <3> QED
      BY <3>2, <3>3
  <2>4. ~Compute(w)
    BY <1>1, <1>5, StepTypes DEF Compute, Goto, Item
  <2>5. ~AcquireSlot(w) /\ ~AwaitWave(w) /\ ~FinishLoad(w) /\ ~ObserveConsume(w)
        /\ ~SwapConsume(w) /\ ~SignalConsumed(w)
    BY <1>1, <1>5, StepTypes DEF AcquireSlot, AwaitWave, FinishLoad, ObserveConsume,
          SwapConsume, SignalConsumed, Goto
  <2>6. ~RetrySwap(w) /\ \A j : ~AwaitToken(w, j) /\ ~LoadElement(w, j)
    BY <1>1, <1>5, StepTypes DEF RetrySwap, AwaitToken, LoadElement
  <2>7. ~FinishStore(w) /\ ~Publish(w)
    BY <1>5, <2>1 DEF EndsTask
  <2> QED
    BY <1>5, <2>2, <2>3, <2>4, <2>5, <2>6, <2>7 DEF Step
<1> QED
  BY <1>4, <1>5

LEMMA OutputTrueStep ==
    ASSUME RingInv, OperandsFresh, StoringOut, OutputTrue, NEW w \in Worker, Step(w), ~Clear(w)
    PROVE  OutputTrue'
<1> DEFINE s == Count - 1
<1>1. TypeInv /\ OwnTask /\ launch' = launch /\ s \in Segment
  BY MemoryFrame, GeometryAssumption DEF RingInv, Segment
<1> SUFFICES ASSUME NEW t \in 0 .. Batch - 1, NEW k \in Task(s),
                    Stored(s, TaskNumber(s, t, k))', NEW i \in 0 .. SegmentN[s] - 1
             PROVE  output'[<<t, OutputAddress(Address(s, k, i))>>] = <<launch, t>>
  BY <1>1 DEF OutputTrue
<1> DEFINE T == TaskNumber(s, t, k)
           x == OutputAddress(Address(s, k, i))
<1>2. T \in Nat /\ T \div TaskCount(s) = t /\ T % TaskCount(s) = k
  BY <1>1, NumberFacts
<1>3. x \in Element
  BY <1>1, AddressInRange, OutputPermutes
<1>4. output[<<t, x>>] = <<launch, t>>
  <2>1. CASE Stored(s, T)
    BY <2>1 DEF OutputTrue
  <2>2. CASE ~Stored(s, T)
    <3>1. PICK X \in Nat : X = T
      BY <1>2
    <3>2. Stored(s, X)'
      BY <3>1 DEF Stored, Owner, TaskNumber
    <3>3. EndsTask(w) /\ s = Role(w) /\ X = task[w]
      BY <1>1, <2>2, <3>1, <3>2, StepProgress
    <3>4. FinalSegment(Role(w))
      BY <1>1, <3>3, GeometryAssumption DEF FinalSegment
    <3>5. FinishStore(w)
      BY <1>1, <3>3, <3>4 DEF EndsTask, Publish, TypeInv, PhaseOK
    <3>6. pc[w] = "store" /\ pending[w] = {}
      BY <3>5 DEF FinishStore
    <3>7. t = Transform(w) /\ k = Within(w)
      BY <1>2, <3>1, <3>3 DEF Transform, Within
    <3>8. output[<<Transform(w), OutputAddress(Here(w, i))>>] = <<launch, Transform(w)>>
      BY <3>3, <3>4, <3>6 DEF StoringOut, Item
    <3> QED
      BY <3>3, <3>7, <3>8 DEF Here
  <2> QED
    BY <2>1, <2>2
<1> QED
  BY <1>3, <1>4, OutputKept

----------------------------------------------------------------------------
(* The invariant of the specification.                                     *)

LEMMA UntouchedData ==
    RingInv /\ Untouched /\ DoneTrue => DataInv
<1> SUFFICES ASSUME RingInv, Untouched, DoneTrue PROVE DataInv
  OBVIOUS
<1>1. \A s \in Segment, T \in Nat : ~Stored(s, T) /\ ~Taken(s, T)
  BY UntouchedTask
<1>2. \A s \in Segment : \A t \in 0 .. Batch - 1, k \in Task(s) :
          TaskNumber(s, t, k) \in Nat
  BY NumberFacts
<1>3. ASSUME Running, NEW e \in FullEdge, NEW t \in 0 .. Batch - 1, NEW v \in 0 .. WaveCount(e) - 1
      PROVE  ready[<<e, t, v>>] = Cardinality(FedBy(e, t, v))
  <2>1. e \in Segment /\ <<e, t, v>> \in ReadyWord
    BY FullEdgeFacts, EdgeSizes, WordFacts
  <2>2. FedBy(e, t, v) = {}
    BY <1>1, <1>2, <2>1 DEF FedBy, Feeders
  <2> QED
    BY <1>3, <2>1, <2>2, FS_EmptySet DEF Untouched
<1>4. ASSUME NEW e \in FullEdge, NEW T \in 0 .. TotalTasks(e + 1) - 1 PROVE ~Taken(e + 1, T)
  <2>1. e + 1 \in Segment
    BY FullEdgeFacts, EdgeSizes
  <2>2. T \in Nat
    BY <2>1, SegmentSizes, KernelAssumption DEF TotalTasks
  <2> QED
    BY <1>1, <2>1, <2>2
<1>5. \A w \in Worker : pc[w] \in {"clear", "sync", "acquire", "done"}
  BY DEF Untouched
<1>6. WaveTrue
  BY <1>3 DEF WaveTrue
<1>7. WaveFed /\ UnreadTile /\ OperandsFresh /\ StoringTrue /\ StoringOut
  BY <1>5 DEF WaveFed, UnreadTile, OperandsFresh, StoringTrue, StoringOut, Loaded
<1>8. FullTakenFed
  BY <1>4 DEF FullTakenFed
<1>9. CellsTrue
  BY <1>1, <1>2, EdgeSizes DEF CellsTrue
<1>10. OutputTrue
  <2>1. Count - 1 \in Segment
    BY GeometryAssumption DEF Segment
  <2> QED
    BY <1>1, <1>2, <2>1 DEF OutputTrue
<1> QED
  BY <1>6, <1>7, <1>8, <1>9, <1>10 DEF DataInv

LEMMA DataInit == Init => DataInv
<1> SUFFICES ASSUME Init PROVE DataInv
  OBVIOUS
<1>1. Untouched
  BY SomeWorker DEF Init, Untouched, Running
<1>2. DoneTrue
  BY DEF Init, DoneTrue
<1> QED
  BY <1>1, <1>2, RingInit, UntouchedData

LEMMA DoneOutsideLoop ==
    ASSUME TypeInv, BeforeBarrier, NEW w \in Worker, Clear(w) \/ GridSync \/ Relaunch
    PROVE  DoneTrue'
<1> SUFFICES ASSUME NEW v \in Worker, pc'[v] = "done"
             PROVE  task'[v] >= TotalTasks(Role(v))
  BY DEF DoneTrue, TotalTasks
<1>1. CASE Clear(w)
  BY <1>1, StepTypes DEF Clear, Goto, BeforeBarrier
<1>2. CASE GridSync
  <2>1. pc'[v] = PhaseOf(Role(v), task[v]) /\ task' = task /\ task[v] \in Nat
    BY <1>2, StepTypes DEF GridSync
  <2>2. ~(task[v] < TotalTasks(Role(v)))
    BY <2>1 DEF PhaseOf
  <2>3. TotalTasks(Role(v)) \in Nat
    BY WorkerFacts, KernelAssumption, SMT DEF TotalTasks
  <2> QED
    BY <2>1, <2>2, <2>3
<1>3. CASE Relaunch
  BY <1>3 DEF Relaunch
<1> QED
  BY <1>1, <1>2, <1>3

LEMMA DataNext == DataInv /\ [Next]_vars => DataInv'
<1>1. RingInv' /\ Untouched' /\ DoneTrue' => DataInv'
  BY UntouchedData, PTL
<1> SUFFICES ASSUME DataInv, [Next]_vars PROVE DataInv'
  OBVIOUS
<1>2. RingInv /\ RingInv' /\ TypeInv /\ BeforeBarrier
  BY RingNext DEF DataInv, RingInv
<1>3. ASSUME NEW w \in Worker, Step(w), ~Clear(w) PROVE DataInv'
  <2> USE DEF DataInv
  <2>1. WaveTrue' /\ WaveFed' /\ FullTakenFed'
    BY <1>3, WaveTrueStep, WaveFedStep, FullTakenFedStep
  <2>2. UnreadTile' /\ DoneTrue'
    BY <1>2, <1>3, UnreadTileStep, DoneTrueStep
  <2>3. OperandsFresh' /\ CellsTrue' /\ StoringTrue'
    BY <1>3, OperandsFreshStep, CellsTrueStep, StoringTrueStep
  <2>4. StoringOut' /\ OutputTrue'
    BY <1>3, StoringOutStep, OutputTrueStep
  <2> QED
    BY <1>2, <2>1, <2>2, <2>3, <2>4
<1>4. ASSUME NEW w \in Worker, Clear(w) \/ GridSync \/ Relaunch PROVE DataInv'
  BY <1>1, <1>2, <1>4, OutsideLoop, DoneOutsideLoop
<1>5. CASE UNCHANGED vars
  <2> USE <1>5 DEF vars, DataInv
  <2>1. WaveTrue'
    <3>1. \A e, t, v : FedBy(e, t, v)' = FedBy(e, t, v)
      BY DEF FedBy, Feeders, Stored, Owner, TaskNumber
    <3>2. (Running' <=> Running) /\ ready' = ready /\ WaveTrue
      BY DEF Running
    <3> QED
      BY ONLY <3>1, <3>2 DEF WaveTrue
  <2>2. WaveFed'
    BY DEF WaveFed, Fed, ItemFed, Stored, Owner, TaskNumber
  <2>3. FullTakenFed'
    BY DEF FullTakenFed, Fed, ItemFed, Taken, Stored, Owner, TaskNumber
  <2>4. UnreadTile' /\ DoneTrue'
    BY DEF UnreadTile, DoneTrue
  <2>5. OperandsFresh'
    BY DEF OperandsFresh, Transform
  <2>6. CellsTrue'
    <3>1. \A s, T : (Stored(s, T)' <=> Stored(s, T)) /\ (Started(s, T)' <=> Started(s, T))
      BY DEF Stored, Started, Owner
    <3>2. boundary' = boundary /\ launch' = launch /\ CellsTrue
      BY DEF DataInv
    <3> QED
      BY ONLY <3>1, <3>2 DEF CellsTrue, TaskNumber, InSlot, Slot
  <2>7. StoringTrue'
    BY DEF StoringTrue, Transform, Within, Here
  <2>8. StoringOut'
    BY DEF StoringOut, Transform, Within, Here
  <2>9. OutputTrue'
    BY DEF OutputTrue, Stored, Owner, TaskNumber
  <2> QED
    BY <1>2, <2>1, <2>2, <2>3, <2>4, <2>5, <2>6, <2>7, <2>8, <2>9
<1> QED
  BY <1>3, <1>4, <1>5, SomeWorker DEF Next, Finished

LEMMA DataAlways == Spec => []DataInv
  BY DataInit, DataNext, PTL DEF Spec

(* No lane of hierarchical_streaming_kernel ever computes with an operand  *)
(* of another transform or of an earlier launch, on ring and full-scratch  *)
(* edges alike: what a warp has in its tile is what the segment before     *)
(* stored for this transform in this launch.                               *)
THEOREM OperandsCorrect == Spec => []OperandsFresh
<1>1. DataInv => OperandsFresh
  BY DEF DataInv
<1> QED
  BY <1>1, DataAlways, PTL

(* The atomicAdd counter of a full-scratch wave is, in every state of the  *)
(* task loop, the number of the wave's segment_n producer tasks that have  *)
(* stored: polling it for segment_n waits for the last operand.            *)
THEOREM WaveCounterCorrect == Spec => []WaveCounterExact
<1>1. DataInv => WaveCounterExact
  <2> SUFFICES ASSUME DataInv, Running, NEW word \in ReadyWord, ~Ring(word[1])
               PROVE  LET s == word[1]
                          feeders == {k \in Task(s) : ProducerWave(s, k) = word[3]}
                      IN  /\ Cardinality(feeders) = SegmentN[s + 1]
                          /\ ready[word] = Cardinality({k \in feeders :
                                               Stored(s, TaskNumber(s, word[2], k))})
    BY DEF WaveCounterExact
  <2>1. PICK e \in Edge : word \in {e} \X (0 .. Slots[e] - 1) \X (0 .. ReadyTokens(e) - 1)
    BY DEF ReadyWord
  <2>2. PICK q \in 0 .. Slots[e] - 1, v \in 0 .. ReadyTokens(e) - 1 : word = <<e, q, v>>
    BY <2>1
  <2>3. e \in FullEdge
    BY <2>2 DEF FullEdge
  <2>4. q \in 0 .. Batch - 1 /\ v \in 0 .. WaveCount(e) - 1
    BY <2>2, <2>3, FullEdgeFacts
  <2>5. Cardinality(Feeders(e, v)) = SegmentN[e + 1]
    BY <2>1, <2>4, FeederCount
  <2>6. ready[<<e, q, v>>] = Cardinality(FedBy(e, q, v))
    BY <2>3, <2>4 DEF DataInv, WaveTrue
  <2> QED
    BY <2>2, <2>5, <2>6 DEF FedBy, Feeders
<1> QED
  BY <1>1, DataAlways, PTL

(* When every warp has left its loop, every element of every transform of  *)
(* the caller's output has been written, in this launch and from operands  *)
(* of that transform only: no task was skipped and none overtaken, and     *)
(* the digit reversal of the last stores leaves no element out.            *)
THEOREM OutputCorrect == Spec => []OutputComplete
<1>1. DataInv => OutputComplete
  <2> SUFFICES ASSUME DataInv, AllDone, NEW t \in 0 .. Batch - 1, NEW y \in Element
               PROVE  output[<<t, y>>] = <<launch, t>>
    BY DEF OutputComplete
  <2> DEFINE s == Count - 1
  <2>1. s \in Segment
    BY GeometryAssumption DEF Segment
  <2>2. PICK x \in Element : OutputAddress(x) = y
    BY OutputPermutes
  <2> DEFINE k == ProducerWithin(s, x)
  <2>3. k \in Task(s) /\ \E i \in 0 .. SegmentN[s] - 1 : Address(s, k, i) = x
    BY <2>1, EveryElementAddressed
  <2> HIDE DEF k
  <2>4. TaskNumber(s, t, k) \in Nat /\ TaskNumber(s, t, k) < TotalTasks(s)
    BY <2>1, <2>3, NumberFacts
  <2>5. Stored(s, TaskNumber(s, t, k))
    <3>1. PICK T \in Nat : T = TaskNumber(s, t, k)
      BY <2>4
    <3>2. Owner(s, T) \in Worker /\ Role(Owner(s, T)) = s
      BY <2>1, OwnerFacts
    <3>3. pc[Owner(s, T)] = "done"
      BY <3>2 DEF AllDone
    <3>4. task[Owner(s, T)] >= TotalTasks(s) /\ task[Owner(s, T)] \in Nat
      BY <3>2, <3>3, StepTypes DEF DataInv, RingInv, DoneTrue
    <3>5. TotalTasks(s) \in Nat
      BY <2>1, SegmentSizes, KernelAssumption, SMT DEF TotalTasks
    <3>6. T < task[Owner(s, T)]
      BY <2>4, <3>1, <3>4, <3>5
    <3> QED
      BY <3>1, <3>6 DEF Stored
  <2> QED
    BY <2>2, <2>3, <2>5 DEF DataInv, OutputTrue
<1> QED
  BY <1>1, DataAlways, PTL

----------------------------------------------------------------------------
(* The kernel implements the dataflow graph.                               *)

TakenTasks == [s \in Segment |-> TasksWhere(s, Taken)]
StoredTasks == [s \in Segment |-> TasksWhere(s, Stored)]

LEMMA TakenMember ==
    ASSUME NEW s \in Segment, NEW t \in 0 .. Batch - 1, NEW k \in Task(s)
    PROVE  /\ <<t, k>> \in TakenTasks[s] <=> Taken(s, TaskNumber(s, t, k))
           /\ <<t, k>> \in StoredTasks[s] <=> Stored(s, TaskNumber(s, t, k))
  BY DEF TakenTasks, StoredTasks, TasksWhere

LEMMA TakenSubset ==
    ASSUME NEW s \in Segment
    PROVE  /\ TakenTasks[s] \subseteq (0 .. Batch - 1) \X Task(s)
           /\ StoredTasks[s] \subseteq (0 .. Batch - 1) \X Task(s)
  BY DEF TakenTasks, StoredTasks, TasksWhere

\* The abstract specification speaks of the same geometry.
LEMMA SameGeometry ==
    /\ Dataflow!Segment = Segment /\ Dataflow!Edge = Edge
    /\ \A s : Dataflow!Task(s) = Task(s)
    /\ \A s, k, i : Dataflow!Address(s, k, i) = Address(s, k, i)
    /\ \A s, x : Dataflow!ProducerWithin(s, x) = ProducerWithin(s, x)
    /\ Dataflow!Nothing = [s \in Segment |-> {}]
    /\ \A s : Dataflow!AllTasks(s) = (0 .. Batch - 1) \X Task(s)
    /\ Dataflow!dvars = <<launch, TakenTasks, StoredTasks>>
  BY DEF Dataflow!Segment, Dataflow!Edge, Dataflow!Task, Dataflow!TaskCount, Dataflow!Address,
         Dataflow!ProducerWithin, Dataflow!Nothing, Dataflow!AllTasks, Dataflow!dvars,
         Segment, Edge, Task, TaskCount, Address, ProducerWithin, TakenTasks, StoredTasks

\* A number T that a step of a warp newly takes or stores is its own task.
LEMMA NumberIsTask ==
    ASSUME TypeInv, OwnTask, NEW w \in Worker, NEW s \in Segment, s = Role(w),
           NEW t \in 0 .. Batch - 1, NEW k \in Task(s)
    PROVE  TaskNumber(s, t, k) = task[w] <=> <<t, k>> = <<Transform(w), Within(w)>>
<1>1. TaskNumber(Role(w), Transform(w), Within(w)) = task[w]
  BY TaskOfWarp
<1>2. /\ TaskNumber(s, t, k) \div TaskCount(s) = t
      /\ (TaskNumber(s, t, k) % TaskCount(s)) = k
  BY NumberFacts
<1> QED
  BY <1>1, <1>2 DEF Transform, Within

\* What a step of a warp in its task loop does to the two sets, task by task.
LEMMA SetsStep ==
    ASSUME RingInv, NEW w \in Worker, Step(w), ~Clear(w),
           NEW s \in Segment, NEW t \in 0 .. Batch - 1, NEW k \in Task(s)
    PROVE  LET mine == s = Role(w) /\ <<t, k>> = <<Transform(w), Within(w)>>
           IN  /\ <<t, k>> \in TakenTasks[s]' <=>
                    <<t, k>> \in TakenTasks[s] \/ (FinishLoad(w) /\ mine)
               /\ <<t, k>> \in StoredTasks[s]' <=>
                    <<t, k>> \in StoredTasks[s] \/ (EndsTask(w) /\ mine)
<1> USE DEF RingInv
<1> DEFINE mine == s = Role(w) /\ <<t, k>> = <<Transform(w), Within(w)>>
<1>1. PICK T \in Nat : T = TaskNumber(s, t, k)
  BY NumberFacts
<1>2. /\ <<t, k>> \in TakenTasks[s] <=> Taken(s, T)
      /\ <<t, k>> \in StoredTasks[s] <=> Stored(s, T)
  BY <1>1, TakenMember
<1>3. /\ <<t, k>> \in TakenTasks[s]' <=> Taken(s, T)'
      /\ <<t, k>> \in StoredTasks[s]' <=> Stored(s, T)'
  BY <1>1 DEF TakenTasks, StoredTasks, TasksWhere, Taken, Stored, Owner, TaskNumber
<1>4. mine <=> s = Role(w) /\ T = task[w]
  BY <1>1, NumberIsTask
<1> HIDE DEF mine
<1>5. ASSUME FinishLoad(w), mine PROVE Taken(s, T)'
  <2>1. pc'[w] \in Loaded /\ task' = task
    BY <1>5 DEF FinishLoad, Goto, Loaded, TypeInv, TypeOK
  <2>2. Owner(s, T) = w
    BY <1>4, <1>5, TaskOfWarp
  <2> QED
    BY <1>4, <1>5, <2>1, <2>2 DEF Taken, Owner
<1>6. ASSUME EndsTask(w), mine PROVE Stored(s, T)'
  <2>1. NextTask(w)
    BY <1>6 DEF EndsTask, Publish, FinishStore
  <2> QED
    BY <1>4, <1>6, <2>1, EndsTaskStores
<1>7. /\ Stored(s, T) => Stored(s, T)'
      /\ Taken(s, T) => Taken(s, T)'
      /\ Stored(s, T)' => Stored(s, T) \/ (EndsTask(w) /\ mine)
      /\ Taken(s, T)' => Taken(s, T) \/ (FinishLoad(w) /\ mine)
  BY <1>4, StepProgress
<1> QED
  BY <1>2, <1>3, <1>5, <1>6, <1>7 DEF mine


\* The tasks that a step adds to a segment's set make the next set.
LEMMA SetsAfter ==
    ASSUME RingInv, NEW w \in Worker, Step(w), ~Clear(w)
    PROVE  /\ FinishLoad(w) =>
                TakenTasks' = [TakenTasks EXCEPT
                                ![Role(w)] = @ \cup {<<Transform(w), Within(w)>>}]
           /\ ~FinishLoad(w) => TakenTasks' = TakenTasks
           /\ EndsTask(w) =>
                StoredTasks' = [StoredTasks EXCEPT
                                ![Role(w)] = @ \cup {<<Transform(w), Within(w)>>}]
           /\ ~EndsTask(w) => StoredTasks' = StoredTasks
<1> DEFINE c == <<Transform(w), Within(w)>>
<1>1. /\ DOMAIN TakenTasks = Segment /\ DOMAIN TakenTasks' = Segment
      /\ DOMAIN StoredTasks = Segment /\ DOMAIN StoredTasks' = Segment
      /\ TakenTasks = [s \in Segment |-> TakenTasks[s]]
      /\ TakenTasks' = [s \in Segment |-> TakenTasks'[s]]
      /\ StoredTasks = [s \in Segment |-> StoredTasks[s]]
      /\ StoredTasks' = [s \in Segment |-> StoredTasks'[s]]
  BY DEF TakenTasks, StoredTasks
<1>2. \A s \in Segment :
        /\ TakenTasks[s] \subseteq (0 .. Batch - 1) \X Task(s)
        /\ StoredTasks[s] \subseteq (0 .. Batch - 1) \X Task(s)
        /\ TakenTasks'[s] \subseteq (0 .. Batch - 1) \X Task(s)
        /\ StoredTasks'[s] \subseteq (0 .. Batch - 1) \X Task(s)
  BY DEF TakenTasks, StoredTasks, TasksWhere
<1>3. pc[w] \in Busy => c \in (0 .. Batch - 1) \X Task(Role(w))
  BY ReachFacts DEF RingInv
<1>4. (FinishLoad(w) \/ EndsTask(w)) => pc[w] \in Busy
  BY DEF FinishLoad, EndsTask, Publish, FinishStore, Busy, Loaded
<1>5. \A s \in Segment : \A t \in 0 .. Batch - 1, k \in Task(s) :
        /\ <<t, k>> \in TakenTasks'[s] <=>
             <<t, k>> \in TakenTasks[s] \/ (FinishLoad(w) /\ s = Role(w) /\ <<t, k>> = c)
        /\ <<t, k>> \in StoredTasks'[s] <=>
             <<t, k>> \in StoredTasks[s] \/ (EndsTask(w) /\ s = Role(w) /\ <<t, k>> = c)
  BY SetsStep
<1> HIDE DEF c
<1>6. ASSUME NEW s \in Segment
      PROVE  /\ TakenTasks'[s] = IF FinishLoad(w) /\ s = Role(w)
                                 THEN TakenTasks[s] \cup {c} ELSE TakenTasks[s]
             /\ StoredTasks'[s] = IF EndsTask(w) /\ s = Role(w)
                                  THEN StoredTasks[s] \cup {c} ELSE StoredTasks[s]
  <2> DEFINE C == (0 .. Batch - 1) \X Task(s)
  <2>1. \A d \in C : d = <<d[1], d[2]>> /\ d[1] \in 0 .. Batch - 1 /\ d[2] \in Task(s)
    OBVIOUS
  <2>2. \A d \in C :
          /\ d \in TakenTasks'[s] <=>
                d \in TakenTasks[s] \/ (FinishLoad(w) /\ s = Role(w) /\ d = c)
          /\ d \in StoredTasks'[s] <=>
                d \in StoredTasks[s] \/ (EndsTask(w) /\ s = Role(w) /\ d = c)
    BY <1>5, <2>1
  <2>3. (FinishLoad(w) \/ EndsTask(w)) /\ s = Role(w) => c \in C
    BY <1>3, <1>4
  <2>4. /\ TakenTasks[s] \subseteq C /\ StoredTasks[s] \subseteq C
        /\ TakenTasks'[s] \subseteq C /\ StoredTasks'[s] \subseteq C
    BY <1>2
  <2> HIDE DEF C
  <2> QED
    BY <2>2, <2>3, <2>4
<1> QED
  BY <1>1, <1>6 DEF c

\* A producer of a warp's task that has stored, as a task of the graph.
LEMMA FedIsSubset ==
    ASSUME RingInv, NEW w \in Worker, pc[w] \in Busy, Role(w) # 0, Fed(Role(w), task[w])
    PROVE  Dataflow!Producers(Role(w), <<Transform(w), Within(w)>>) \subseteq StoredTasks[Role(w) - 1]
<1> USE DEF RingInv
<1>1. PICK s \in Segment : s = Role(w)
  BY WorkerFacts
<1>2. task[w] \in Nat /\ task[w] < TotalTasks(s)
  BY <1>1 DEF TypeInv, TypeOK, PhaseOK
<1>3. ASSUME NEW i \in 0 .. SegmentN[s] - 1
      PROVE  <<Transform(w), ProducerWithin(s - 1, Address(s, Within(w), i))>> \in StoredTasks[s - 1]
  <2>1. /\ s - 1 \in Segment /\ Transform(w) \in 0 .. Batch - 1
        /\ ProducerWithin(s - 1, Address(s, Within(w), i)) \in Task(s - 1)
    BY <1>1, <1>2, <1>3, ItemProducer DEF Transform, Within
  <2>2. Stored(s - 1, TaskNumber(s - 1, Transform(w),
                        ProducerWithin(s - 1, Address(s, Within(w), i))))
    BY <1>1, <1>3 DEF Fed, ItemFed, Transform, Within
  <2> QED
    BY <2>1, <2>2, TakenMember
<1>4. Dataflow!Producers(s, <<Transform(w), Within(w)>>) =
        { <<Transform(w), ProducerWithin(s - 1, Address(s, Within(w), i))>> : i \in 0 .. SegmentN[s] - 1 }
  BY SameGeometry DEF Dataflow!Producers
<1> QED
  BY <1>1, <1>3, <1>4

\* A warp that ends its load has its operands from tasks that have stored.
LEMMA LoadIsTake ==
    ASSUME DataInv, NEW w \in Worker, Step(w), ~Clear(w), FinishLoad(w)
    PROVE  Dataflow!Next
<1> USE DEF DataInv, RingInv
<1>1. PICK s \in Segment : s = Role(w)
  BY WorkerFacts
<1>2. PICK c \in (0 .. Batch - 1) \X Task(s) : c = <<Transform(w), Within(w)>>
  BY <1>1, ReachFacts DEF FinishLoad, Busy
<1>3. TakenTasks' = [TakenTasks EXCEPT ![s] = @ \cup {c}]
  BY <1>1, <1>2, SetsAfter
<1>4. StoredTasks' = StoredTasks
  BY SetsAfter DEF FinishLoad, EndsTask, Publish, FinishStore
<1>5. c \notin TakenTasks[s]
  <2>1. ~Taken(s, task[w])
    BY <1>1, TaskOfWarp DEF Taken, Stored, FinishLoad, Loaded
  <2> QED
    BY <1>1, <1>2, <2>1, TaskOfWarp, TakenMember
<1>6. s # 0 => Dataflow!Producers(s, c) \subseteq StoredTasks[s - 1]
  <2> SUFFICES ASSUME s # 0 PROVE Fed(s, task[w])
    BY <1>1, <1>2, FedIsSubset DEF FinishLoad, Busy
  <2>1. CASE RingSource(s)
    BY <1>1, <2>1 DEF LoadFed, Fed, FinishLoad, Item
  <2>2. CASE ~RingSource(s)
    BY <1>1, <2>2 DEF WaveFed, FinishLoad, RingSource, AggregatedSource
  <2> QED
    BY <2>1, <2>2
<1>7. launch' = launch
  BY DEF FinishLoad
<1>8. Dataflow!Take(s, c)
  BY <1>3, <1>4, <1>6, <1>7 DEF Dataflow!Take, TakenTasks, StoredTasks
<1>9. c \in Dataflow!AllTasks(s) \ TakenTasks[s] /\ s \in Dataflow!Segment
  BY <1>5, SameGeometry
<1> QED
  BY <1>8, <1>9 DEF Dataflow!Next, Dataflow!Work, TakenTasks

\* A warp that ends its task stored into a slot whose readers have all read.
LEMMA EndIsStore ==
    ASSUME DataInv, NEW w \in Worker, Step(w), ~Clear(w), EndsTask(w)
    PROVE  Dataflow!Next
<1> USE DEF DataInv, RingInv
<1>1. PICK s \in Segment : s = Role(w)
  BY WorkerFacts
<1>2. pc[w] \in Busy /\ pc[w] \in Loaded /\ pc[w] \in StartedPhase
  BY DEF EndsTask, Publish, FinishStore, Busy, Loaded, StartedPhase
<1>3. PICK t \in 0 .. Batch - 1 : t = Transform(w)
  BY <1>2, ReachFacts
<1>4. PICK k \in Task(s) : k = Within(w)
  BY <1>1, <1>2, ReachFacts
<1> DEFINE c == <<t, k>>
<1>5. StoredTasks' = [StoredTasks EXCEPT ![s] = @ \cup {c}]
  BY <1>1, <1>3, <1>4, SetsAfter
<1>6. TakenTasks' = TakenTasks
  BY SetsAfter DEF FinishLoad, EndsTask, Publish, FinishStore
<1>7. c \in TakenTasks[s] \ StoredTasks[s]
  <2>1. Taken(s, task[w]) /\ ~Stored(s, task[w])
    BY <1>1, <1>2, TaskOfWarp DEF Taken, Stored
  <2> QED
    BY <1>1, <1>3, <1>4, <2>1, TaskOfWarp, TakenMember
<1>8. s \in Edge => Dataflow!PreviousReaders(s, c) \subseteq TakenTasks[s + 1]
  <2> SUFFICES ASSUME s \in Edge, t >= Slots[s], NEW j \in Task(s + 1)
               PROVE  <<t - Slots[s], j>> \in TakenTasks[s + 1]
    BY SameGeometry DEF Dataflow!PreviousReaders
  <2>1. s \in RingEdge /\ s + 1 \in Segment /\ Slots[s] \in Nat \ {0}
    BY KernelAssumption, EdgeSizes DEF Ring, RingEdge
  <2>2. PICK u \in 0 .. Batch - 1 : u = t - Slots[s] /\ u < t /\ u \in Nat /\ t = u + Slots[s]
    BY <2>1, KernelAssumption
  <2>3. Slot(s, u) = Slot(s, t)
    BY <2>1, <2>2, SlotFacts, ResidueStep
  <2>4. Started(s, TaskNumber(s, t, k))
    BY <1>1, <1>2, <1>3, <1>4, CurrentTask
  <2>5. ReleasedOf(s, u) = Task(s + 1)
    BY <2>1, <2>2, <2>3, <2>4 DEF HandedOver
  <2>6. Taken(s + 1, TaskNumber(s + 1, u, j))
    BY <2>5 DEF ReleasedOf, Released, Taken, Counted, Loaded
  <2> QED
    BY <2>1, <2>2, <2>6, TakenMember
<1>9. launch' = launch
  BY MemoryFrame
<1> HIDE DEF c
<1>10. Dataflow!Store(s, c)
  BY <1>5, <1>6, <1>8, <1>9, SameGeometry DEF Dataflow!Store, TakenTasks, StoredTasks
<1> QED
  BY <1>7, <1>10, SameGeometry DEF Dataflow!Next, Dataflow!Work, TakenTasks, StoredTasks

\* Before the loop, and at its start, no task has been taken or stored.
LEMMA UntouchedSets ==
    Untouched => TakenTasks = [s \in Segment |-> {}] /\ StoredTasks = [s \in Segment |-> {}]
<1> SUFFICES ASSUME Untouched
             PROVE  \A s \in Segment : TakenTasks[s] = {} /\ StoredTasks[s] = {}
  BY DEF TakenTasks, StoredTasks
<1>1. ASSUME NEW s \in Segment, NEW c \in (0 .. Batch - 1) \X Task(s)
      PROVE  ~Taken(s, TaskNumber(s, c[1], c[2])) /\ ~Stored(s, TaskNumber(s, c[1], c[2]))
  BY <1>1, NumberFacts, UntouchedTask
<1> QED
  BY <1>1 DEF TakenTasks, StoredTasks, TasksWhere

\* At the end of a launch every task has been stored.
LEMMA DoneStored ==
    ASSUME DataInv, AllDone
    PROVE  \A s \in Segment : StoredTasks[s] = (0 .. Batch - 1) \X Task(s)
<1> USE DEF DataInv, RingInv
<1>1. ASSUME NEW s \in Segment, NEW t \in 0 .. Batch - 1, NEW k \in Task(s)
      PROVE  Stored(s, TaskNumber(s, t, k))
  <2>1. PICK T \in Nat : T = TaskNumber(s, t, k) /\ T < TotalTasks(s)
    BY <1>1, NumberFacts
  <2>2. Owner(s, T) \in Worker /\ Role(Owner(s, T)) = s
    BY OwnerFacts
  <2>3. task[Owner(s, T)] >= TotalTasks(s) /\ task[Owner(s, T)] \in Nat
    BY <2>2, StepTypes DEF AllDone, DoneTrue
  <2>4. TotalTasks(s) \in Nat
    BY SegmentSizes, KernelAssumption, SMT DEF TotalTasks
  <2> QED
    BY <2>1, <2>3, <2>4 DEF Stored
<1> QED
  BY <1>1 DEF StoredTasks, TasksWhere

LEMMA DataflowInit == Init => Dataflow!Init
<1> SUFFICES ASSUME Init PROVE Dataflow!Init
  OBVIOUS
<1>1. Untouched
  BY SomeWorker DEF Init, Untouched, Running
<1> QED
  BY <1>1, UntouchedSets, SameGeometry DEF Dataflow!Init, Init, TakenTasks, StoredTasks

LEMMA DataflowNext == DataInv /\ [Next]_vars => [Dataflow!Next]_(Dataflow!dvars)
<1>1. Untouched' => /\ TakenTasks' = [s \in Segment |-> {}]
                    /\ StoredTasks' = [s \in Segment |-> {}]
  <2>1. (Untouched => TakenTasks = [s \in Segment |-> {}] /\ StoredTasks = [s \in Segment |-> {}])'
    BY UntouchedSets, PTL
  <2> QED
    BY <2>1
<1> SUFFICES ASSUME DataInv, [Next]_vars
             PROVE  Dataflow!Next \/ UNCHANGED <<launch, TakenTasks, StoredTasks>>
  BY DEF Dataflow!dvars, TakenTasks, StoredTasks
<1>2. ASSUME NEW w \in Worker, Step(w), ~Clear(w)
      PROVE  Dataflow!Next \/ UNCHANGED <<launch, TakenTasks, StoredTasks>>
  <2>1. RingInv
    BY DEF DataInv
  <2> QED
    BY <1>2, <2>1, LoadIsTake, EndIsStore, SetsAfter, MemoryFrame
<1>3. ASSUME NEW w \in Worker, Clear(w) \/ GridSync
      PROVE  UNCHANGED <<launch, TakenTasks, StoredTasks>>
  <2>1. Untouched'
    BY <1>3, OutsideLoop DEF DataInv
  <2>2. pc[w] \in {"clear", "sync"}
    BY <1>3 DEF Clear, GridSync
  <2>3. Untouched
    BY <2>2 DEF DataInv, RingInv, BeforeBarrier, Untouched, Running
  <2>4. launch' = launch
    BY <1>3 DEF Clear, GridSync
  <2>5. TakenTasks' = TakenTasks /\ StoredTasks' = StoredTasks
    <3>1. TakenTasks = [s \in Segment |-> {}] /\ StoredTasks = [s \in Segment |-> {}]
      BY <2>3, UntouchedSets
    <3> QED
      BY <1>1, <2>1, <3>1
  <2> QED
    BY <2>4, <2>5
<1>4. CASE Relaunch
  <2>1. \A s \in Segment : StoredTasks[s] = (0 .. Batch - 1) \X Task(s)
    BY <1>4, DoneStored DEF Relaunch
  <2>2. Untouched'
    BY <1>4, OutsideLoop, SomeWorker DEF DataInv
  <2> QED
    BY <1>4, <1>1, <2>1, <2>2, SameGeometry
       DEF Relaunch, Dataflow!Next, Dataflow!NextLaunch, Dataflow!AllStored, TakenTasks, StoredTasks
<1>5. CASE UNCHANGED vars
  BY <1>5 DEF vars, TakenTasks, StoredTasks, TasksWhere, Taken, Stored, Owner, TaskNumber
<1>6. \/ \E w \in Worker : Step(w)
      \/ \E w \in Worker : Clear(w) \/ GridSync
      \/ Relaunch
      \/ UNCHANGED vars
  BY SomeWorker DEF Next, Finished
<1> HIDE DEF vars
<1> QED
  BY ONLY <1>2, <1>3, <1>4, <1>5, <1>6

(* Seen through the tasks that have taken their operands and those that    *)
(* have stored, the kernel is the dataflow graph of StreamingDataflow for  *)
(* every geometry, batch, number of slots and of workers: tokens, wave     *)
(* counters and epochs hold a task back exactly as that graph demands.     *)
THEOREM DataflowImplemented == Spec => ImplementsDataflow
  BY DataAlways, DataflowInit, DataflowNext, PTL DEF Spec, ImplementsDataflow, Dataflow!Spec
=============================================================================
