------------------------- MODULE FactorGeometryProofs -------------------------
(***************************************************************************)
(* The contract FactorPipeline has with factor_tile_range and the kernel's *)
(* addresses (src/factor_pipeline.cuh:7-10), for every factorisation,      *)
(* number of columns, slices and batch that normalize_factor_mapping       *)
(* accepts: slices of an edge are disjoint, a slice of a factor reads what *)
(* the same slice of the one before has written, and the last factor finds *)
(* everything in some slice of its predecessor and writes everything.      *)
(*                                                                         *)
(* A launch of group g works on runs of Run(g) transforms: those of slice  *)
(* s are the t with (t \div Run(g)) % Slices = s.  The unprocessed last     *)
(* digit decides: of an address a that is (a \div P(g + 1)) % F(Last), and  *)
(* Slice(g, a) its upper part.                                             *)
(***************************************************************************)
EXTENDS FactorGeometry, TLAPS, WellFoundedInduction

----------------------------------------------------------------------------
(* Arithmetic.                                                             *)

\* Quotient and remainder.
LEMMA DivMod ==
    ASSUME NEW a \in Nat, NEW m \in Nat \ {0}
    PROVE  /\ a \div m \in Nat
           /\ a % m \in 0 .. m - 1
           /\ a = (a \div m) * m + (a % m)
  BY SMT

\* The next multiple.
LEMMA ProductStep ==
    ASSUME NEW x \in Nat, NEW y \in Nat, NEW m \in Nat \ {0}, x < y
    PROVE  x * m + m <= y * m
  BY SMT

\* A quotient and a remainder determine, and are determined by, the number.
LEMMA DivModUnique ==
    ASSUME NEW m \in Nat \ {0}, NEW q \in Nat, NEW r \in 0 .. m - 1
    PROVE  /\ (q * m + r) \div m = q
           /\ (q * m + r) % m = r
<1> DEFINE a == q * m + r
           x == a \div m
           y == a % m
<1>1. a \in Nat
  BY SMT
<1>2. x \in Nat /\ y \in 0 .. m - 1 /\ a = x * m + y
  BY <1>1, DivMod
<1>3. q * m + r = x * m + y
  BY <1>2
<1>4. x = q /\ y = r
  <2> HIDE DEF x, y, a
  <2>1. CASE x < q
    <3>1. x * m + m <= q * m
      BY <2>1, <1>2, ProductStep
    <3> QED
      BY <3>1, <1>2, <1>3, SMT
  <2>2. CASE q < x
    <3>1. q * m + m <= x * m
      BY <2>2, <1>2, ProductStep
    <3> QED
      BY <3>1, <1>2, <1>3, SMT
  <2>3. CASE x = q
    BY <2>3, <1>2, <1>3, SMT
  <2> QED
    BY <2>1, <2>2, <2>3, <1>2
<1> QED
  BY <1>4

\* A number is divided exactly by its factors.
LEMMA ExactQuotient ==
    ASSUME NEW m \in Nat \ {0}, NEW q \in Nat
    PROVE  (q * m) \div m = q /\ (m * q) \div m = q
<1>1. q * m + 0 = q * m /\ m * q = q * m /\ 0 \in 0 .. m - 1
  BY SMT
<1> QED
  BY <1>1, DivModUnique

\* What lies below a product has its quotient below a factor, and the other way round.
LEMMA BelowProduct ==
    ASSUME NEW q \in Nat, NEW b \in Nat, NEW m \in Nat \ {0}, NEW r \in 0 .. m - 1
    PROVE  q * m + r < b * m <=> q < b
<1>1. q < b => q * m + m <= b * m
  BY ProductStep
<1>2. b <= q => b * m <= q * m
  BY SMT
<1>3. q * m \in Nat /\ b * m \in Nat
  BY SMT
<1> QED
  BY <1>1, <1>2, <1>3, SMT

\* Division by a product is division by one factor after the other.
LEMMA DivTwice ==
    ASSUME NEW a \in Nat, NEW m \in Nat \ {0}, NEW n \in Nat \ {0}
    PROVE  m * n \in Nat \ {0} /\ a \div (m * n) = (a \div m) \div n
<1>1. PICK q \in Nat, r \in 0 .. m - 1 : q = a \div m /\ a = q * m + r
  BY DivMod
<1>2. PICK h \in Nat, l \in 0 .. n - 1 : h = q \div n /\ q = h * n + l
  BY DivMod
<1>3. m * n \in Nat \ {0}
  BY SMT
<1>4. l * m + r \in 0 .. (m * n) - 1
  <2>1. l * m + r < n * m
    BY BelowProduct
  <2>2. l * m + r \in Nat /\ n * m = m * n
    BY SMT
  <2> QED
    BY <1>3, <2>1, <2>2
<1>5. a = h * (m * n) + (l * m + r)
  <2>1. (h * n + l) * m = (h * n) * m + l * m /\ (h * n) * m = h * (m * n)
    BY <1>2, SMT
  <2>2. q * m = (h * n + l) * m
    BY <1>2
  <2>3. h * (m * n) \in Nat /\ l * m \in Nat
    BY <1>2, SMT
  <2> QED
    BY <1>1, <2>1, <2>2, <2>3
<1>6. a \div (m * n) = h
  BY <1>3, <1>4, <1>5, DivModUnique
<1> QED
  BY <1>1, <1>2, <1>3, <1>6

\* A multiple of the divisor is added to the quotient ...
LEMMA DivSum ==
    ASSUME NEW q \in Nat, NEW m \in Nat \ {0}, NEW k \in Nat
    PROVE  (q * m + k) \div m = q + (k \div m) /\ (q * m + k) % m = k % m
<1>1. PICK h \in Nat, l \in 0 .. m - 1 : h = k \div m /\ l = k % m /\ k = h * m + l
  BY DivMod
<1>2. q * m + k = (q + h) * m + l /\ q + h \in Nat
  BY <1>1, SMT
<1>3. ((q + h) * m + l) \div m = q + h /\ ((q + h) * m + l) % m = l
  BY <1>1, <1>2, DivModUnique
<1> QED
  BY <1>1, <1>2, <1>3

\* ... and of the product leaves the residue of the quotient.
LEMMA ResidueKept ==
    ASSUME NEW q \in Nat, NEW s \in Nat \ {0}, NEW u \in Nat \ {0}, NEW x \in Nat
    PROVE  ((q * (s * u) + x) \div u) % s = (x \div u) % s
<1>1. q * (s * u) + x = (q * s) * u + x /\ q * s \in Nat
  BY SMT
<1>2. ((q * s) * u + x) \div u = q * s + (x \div u)
  BY <1>1, DivSum
<1>3. x \div u \in Nat
  BY DivMod
<1>4. (q * s + (x \div u)) % s = (x \div u) % s
  BY <1>3, DivSum
<1> QED
  BY <1>1, <1>2, <1>4

----------------------------------------------------------------------------
(* The digits of a plan.  The bits processed are partial sums, so sizes    *)
(* are products of the factors; powers of two divide each other.           *)

\* Induction, over a set of numbers.
LEMMA SetInduction ==
    ASSUME NEW S, 0 \in S, \A n \in Nat : n \in S => n + 1 \in S
    PROVE  \A n \in Nat : n \in S
<1> DEFINE Bad == Nat \ S
           Less == OpToRel(<, Nat)
<1>1. SUFFICES ASSUME Bad # {} PROVE FALSE
  OBVIOUS
<1>2. \A a, b \in Nat : a < b => <<a, b>> \in Less
  BY DEF OpToRel
<1>3. IsWellFoundedOn(Less, Nat)
  BY NatLessThanWellFounded
<1> HIDE DEF Less
<1>4. PICK n \in Bad : \A m \in Bad : <<m, n>> \notin Less
  BY <1>1, <1>3, WFMin
<1>5. n \in Nat /\ n # 0
  OBVIOUS
<1>6. n - 1 \in Nat /\ (n - 1) + 1 = n /\ n - 1 < n
  BY <1>5
<1>7. n - 1 \notin Bad
  BY <1>2, <1>4, <1>5, <1>6
<1> QED
  BY <1>4, <1>6, <1>7

\* The sums of the first elements of a sequence, as done sums them.
Sums(f, n) ==
    /\ f \in [0 .. n -> Nat]
    /\ f[0] = 0
    /\ \A g \in 0 .. n - 1 : f[g + 1] = f[g] + Factors[g + 1]

LEMMA PartialSums ==
    ASSUME Factors \in Seq(Nat)
    PROVE  \E f : Sums(f, Groups)
<1> DEFINE S == {n \in Nat : n <= Groups => \E f : Sums(f, n)}
<1>0. Groups \in Nat /\ \A g \in 1 .. Groups : Factors[g] \in Nat
  BY DEF Groups
<1>1. 0 \in S
  <2> DEFINE f == [s \in 0 .. 0 |-> 0]
  <2>1. Sums(f, 0)
    BY DEF Sums
  <2> HIDE DEF f
  <2> QED
    BY <2>1
<1>2. ASSUME NEW m \in Nat, m \in S PROVE m + 1 \in S
  <2> SUFFICES ASSUME m + 1 <= Groups PROVE \E f : Sums(f, m + 1)
    OBVIOUS
  <2>1. PICK f : Sums(f, m)
    BY <1>0, <1>2
  <2> DEFINE h == [s \in 0 .. m + 1 |-> IF s = m + 1 THEN f[m] + Factors[m + 1] ELSE f[s]]
  <2>2. f[m] \in Nat /\ Factors[m + 1] \in Nat /\ f[0] = 0 /\ \A s \in 0 .. m : f[s] \in Nat
    BY <1>0, <2>1 DEF Sums
  <2>3. h \in [0 .. m + 1 -> Nat]
    <3>1. ASSUME NEW s \in 0 .. m + 1 PROVE (IF s = m + 1 THEN f[m] + Factors[m + 1] ELSE f[s]) \in Nat
      BY <2>2
    <3> QED
      BY <3>1
  <2>4. h[0] = 0 /\ h[m + 1] = f[m] + Factors[m + 1] /\ \A s \in 0 .. m : h[s] = f[s]
    <3>1. 0 \in 0 .. m + 1 /\ 0 # m + 1 /\ m + 1 \in 0 .. m + 1 /\ \A s \in 0 .. m : s \in 0 .. m + 1 /\ s # m + 1
      OBVIOUS
    <3>2. h[0] = f[0]
      BY <3>1
    <3>3. h[m + 1] = f[m] + Factors[m + 1]
      BY <3>1
    <3>4. \A s \in 0 .. m : h[s] = f[s]
      BY <3>1
    <3> QED
      BY <2>2, <3>2, <3>3, <3>4
  <2> HIDE DEF h
  <2>5. ASSUME NEW s \in 0 .. (m + 1) - 1 PROVE h[s + 1] = h[s] + Factors[s + 1]
    <3>1. CASE s = m
      BY <2>4, <3>1
    <3>2. CASE s # m
      <4>1. s \in 0 .. m - 1 /\ s \in 0 .. m /\ s + 1 \in 0 .. m
        BY <3>2
      <4>2. f[s + 1] = f[s] + Factors[s + 1]
        BY <2>1, <4>1 DEF Sums
      <4> QED
        BY <2>4, <4>1, <4>2
    <3> QED
      BY <3>1, <3>2
  <2>6. Sums(h, m + 1)
    BY <2>3, <2>4, <2>5 DEF Sums
  <2> QED
    BY <2>6
<1> HIDE DEF S
<1>3. Groups \in S
  BY <1>0, <1>1, <1>2, SetInduction
<1> QED
  BY <1>0, <1>3 DEF S

\* done is such a sum.
LEMMA DoneSums ==
    ASSUME Factors \in Seq(Nat)
    PROVE  Sums(done, Groups)
<1>0. Groups \in Nat
  BY DEF Groups
<1> DEFINE R(h) == h = [g \in 0 .. Groups |-> IF g = 0 THEN 0 ELSE h[g - 1] + Factors[g]]
<1>1. PICK f : Sums(f, Groups)
  BY PartialSums
<1>2. R(f)
  <2>1. ASSUME NEW g \in 0 .. Groups
        PROVE  f[g] = IF g = 0 THEN 0 ELSE f[g - 1] + Factors[g]
    <3>1. CASE g = 0
      BY <1>1, <3>1 DEF Sums
    <3>2. CASE g # 0
      <4>1. g - 1 \in 0 .. Groups - 1 /\ (g - 1) + 1 = g
        BY <1>0, <3>2
      <4> QED
        BY <1>1, <3>2, <4>1 DEF Sums
    <3> QED
      BY <3>1, <3>2
  <2>2. f \in [0 .. Groups -> Nat]
    BY <1>1 DEF Sums
  <2> QED
    BY <2>1, <2>2
<1> DEFINE h == CHOOSE h : R(h)
<1>3. R(h)
  BY <1>2
<1>4. done = h
  BY DEF done
<1> HIDE DEF h
<1>5. h = f
  <2> DEFINE S == {n \in Nat : n <= Groups => h[n] = f[n]}
  <2>1. 0 \in S
    BY <1>0, <1>2, <1>3
  <2>2. ASSUME NEW n \in Nat, n \in S PROVE n + 1 \in S
    <3> SUFFICES ASSUME n + 1 <= Groups PROVE h[n + 1] = f[n + 1]
      OBVIOUS
    <3>1. n + 1 \in 0 .. Groups /\ n + 1 # 0 /\ (n + 1) - 1 = n /\ h[n] = f[n]
      BY <1>0, <2>2
    <3>2. h[n + 1] = h[n] + Factors[n + 1] /\ f[n + 1] = f[n] + Factors[n + 1]
      BY <1>2, <1>3, <3>1
    <3> QED
      BY <3>1, <3>2
  <2> HIDE DEF S
  <2>3. \A n \in Nat : n \in S
    BY <2>1, <2>2, SetInduction
  <2>4. \A n \in 0 .. Groups : h[n] = f[n]
    BY <1>0, <2>3 DEF S
  <2>5. h = [g \in 0 .. Groups |-> h[g]] /\ f = [g \in 0 .. Groups |-> f[g]]
    BY <1>2, <1>3
  <2> QED
    BY <2>4, <2>5
<1> QED
  BY <1>1, <1>4, <1>5

\* The bits processed grow.
LEMMA DoneGrows ==
    ASSUME Factors \in Seq(Nat), NEW g \in 0 .. Groups, NEW h \in g .. Groups
    PROVE  done[g] \in Nat /\ done[h] \in Nat /\ done[g] <= done[h]
<1>0. Groups \in Nat /\ \A i \in 1 .. Groups : Factors[i] \in Nat
  BY DEF Groups
<1>1. Sums(done, Groups)
  BY DoneSums
<1> DEFINE S == {n \in Nat : g + n <= Groups => done[g] <= done[g + n]}
<1>2. 0 \in S
  BY <1>0, <1>1 DEF Sums
<1>3. ASSUME NEW n \in Nat, n \in S PROVE n + 1 \in S
  <2> SUFFICES ASSUME g + (n + 1) <= Groups PROVE done[g] <= done[g + (n + 1)]
    OBVIOUS
  <2>1. g + n \in 0 .. Groups - 1 /\ (g + n) + 1 = g + (n + 1) /\ (g + n) + 1 \in 1 .. Groups
    BY <1>0
  <2>2. done[g] <= done[g + n]
    BY <1>0, <1>3, <2>1
  <2>3. done[(g + n) + 1] = done[g + n] + Factors[(g + n) + 1]
    BY <1>1, <2>1 DEF Sums
  <2>4. done[g] \in Nat /\ done[g + n] \in Nat /\ Factors[(g + n) + 1] \in Nat
    BY <1>0, <1>1, <2>1 DEF Sums
  <2> QED
    BY <2>1, <2>2, <2>3, <2>4
<1> HIDE DEF S
<1>4. \A n \in Nat : n \in S
  BY <1>2, <1>3, SetInduction
<1>5. g + (h - g) = h /\ h - g \in Nat
  BY <1>0
<1>6. h - g \in S
  BY <1>4, <1>5
<1>7. done[g] <= done[h]
  BY <1>0, <1>5, <1>6 DEF S
<1>8. g \in 0 .. Groups /\ h \in 0 .. Groups
  BY <1>0
<1> QED
  BY <1>1, <1>7, <1>8 DEF Sums

\* A power of two: the quotient of two of them, when it is not less than one, is a third.
LEMMA PowerFacts ==
    ASSUME Powers, NEW j \in 0 .. 30, NEW i \in 0 .. j
    PROVE  /\ 2^i \in Nat \ {0} /\ 2^j \in Nat \ {0} /\ 2^(j - i) \in Nat \ {0}
           /\ 2^j = 2^i * 2^(j - i)
           /\ 2^j \div 2^i = 2^(j - i)
<1>1. j - i \in 0 .. 30 /\ i \in 0 .. 30
  OBVIOUS
<1>2. 2^i \in Nat \ {0} /\ 2^j \in Nat \ {0} /\ 2^(j - i) \in Nat \ {0} /\ 2^j = 2^i * 2^(j - i)
  BY <1>1 DEF Powers
<1>3. \A a, b, c : a \in Nat \ {0} /\ b \in Nat \ {0} /\ c = a * b => c \div a = b
  BY ExactQuotient
<1> QED
  BY <1>2, <1>3

\* Powers are positive, and grow.
LEMMA PowersGrow ==
    ASSUME Powers
    PROVE  /\ \A i \in 0 .. 30 : 2^i \in Nat \ {0} /\ 2^i \in Nat /\ 2^i # 0
           /\ \A j \in 0 .. 30 : \A i \in 0 .. j - 1 : 2^i < 2^j
<1>1. \A i \in 0 .. 30 : 2^i \in Nat \ {0}
  BY DEF Powers
<1>2. \A j \in 0 .. 30 : \A i \in 0 .. j - 1 : 2^i < 2^j
  BY DEF Powers
<1> QED
  BY <1>1, <1>2

\* One power of two divides another that is not smaller.
LEMMA PowerDivides ==
    ASSUME Powers, NEW j \in 0 .. 30, NEW i \in 0 .. 30, 2^i <= 2^j
    PROVE  i <= j
<1>1. SUFFICES ASSUME j < i PROVE FALSE
  OBVIOUS
<1>2. j \in 0 .. i - 1
  BY <1>1
<1>3. 2^j < 2^i
  BY <1>2, PowersGrow
<1>4. 2^j \in Nat /\ 2^i \in Nat
  BY PowersGrow
<1> QED
  BY <1>3, <1>4

\* The sizes of a group: F(g) rows Independent(g) apart, which are Rest(g) times the
\* P(g) columns behind the digits already processed.
Rest(g) == Independent(g) \div P(g)

LEMMA GroupSizes ==
    ASSUME ValidFactors, Powers, NEW g \in Group
    PROVE  /\ Groups \in Nat /\ Groups >= 2 /\ Batch \in Nat \ {0}
           /\ F(g) \in Nat \ {0} /\ P(g) \in Nat \ {0} /\ Rest(g) \in Nat \ {0} /\ N \in Nat \ {0}
           /\ Independent(g) = Rest(g) * P(g) /\ Independent(g) \in Nat \ {0}
           /\ N = Independent(g) * F(g)
           /\ P(g + 1) = P(g) * F(g)
           /\ g # Last => \E z \in Nat \ {0} : Rest(g) = z * F(Last)
<1>0. /\ Groups \in Nat /\ Groups >= 2 /\ Batch \in Nat \ {0} /\ Factors \in Seq(Nat)
      /\ \A i \in 1 .. Groups : Factors[i] \in Nat
      /\ done[Groups] <= 30
  <2>1. Factors \in Seq(1 .. 14) /\ Groups >= 2 /\ Batch \in Nat \ {0} /\ done[Groups] <= 30
    BY DEF ValidFactors
  <2>2. Groups \in Nat /\ \A i \in 1 .. Groups : Factors[i] \in 1 .. 14
    BY <2>1 DEF Groups
  <2>3. Factors \in Seq(Nat)
    BY <2>1
  <2>4. \A i \in 1 .. Groups : Factors[i] \in Nat
    BY <2>2
  <2> QED
    BY ONLY <2>1, <2>2, <2>3, <2>4
<1>1. /\ g \in 0 .. Groups /\ g + 1 \in 0 .. Groups /\ Groups \in g + 1 .. Groups /\ g + 1 \in g .. Groups
      /\ g + 1 \in 1 .. Groups /\ Last \in 0 .. Groups /\ Groups \in Last .. Groups /\ Last \in Group
      /\ (g # Last => Last \in g + 1 .. Groups) /\ Last + 1 = Groups
  BY <1>0 DEF Group, Last
<1>2. /\ done[g] \in Nat /\ done[g + 1] = done[g] + Factors[g + 1]
      /\ done[Groups] = done[Last] + Factors[Groups]
      /\ Factors[g + 1] \in Nat /\ Factors[Groups] \in Nat
  <2>1. Sums(done, Groups)
    BY <1>0, DoneSums
  <2> QED
    <3>1. g \in 0 .. Groups - 1 /\ Last \in 0 .. Groups - 1 /\ Groups \in 1 .. Groups
      BY <1>0, <1>1 DEF Group, Last
    <3>2. done[g + 1] = done[g] + Factors[g + 1] /\ done[Last + 1] = done[Last] + Factors[Last + 1]
      BY <2>1, <3>1 DEF Sums
    <3>3. done[g] \in Nat
      BY <1>1, <2>1 DEF Sums
    <3> QED
      BY <1>0, <1>1, <3>1, <3>2, <3>3
<1>3. /\ done[g + 1] \in Nat /\ done[Groups] \in Nat /\ done[g + 1] <= done[Groups]
      /\ done[Last] \in Nat /\ (g # Last => done[g + 1] <= done[Last])
  BY <1>0, <1>1, DoneGrows
<1> DEFINE a == done[g]
           f == Factors[g + 1]
           n == done[Groups]
           l == Factors[Groups]
<1>4. /\ a \in Nat /\ f \in Nat /\ n \in Nat /\ l \in Nat /\ a + f <= n /\ n <= 30
      /\ (g # Last => (a + f) + l <= n)
  BY <1>0, <1>1, <1>2, <1>3
<1>5. /\ N = 2^n /\ F(g) = 2^f /\ P(g) = 2^a /\ P(g + 1) = 2^(a + f) /\ F(Last) = 2^l
      /\ Independent(g) = 2^n \div 2^f /\ Rest(g) = Independent(g) \div 2^a
  BY <1>1, <1>2 DEF N, F, P, Independent, Rest
<1> HIDE DEF a, f, n, l
<1>6. 2^n = 2^f * 2^(n - f) /\ 2^n \div 2^f = 2^(n - f) /\ {2^n, 2^f, 2^(n - f)} \subseteq Nat \ {0}
  <2>1. n \in 0 .. 30 /\ f \in 0 .. n
    BY <1>4
  <2> QED
    BY <2>1, PowerFacts
<1>7. /\ 2^(n - f) = 2^a * 2^((n - f) - a) /\ 2^(n - f) \div 2^a = 2^((n - f) - a)
      /\ {2^a, 2^((n - f) - a)} \subseteq Nat \ {0}
  <2>1. n - f \in 0 .. 30 /\ a \in 0 .. n - f
    BY <1>4
  <2> QED
    BY <2>1, PowerFacts
<1>8. 2^(a + f) = 2^a * 2^f
  <2>1. a + f \in 0 .. 30 /\ a \in 0 .. a + f /\ (a + f) - a = f
    BY <1>4
  <2> QED
    BY <2>1, PowerFacts
<1>9. g # Last => 2^((n - f) - a) = 2^l * 2^(((n - f) - a) - l) /\ 2^(((n - f) - a) - l) \in Nat \ {0} /\ 2^l \in Nat \ {0}
  <2> SUFFICES ASSUME g # Last
               PROVE  2^((n - f) - a) = 2^l * 2^(((n - f) - a) - l) /\ 2^(((n - f) - a) - l) \in Nat \ {0} /\ 2^l \in Nat \ {0}
    OBVIOUS
  <2>1. (n - f) - a \in 0 .. 30 /\ l \in 0 .. (n - f) - a
    BY <1>4
  <2> QED
    BY <2>1, PowerFacts
<1>10. \A x, y : x \in Nat \ {0} /\ y \in Nat \ {0} => x * y = y * x
  BY SMT
<1>11. Independent(g) = Rest(g) * P(g) /\ N = Independent(g) * F(g)
  BY <1>5, <1>6, <1>7, <1>10
<1>12. g # Last => \E z \in Nat \ {0} : Rest(g) = z * F(Last)
  BY <1>5, <1>6, <1>7, <1>9, <1>10
<1> QED
  BY <1>0, <1>5, <1>6, <1>7, <1>8, <1>11, <1>12

\* The columns of a tile divide what a group has of them, the slices with the columns
\* divide the last digit.
LEMMA TileSizes ==
    ASSUME ValidFactors, Powers
    PROVE  /\ Columns \in Nat \ {0} /\ Slices \in Nat \ {0, 1}
           /\ \E m \in Nat \ {0} : F(Last) = Slices * (m * Columns)
           /\ \A g \in Group : \E y \in Nat \ {0} : Independent(g) = y * Columns
<1>0. /\ Groups \in Nat /\ Groups >= 2 /\ Factors \in Seq(Nat) /\ Last \in Group /\ Last + 1 = Groups
      /\ \A i \in 1 .. Groups : Factors[i] \in 0 .. 30
      /\ Group = 0 .. Groups - 1
  <2>1. Factors \in Seq(1 .. 14) /\ Groups >= 2
    BY DEF ValidFactors
  <2>2. Groups \in Nat /\ \A i \in 1 .. Groups : Factors[i] \in 1 .. 14
    BY <2>1 DEF Groups
  <2>3. Factors \in Seq(Nat)
    BY <2>1
  <2> QED
    BY <2>1, <2>2, <2>3 DEF Group, Last
<1>1. PICK c \in 0 .. 4 : Columns = 2^c
  BY DEF ValidFactors
<1>2. PICK s \in 1 .. 14 : Slices = 2^s
  BY DEF ValidFactors
<1>3. PICK l \in 0 .. 30 : l = Factors[Groups]
  BY <1>0
<1>31. F(Last) = 2^l
  BY <1>0, <1>3 DEF F
<1>4. 2^c \in Nat \ {0} /\ 2^s \in Nat \ {0} /\ 2^l \in Nat \ {0} /\ c \in 0 .. 30 /\ s \in 0 .. 30
  <2>1. c \in 0 .. 30 /\ s \in 0 .. 30
    BY <1>1, <1>2
  <2> QED
    BY <1>3, <2>1, PowersGrow
<1>5. Slices \in Nat \ {0, 1}
  <2>1. 0 \in 0 .. s - 1 /\ s \in 0 .. 30
    BY <1>2
  <2>2. 2^0 < 2^s /\ 2^0 \in Nat \ {0}
    <3>1. 0 \in 0 .. 30
      OBVIOUS
    <3> QED
      BY <2>1, <3>1, PowersGrow
  <2> QED
    BY <1>2, <1>4, <2>2
<1>6. Slices <= 2^l \div 2^c
  BY <1>1, <1>3, <1>31 DEF ValidFactors
<1>7. c <= l
  <2>1. SUFFICES ASSUME l < c PROVE FALSE
    BY <1>1, <1>3
  <2>2. 2^l < 2^c
    <3>1. l \in 0 .. c - 1
      BY <1>1, <1>3, <2>1
    <3> QED
      BY <1>4, <3>1, PowersGrow
  <2>3. 2^l \div 2^c = 0
    BY <1>4, <2>2, SMT
  <2> QED
    BY <1>5, <1>6, <2>3
<1>8. 2^l \div 2^c = 2^(l - c) /\ 2^l = 2^c * 2^(l - c) /\ 2^(l - c) \in Nat \ {0} /\ l - c \in 0 .. 30
  <2>1. l \in 0 .. 30 /\ c \in 0 .. l /\ l - c \in 0 .. 30
    BY <1>3, <1>4, <1>7
  <2> QED
    BY <2>1, PowerFacts
<1>9. s <= l - c
  BY <1>2, <1>4, <1>6, <1>8, PowerDivides
<1>10. 2^(l - c) = 2^s * 2^((l - c) - s) /\ 2^((l - c) - s) \in Nat \ {0}
  <2>1. s \in 0 .. l - c
    BY <1>2, <1>8, <1>9
  <2> QED
    BY <1>8, <2>1, PowerFacts
<1>11. F(Last) = Slices * (2^((l - c) - s) * Columns)
  <2>1. \A x, y, z : x \in Nat /\ y \in Nat /\ z \in Nat => x * (y * z) = y * (z * x)
    BY SMT
  <2> QED
    BY <1>1, <1>2, <1>31, <1>4, <1>8, <1>10, <2>1
<1>12. ASSUME NEW g \in Group PROVE \E y \in Nat \ {0} : Independent(g) = y * Columns
  <2>1. g + 1 \in 1 .. Groups /\ g + 1 \in 0 .. Groups /\ Groups \in g + 1 .. Groups /\ g \in 0 .. Groups /\ g + 1 \in g .. Groups
    BY <1>0
  <2>2. /\ done[g] \in Nat /\ done[Groups] \in Nat /\ done[g + 1] \in Nat
        /\ done[g + 1] <= done[Groups] /\ done[g + 1] = done[g] + Factors[g + 1]
    <3>1. Sums(done, Groups)
      BY <1>0, DoneSums
    <3> QED
      BY <1>0, <2>1, <3>1, DoneGrows DEF Sums
  <2>3. PICK f \in Nat, n \in 0 .. 30 : /\ f = Factors[g + 1] /\ n = done[Groups] /\ f <= n
    <3>1. done[Groups] <= 30
      BY DEF ValidFactors
    <3>2. Factors[g + 1] \in 0 .. 30
      BY <1>0, <2>1
    <3> QED
      BY <2>2, <3>1, <3>2
  <2>4. 2^n \div 2^f = 2^(n - f) /\ 2^(n - f) \in Nat \ {0} /\ n - f \in 0 .. 30
    <3>1. f \in 0 .. n /\ n - f \in 0 .. 30
      BY <2>3
    <3> QED
      BY <2>3, <3>1, PowerFacts
  <2>5. Independent(g) = 2^(n - f)
    BY <2>3, <2>4 DEF Independent, N, F
  <2>6. 2^c <= 2^(n - f)
    BY <1>1, <2>5 DEF ValidFactors
  <2>7. c <= n - f
    BY <1>4, <2>4, <2>6, PowerDivides
  <2>8. 2^(n - f) = 2^c * 2^((n - f) - c) /\ 2^((n - f) - c) \in Nat \ {0}
    <3>1. c \in 0 .. n - f
      BY <1>4, <2>7
    <3> QED
      BY <2>4, <3>1, PowerFacts
  <2>9. 2^c * 2^((n - f) - c) = 2^((n - f) - c) * 2^c
    BY <1>4, <2>8, SMT
  <2> QED
    BY <1>1, <2>5, <2>8, <2>9
<1> QED
  BY <1>1, <1>4, <1>5, <1>10, <1>11, <1>12

----------------------------------------------------------------------------
(* The transforms of a launch.                                             *)

\* The values of the last digit that a slice has, and the transforms that follow each
\* other in it.
Share == F(Last) \div Slices
Run(g) == Share * P(g)

\* factor_tile_range, in these terms.
LEMMA RunFacts ==
    ASSUME ValidFactors, Powers, NEW g \in Group, g # Last, NEW s \in Slice
    PROVE  /\ Share \in Nat \ {0} /\ F(Last) = Slices * Share /\ Run(g) \in Nat \ {0}
           /\ \E w \in Nat \ {0}, z \in Nat \ {0} :
                 /\ Run(g) = w * Columns
                 /\ Independent(g) = z * (Slices * Run(g))
                 /\ TileRange(g, s) = [first |-> w * s, count |-> (Batch * z) * w, period |-> Slices * w, span |-> w]
<1>1. Columns \in Nat \ {0} /\ Slices \in Nat \ {0} /\ Batch \in Nat \ {0} /\ s \in Nat
  BY TileSizes, GroupSizes DEF Slice
<1>2. PICK m \in Nat \ {0} : F(Last) = Slices * (m * Columns)
  BY TileSizes
<1>3. P(g) \in Nat \ {0} /\ Independent(g) = Rest(g) * P(g)
  BY GroupSizes
<1>4. PICK z \in Nat \ {0} : Rest(g) = z * F(Last)
  BY GroupSizes
<1>5. m * Columns \in Nat \ {0}
  BY <1>1, SMT
<1>6. Share = m * Columns
  BY <1>1, <1>2, <1>5, ExactQuotient DEF Share
<1> DEFINE w == m * P(g)
<1>7. w \in Nat \ {0} /\ Slices * w \in Nat \ {0}
  BY <1>1, <1>3, SMT
<1>8. Run(g) = w * Columns
  <2>1. (m * Columns) * P(g) = (m * P(g)) * Columns
    BY <1>1, <1>3, SMT
  <2> QED
    BY <1>6, <2>1 DEF Run
<1>9. F(Last) * P(g) = (Slices * w) * Columns
  <2>1. (Slices * (m * Columns)) * P(g) = (Slices * (m * P(g))) * Columns
    BY <1>1, <1>3, SMT
  <2> QED
    BY <1>2, <2>1
<1>10. Independent(g) = z * (Slices * Run(g))
  <2>1. (z * (Slices * (m * Columns))) * P(g) = z * (Slices * ((m * Columns) * P(g)))
    BY <1>1, <1>3, SMT
  <2> QED
    BY <1>2, <1>3, <1>4, <1>6, <2>1 DEF Run
<1> HIDE DEF w
<1>11. (F(Last) * P(g)) \div Columns = Slices * w /\ (Slices * w) \div Slices = w
  BY <1>1, <1>7, <1>9, ExactQuotient
<1>12. Tiles(g) = ((Batch * z) * w) * Slices
  <2>1. Batch * (z * (Slices * (w * Columns))) = (((Batch * z) * w) * Slices) * Columns
    BY <1>1, <1>7, SMT
  <2>2. ((Batch * z) * w) * Slices \in Nat
    BY <1>1, <1>7, SMT
  <2>3. ((((Batch * z) * w) * Slices) * Columns) \div Columns = ((Batch * z) * w) * Slices
    BY <1>1, <2>2, ExactQuotient
  <2> QED
    BY <1>8, <1>10, <2>1, <2>3 DEF Tiles
<1>13. Tiles(g) \div Slices = (Batch * z) * w
  <2>1. (Batch * z) * w \in Nat
    BY <1>1, <1>7, SMT
  <2> QED
    BY <1>1, <1>12, <2>1, ExactQuotient
<1>14. TileRange(g, s) = [first |-> w * s, count |-> (Batch * z) * w, period |-> Slices * w, span |-> w]
  BY <1>11, <1>13 DEF TileRange
<1>15. Run(g) \in Nat \ {0}
  BY <1>1, <1>7, <1>8, SMT
<1> QED
  BY <1>2, <1>5, <1>6, <1>7, <1>8, <1>10, <1>14, <1>15

\* The transforms of a slice of any group but the last, ...
LEMMA SliceTransforms ==
    ASSUME ValidFactors, Powers, NEW g \in Group, g # Last, NEW s \in Slice, NEW t
    PROVE  t \in Transforms(g, s) <=>
               t \in 0 .. (Batch * Independent(g)) - 1 /\ (t \div Run(g)) % Slices = s
<1>1. /\ Columns \in Nat \ {0} /\ Slices \in Nat \ {0} /\ Batch \in Nat \ {0} /\ s \in 0 .. Slices - 1 /\ s \in Nat
      /\ Run(g) \in Nat \ {0}
  BY TileSizes, GroupSizes, RunFacts DEF Slice
<1>2. PICK w \in Nat \ {0}, z \in Nat \ {0} :
         /\ Run(g) = w * Columns
         /\ Independent(g) = z * (Slices * Run(g))
         /\ TileRange(g, s) = [first |-> w * s, count |-> (Batch * z) * w, period |-> Slices * w, span |-> w]
  BY RunFacts
<1> DEFINE Total == Batch * Independent(g)
           Y == Batch * z
<1>3. Y \in Nat /\ Y * w \in Nat /\ Y * Slices \in Nat /\ (Y * Slices) * Run(g) \in Nat
  BY <1>1, <1>2, SMT
<1>4. Total = (Y * Slices) * Run(g)
  <2>1. Batch * (z * (Slices * Run(g))) = ((Batch * z) * Slices) * Run(g)
    BY <1>1, SMT
  <2> QED
    BY <1>2, <2>1
<1> HIDE DEF Total, Y
<1>5. t \in Transforms(g, s) <=>
         \E i \in 0 .. (Y * w) - 1, col \in 0 .. Columns - 1 :
            t = (w * s + (i \div w) * (Slices * w) + (i % w)) * Columns + col
  BY <1>2 DEF Transforms, PhysicalTile, Y
<1>6. ASSUME NEW h \in Nat, NEW l \in Nat, NEW col \in Nat
      PROVE  (w * s + h * (Slices * w) + l) * Columns + col = (h * Slices + s) * Run(g) + (l * Columns + col)
  <2>1. (w * s + h * (Slices * w) + l) * Columns + col
           = (h * Slices + s) * (w * Columns) + (l * Columns + col)
    BY <1>1, SMT
  <2> QED
    BY <1>2, <2>1
<1>7. ASSUME NEW i \in 0 .. (Y * w) - 1, NEW col \in 0 .. Columns - 1,
             t = (w * s + (i \div w) * (Slices * w) + (i % w)) * Columns + col
      PROVE  t \in 0 .. Total - 1 /\ (t \div Run(g)) % Slices = s
  <2>1. PICK h \in Nat, l \in 0 .. w - 1 : h = i \div w /\ l = i % w /\ i = h * w + l
    <3>1. i \in Nat
      BY <1>3
    <3>2. i \div w \in Nat /\ i % w \in 0 .. w - 1 /\ i = (i \div w) * w + (i % w)
      BY <3>1, DivMod
    <3> QED
      BY <3>2
  <2>2. h < Y
    BY <1>3, <2>1, BelowProduct
  <2>3. l * Columns + col \in 0 .. Run(g) - 1
    <3>1. l * Columns + col < w * Columns
      BY <1>1, <2>1, BelowProduct
    <3>2. l * Columns + col \in Nat
      BY <1>1, <2>1, SMT
    <3> QED
      BY <1>1, <1>2, <3>1, <3>2
  <2>4. h * Slices + s \in Nat /\ h * Slices + s < Y * Slices
    BY <1>1, <1>3, <2>1, <2>2, BelowProduct
  <2>5. t = (h * Slices + s) * Run(g) + (l * Columns + col)
    BY <1>6, <1>7, <2>1
  <2>6. t \div Run(g) = h * Slices + s
    <3>1. ASSUME NEW m \in Nat \ {0}, NEW q \in Nat, NEW r \in 0 .. m - 1, t = q * m + r
          PROVE  t \div m = q
      BY <3>1, DivModUnique
    <3> QED
      BY ONLY <1>1, <2>3, <2>4, <2>5, <3>1
  <2>7. (h * Slices + s) % Slices = s
    BY <1>1, <2>1, DivModUnique
  <2>8. t < (Y * Slices) * Run(g)
    BY <1>1, <1>3, <2>3, <2>4, <2>5, BelowProduct
  <2>9. t \in Nat
    <3>1. (h * Slices + s) * Run(g) \in Nat
      BY <1>1, <2>4, SMT
    <3> QED
      BY <2>3, <2>5, <3>1
  <2> QED
    BY <1>3, <1>4, <2>6, <2>7, <2>8, <2>9
<1>8. ASSUME t \in 0 .. Total - 1, (t \div Run(g)) % Slices = s
      PROVE  \E i \in 0 .. (Y * w) - 1, col \in 0 .. Columns - 1 :
                t = (w * s + (i \div w) * (Slices * w) + (i % w)) * Columns + col
  <2>0. t \in Nat /\ t < (Y * Slices) * Run(g)
    BY <1>3, <1>4, <1>8
  <2>1. PICK x \in Nat, r \in 0 .. Run(g) - 1 : x = t \div Run(g) /\ t = x * Run(g) + r
    <3>1. t \div Run(g) \in Nat /\ t % Run(g) \in 0 .. Run(g) - 1 /\ t = (t \div Run(g)) * Run(g) + (t % Run(g))
      BY <1>1, <2>0, DivMod
    <3> QED
      BY <3>1
  <2>2. PICK h \in Nat : x = h * Slices + s
    <3>1. x = (x \div Slices) * Slices + s /\ x \div Slices \in Nat
      BY <1>1, <1>8, <2>1, DivMod
    <3> QED
      BY <3>1
  <2>3. PICK l \in Nat, col \in 0 .. Columns - 1 : r = l * Columns + col
    <3>1. r \in Nat
      BY <1>1, <2>1
    <3>2. r \div Columns \in Nat /\ r % Columns \in 0 .. Columns - 1 /\ r = (r \div Columns) * Columns + (r % Columns)
      BY <1>1, <3>1, DivMod
    <3> QED
      BY <3>2
  <2>4. l < w
    <3>1. l * Columns + col < w * Columns
      BY <1>1, <1>2, <2>1, <2>3
    <3> QED
      BY <1>1, <3>1, BelowProduct
  <2>5. x < Y * Slices
    BY <1>1, <1>3, <2>0, <2>1, BelowProduct
  <2>6. h < Y
    BY <1>1, <1>3, <2>2, <2>5, BelowProduct
  <2>7. l \in 0 .. w - 1
    BY <2>4
  <2>8. h * w + l < Y * w /\ h * w + l \in Nat
    <3>1. h * w + l < Y * w
      BY <1>3, <2>6, <2>7, BelowProduct
    <3>2. h * w + l \in Nat
      BY SMT
    <3> QED
      BY <3>1, <3>2
  <2>9. (h * w + l) \div w = h /\ (h * w + l) % w = l
    BY <2>7, DivModUnique
  <2>10. t = (w * s + h * (Slices * w) + l) * Columns + col
    BY <1>6, <2>1, <2>2, <2>3
  <2>11. h * w + l \in 0 .. (Y * w) - 1
    BY <1>3, <2>8
  <2> QED
    BY <2>9, <2>10, <2>11
<1> QED
  BY <1>5, <1>7, <1>8 DEF Total

\* ... and of the last, which is launched once for all slices.
LEMMA LastTransforms ==
    ASSUME ValidFactors, Powers, NEW s \in Slice, NEW t
    PROVE  t \in Transforms(Last, s) <=> t \in 0 .. (Batch * Independent(Last)) - 1
<1>0. Last \in Group /\ Groups \in Nat
  BY DEF ValidFactors, Groups, Group, Last
<1>1. Columns \in Nat \ {0} /\ Batch \in Nat \ {0}
  BY <1>0, TileSizes, GroupSizes
<1>2. PICK y \in Nat \ {0} : Independent(Last) = y * Columns
  BY <1>0, TileSizes
<1> DEFINE T == Batch * y
<1>3. T \in Nat \ {0} /\ Batch * Independent(Last) = T * Columns
  <2>1. Batch * (y * Columns) = (Batch * y) * Columns /\ Batch * y \in Nat \ {0}
    BY <1>1, SMT
  <2> QED
    BY <1>2, <2>1
<1> HIDE DEF T
<1>4. Tiles(Last) = T
  BY <1>1, <1>3, ExactQuotient DEF Tiles
<1>5. TileRange(Last, s) = [first |-> 0, count |-> T, period |-> T, span |-> T]
  BY <1>4 DEF TileRange
<1>6. t \in Transforms(Last, s) <=>
         \E i \in 0 .. T - 1, col \in 0 .. Columns - 1 :
            t = (0 + (i \div T) * T + (i % T)) * Columns + col
  BY <1>5 DEF Transforms, PhysicalTile
<1>7. ASSUME NEW i \in 0 .. T - 1 PROVE 0 + (i \div T) * T + (i % T) = i
  <2>1. i \in Nat
    BY <1>3
  <2>2. i \div T \in Nat /\ i % T \in 0 .. T - 1 /\ i = (i \div T) * T + (i % T)
    BY <1>3, <2>1, DivMod
  <2>3. (i \div T) * T \in Nat
    BY <1>3, <2>2, SMT
  <2> QED
    BY <1>3, <2>2, <2>3
<1>8. t \in Transforms(Last, s) <=>
         \E i \in 0 .. T - 1, col \in 0 .. Columns - 1 : t = i * Columns + col
  BY <1>6, <1>7
<1>9. ASSUME NEW i \in 0 .. T - 1, NEW col \in 0 .. Columns - 1
      PROVE  i * Columns + col \in 0 .. (T * Columns) - 1
  <2>1. i * Columns + col < T * Columns /\ i \in Nat
    BY <1>1, <1>3, BelowProduct
  <2>2. i * Columns + col \in Nat /\ T * Columns \in Nat
    BY <1>1, <1>3, <2>1, SMT
  <2> QED
    BY <2>1, <2>2
<1>10. ASSUME t \in 0 .. (T * Columns) - 1
       PROVE  \E i \in 0 .. T - 1, col \in 0 .. Columns - 1 : t = i * Columns + col
  <2>1. T * Columns \in Nat
    BY <1>1, <1>3, SMT
  <2>2. t \in Nat /\ t < T * Columns
    BY <1>10, <2>1
  <2>3. PICK i \in Nat, col \in 0 .. Columns - 1 : t = i * Columns + col
    BY <1>1, <2>2, DivMod
  <2>4. i < T
    BY <1>1, <1>3, <2>2, <2>3, BelowProduct
  <2>5. i \in 0 .. T - 1
    BY <1>3, <2>4
  <2> QED
    BY <2>3, <2>5
<1> QED
  BY <1>3, <1>8, <1>9, <1>10

----------------------------------------------------------------------------
(* The addresses of a transform.                                           *)

\* The slice of an address, behind group g.
SliceAt(g, a) == ((a \div P(g + 1)) \div Share) % Slices

\* There are slices.
LEMMA SliceExists ==
    ASSUME ValidFactors, Powers
    PROVE  0 \in Slice /\ 1 \in Slice
  BY TileSizes DEF Slice

\* A transform stores under its digits, with its row behind those already processed.
LEMMA StoredAddresses ==
    ASSUME ValidFactors, Powers, NEW g \in Group, NEW t \in Nat
    PROVE  Stores(g, t) = {((t \div P(g)) * F(g) + row) * P(g) + (t % P(g)) : row \in 0 .. F(g) - 1}
<1>1. /\ F(g) \in Nat \ {0} /\ P(g) \in Nat \ {0} /\ Rest(g) \in Nat \ {0}
      /\ Independent(g) = Rest(g) * P(g) /\ Independent(g) \in Nat \ {0}
      /\ N = Independent(g) * F(g)
  BY GroupSizes
<1> DEFINE b == t \div Independent(g)
           k == t % Independent(g)
           y == k \div P(g)
           o == k % P(g)
<1>2. b \in Nat /\ k \in Nat /\ t = b * Independent(g) + k
  <2>1. b \in Nat /\ k \in 0 .. Independent(g) - 1 /\ t = b * Independent(g) + k
    BY <1>1, DivMod
  <2> HIDE DEF b, k
  <2> QED
    BY <1>1, <2>1
<1>3. y \in Nat /\ o \in 0 .. P(g) - 1 /\ k = y * P(g) + o
  <2> HIDE DEF k
  <2> QED
    BY <1>1, <1>2, DivMod
<1>4. Stores(g, t) = {b * N + (y * F(g) + row) * P(g) + o : row \in 0 .. F(g) - 1}
  BY DEF Stores, Base
<1> HIDE DEF b, k, y, o
<1>5. t = (b * Rest(g) + y) * P(g) + o /\ b * Rest(g) + y \in Nat
  <2>1. b * (Rest(g) * P(g)) + (y * P(g) + o) = (b * Rest(g) + y) * P(g) + o
    BY <1>1, <1>2, <1>3, SMT
  <2>2. b * Rest(g) + y \in Nat
    BY <1>1, <1>2, <1>3, SMT
  <2> QED
    BY <1>1, <1>2, <1>3, <2>1, <2>2
<1>6. t \div P(g) = b * Rest(g) + y /\ t % P(g) = o
  <2>1. ASSUME NEW m \in Nat \ {0}, NEW q \in Nat, NEW r \in 0 .. m - 1, t = q * m + r
        PROVE  t \div m = q /\ t % m = r
    BY <2>1, DivModUnique
  <2> QED
    BY ONLY <1>1, <1>3, <1>5, <2>1
<1>7. ASSUME NEW row \in 0 .. F(g) - 1
      PROVE  b * N + (y * F(g) + row) * P(g) + o = ((b * Rest(g) + y) * F(g) + row) * P(g) + o
  <2>1. b * ((Rest(g) * P(g)) * F(g)) + (y * F(g) + row) * P(g) + o
           = ((b * Rest(g) + y) * F(g) + row) * P(g) + o
    BY <1>1, <1>2, <1>3, SMT
  <2> QED
    BY <1>1, <2>1
<1> QED
  BY <1>4, <1>6, <1>7

\* What a transform stores is in the array, and in the slice of the transform.
LEMMA StoresInSlice ==
    ASSUME ValidFactors, Powers, NEW g \in Group,
           NEW t \in 0 .. (Batch * Independent(g)) - 1, NEW a \in Stores(g, t)
    PROVE  a \in Address /\ (g # Last => SliceAt(g, a) = (t \div Run(g)) % Slices)
<1>1. /\ F(g) \in Nat \ {0} /\ P(g) \in Nat \ {0} /\ Rest(g) \in Nat \ {0} /\ Batch \in Nat \ {0} /\ N \in Nat \ {0}
      /\ Independent(g) = Rest(g) * P(g) /\ Independent(g) \in Nat \ {0}
      /\ N = Independent(g) * F(g) /\ P(g + 1) = P(g) * F(g)
  BY GroupSizes
<1>2. Batch * Independent(g) \in Nat
  BY <1>1, SMT
<1>3. t \in Nat /\ t < Batch * Independent(g)
  BY <1>2
<1> DEFINE q == t \div P(g)
           o == t % P(g)
<1>4. q \in Nat /\ o \in 0 .. P(g) - 1 /\ t = q * P(g) + o
  BY <1>1, <1>3, DivMod
<1>5. PICK row \in 0 .. F(g) - 1 : a = (q * F(g) + row) * P(g) + o
  BY <1>3, StoredAddresses
<1>6. q \in Nat /\ q = t \div P(g)
  BY <1>4
<1> HIDE DEF q, o
<1>7. q < Batch * Rest(g) /\ Batch * Rest(g) \in Nat
  <2>1. Batch * (Rest(g) * P(g)) = (Batch * Rest(g)) * P(g) /\ Batch * Rest(g) \in Nat
    BY <1>1, SMT
  <2>2. q * P(g) + o < (Batch * Rest(g)) * P(g)
    BY <1>1, <1>3, <1>4, <2>1
  <2> QED
    BY <1>1, <1>4, <2>1, <2>2, BelowProduct
<1>8. q * F(g) + row \in Nat /\ q * F(g) + row < (Batch * Rest(g)) * F(g)
  <2>1. q * F(g) + row < (Batch * Rest(g)) * F(g)
    BY <1>1, <1>4, <1>5, <1>7, BelowProduct
  <2>2. q * F(g) + row \in Nat
    BY <1>1, <1>4, <1>5, SMT
  <2> QED
    BY <2>1, <2>2
<1>9. a \in Address
  <2>1. (Batch * Rest(g)) * F(g) \in Nat
    BY <1>1, <1>7, SMT
  <2>2. (q * F(g) + row) * P(g) + o < ((Batch * Rest(g)) * F(g)) * P(g)
    BY <1>1, <1>4, <1>8, <2>1, BelowProduct
  <2>3. ((Batch * Rest(g)) * F(g)) * P(g) = Batch * ((Rest(g) * P(g)) * F(g))
    BY <1>1, SMT
  <2>4. a < Batch * N
    BY <1>1, <1>5, <2>2, <2>3
  <2>5. (q * F(g) + row) * P(g) \in Nat /\ Batch * N \in Nat
    BY <1>1, <1>8, SMT
  <2>6. a \in Nat
    BY <1>4, <1>5, <2>5
  <2> QED
    BY <2>4, <2>5, <2>6 DEF Address
<1>10. ASSUME g # Last PROVE SliceAt(g, a) = (t \div Run(g)) % Slices
  <2>0. Share \in Nat \ {0} /\ Run(g) = Share * P(g)
    BY <1>10, SliceExists, RunFacts DEF Run
  <2>1. a \div P(g) = q * F(g) + row /\ a \in Nat
    <3>1. ASSUME NEW m \in Nat \ {0}, NEW x \in Nat, NEW r \in 0 .. m - 1, a = x * m + r
          PROVE  a \div m = x /\ a \in Nat
      <4>1. (x * m + r) \div m = x
        BY DivModUnique
      <4>2. x * m + r \in Nat
        BY SMT
      <4> QED
        BY <3>1, <4>1, <4>2
    <3> QED
      BY ONLY <1>1, <1>4, <1>5, <1>8, <3>1
  <2>2. (q * F(g) + row) \div F(g) = q
    BY <1>1, <1>4, <1>5, DivModUnique
  <2>3. a \div P(g + 1) = q
    BY <1>1, <2>1, <2>2, DivTwice
  <2>4. t \div Run(g) = q \div Share
    <3>1. Share * P(g) = P(g) * Share
      BY <1>1, <2>0, SMT
    <3>2. t \div (P(g) * Share) = (t \div P(g)) \div Share
      BY <1>1, <1>3, <2>0, DivTwice
    <3> QED
      BY <1>6, <2>0, <3>1, <3>2
  <2> QED
    BY <2>3, <2>4 DEF SliceAt
<1> QED
  BY <1>9, <1>10

\* Every address is stored by some transform.
LEMMA EveryAddressStored ==
    ASSUME ValidFactors, Powers, NEW g \in Group, NEW a \in Address
    PROVE  \E t \in 0 .. (Batch * Independent(g)) - 1 : a \in Stores(g, t)
<1>1. /\ F(g) \in Nat \ {0} /\ P(g) \in Nat \ {0} /\ Rest(g) \in Nat \ {0} /\ Batch \in Nat \ {0} /\ N \in Nat \ {0}
      /\ Independent(g) = Rest(g) * P(g) /\ Independent(g) \in Nat \ {0}
      /\ N = Independent(g) * F(g)
  BY GroupSizes
<1>2. a \in Nat /\ a < Batch * N
  <2>1. Batch * N \in Nat
    BY <1>1, SMT
  <2> QED
    BY <2>1 DEF Address
<1>3. PICK c \in Nat, o \in 0 .. P(g) - 1 : a = c * P(g) + o
  <2>1. a \div P(g) \in Nat /\ a % P(g) \in 0 .. P(g) - 1 /\ a = (a \div P(g)) * P(g) + (a % P(g))
    BY <1>1, <1>2, DivMod
  <2> QED
    BY <2>1
<1>4. PICK q \in Nat, row \in 0 .. F(g) - 1 : c = q * F(g) + row
  <2>1. c \div F(g) \in Nat /\ c % F(g) \in 0 .. F(g) - 1 /\ c = (c \div F(g)) * F(g) + (c % F(g))
    BY <1>1, DivMod
  <2> QED
    BY <2>1
<1>5. Batch * Rest(g) \in Nat /\ (Batch * Rest(g)) * F(g) \in Nat
  BY <1>1, SMT
<1>6. c < (Batch * Rest(g)) * F(g)
  <2>1. ((Batch * Rest(g)) * F(g)) * P(g) = Batch * ((Rest(g) * P(g)) * F(g))
    BY <1>1, SMT
  <2>2. c * P(g) + o < ((Batch * Rest(g)) * F(g)) * P(g)
    BY <1>1, <1>2, <1>3, <2>1
  <2> QED
    BY <1>1, <1>3, <1>5, <2>2, BelowProduct
<1>7. q < Batch * Rest(g)
  BY <1>1, <1>4, <1>5, <1>6, BelowProduct
<1> DEFINE t == q * P(g) + o
<1>8. t \in 0 .. (Batch * Independent(g)) - 1 /\ t \in Nat
  <2>1. t < (Batch * Rest(g)) * P(g)
    BY <1>1, <1>3, <1>4, <1>5, <1>7, BelowProduct
  <2>2. (Batch * Rest(g)) * P(g) = Batch * (Rest(g) * P(g)) /\ (Batch * Rest(g)) * P(g) \in Nat
    BY <1>1, <1>5, SMT
  <2>3. t \in Nat
    BY <1>1, <1>3, <1>4, SMT
  <2> QED
    BY <1>1, <2>1, <2>2, <2>3
<1>9. t \div P(g) = q /\ t % P(g) = o
  BY <1>1, <1>3, <1>4, DivModUnique
<1> HIDE DEF t
<1>10. a \in Stores(g, t)
  BY <1>3, <1>4, <1>8, <1>9, StoredAddresses
<1> QED
  BY <1>8, <1>10

\* What a transform loads is in the array.  Behind the first group, its slice in the
\* predecessor's output is the slice of the transform.
LEMMA LoadsInSlice ==
    ASSUME ValidFactors, Powers, NEW g \in Group,
           NEW t \in 0 .. (Batch * Independent(g)) - 1, NEW a \in Loads(g, t)
    PROVE  /\ a \in Address
           /\ \A e \in Group : e + 1 = g /\ g # Last => SliceAt(e, a) = (t \div Run(g)) % Slices
<1>1. /\ F(g) \in Nat \ {0} /\ P(g) \in Nat \ {0} /\ Batch \in Nat \ {0} /\ N \in Nat \ {0}
      /\ Independent(g) \in Nat \ {0} /\ N = Independent(g) * F(g)
  BY GroupSizes
<1>2. Batch * Independent(g) \in Nat
  BY <1>1, SMT
<1>3. t \in Nat /\ t < Batch * Independent(g)
  BY <1>2
<1> DEFINE b == t \div Independent(g)
           k == t % Independent(g)
<1>4. b \in Nat /\ k \in 0 .. Independent(g) - 1 /\ t = b * Independent(g) + k
  BY <1>1, <1>3, DivMod
<1>5. PICK row \in 0 .. F(g) - 1 : a = b * N + row * Independent(g) + k
  BY DEF Loads, Base
<1> HIDE DEF b, k
<1>6. b < Batch
  BY <1>1, <1>3, <1>4, BelowProduct
<1>7. a = (b * F(g) + row) * Independent(g) + k /\ b * F(g) + row \in Nat /\ k \in Nat
  <2>1. b * (Independent(g) * F(g)) + row * Independent(g) + k = (b * F(g) + row) * Independent(g) + k
    BY <1>1, <1>4, SMT
  <2>2. b * F(g) + row \in Nat
    BY <1>1, <1>4, SMT
  <2> QED
    BY <1>1, <1>4, <1>5, <2>1, <2>2
<1>8. a \in Address
  <2>1. b * F(g) + row < Batch * F(g) /\ Batch * F(g) \in Nat
    <3>1. b * F(g) + row < Batch * F(g)
      BY <1>1, <1>4, <1>6, BelowProduct
    <3>2. Batch * F(g) \in Nat
      BY <1>1, SMT
    <3> QED
      BY <3>1, <3>2
  <2>2. (b * F(g) + row) * Independent(g) + k < (Batch * F(g)) * Independent(g)
    BY <1>1, <1>4, <1>7, <2>1, BelowProduct
  <2>3. (Batch * F(g)) * Independent(g) = Batch * (Independent(g) * F(g))
    BY <1>1, SMT
  <2>4. (b * F(g) + row) * Independent(g) \in Nat /\ Batch * N \in Nat
    BY <1>1, <1>7, SMT
  <2> QED
    BY <1>1, <1>7, <2>2, <2>3, <2>4 DEF Address
<1>9. ASSUME NEW e \in Group, e + 1 = g, g # Last
      PROVE  SliceAt(e, a) = (t \div Run(g)) % Slices
  <2>1. PICK z \in Nat \ {0} : Independent(g) = z * (Slices * Run(g))
    BY <1>9, SliceExists, RunFacts
  <2>2. Share \in Nat \ {0} /\ Run(g) \in Nat \ {0} /\ Run(g) = Share * P(g) /\ Slices \in Nat \ {0}
    BY <1>9, SliceExists, RunFacts, TileSizes DEF Run
  <2>3. ASSUME NEW x \in Nat PROVE ((x * Independent(g) + k) \div Run(g)) % Slices = (k \div Run(g)) % Slices
    <3>1. x * (z * (Slices * Run(g))) = (x * z) * (Slices * Run(g)) /\ x * z \in Nat
      BY <2>1, <2>2, SMT
    <3>2. (((x * z) * (Slices * Run(g)) + k) \div Run(g)) % Slices = (k \div Run(g)) % Slices
      BY <1>7, <2>2, <3>1, ResidueKept
    <3> QED
      BY <2>1, <3>1, <3>2
  <2>4. (a \div Run(g)) % Slices = (t \div Run(g)) % Slices
    BY <1>4, <1>7, <2>3
  <2>5. a \in Nat
    BY <1>1, <1>7, SMT
  <2>6. a \div Run(g) = (a \div P(g)) \div Share
    <3>1. Share * P(g) = P(g) * Share
      BY <1>1, <2>2, SMT
    <3>2. a \div (P(g) * Share) = (a \div P(g)) \div Share
      BY <1>1, <2>2, <2>5, DivTwice
    <3> QED
      BY <2>2, <3>1, <3>2
  <2> QED
    BY <1>9, <2>4, <2>6 DEF SliceAt
<1> QED
  BY <1>8, <1>9

----------------------------------------------------------------------------
(* The slices.                                                             *)

\* A slice of a group other than the last stores exactly its addresses, ...
LEMMA SliceWrites ==
    ASSUME ValidFactors, Powers, NEW g \in Group, g # Last, NEW s \in Slice
    PROVE  Writes[g][s] = {a \in Address : SliceAt(g, a) = s}
<1>1. ASSUME NEW a PROVE a \in Writes[g][s] <=> \E t \in Transforms(g, s) : a \in Stores(g, t)
  BY DEF Writes
<1>2. ASSUME NEW a, a \in Writes[g][s] PROVE a \in Address /\ SliceAt(g, a) = s
  <2>1. PICK t \in Transforms(g, s) : a \in Stores(g, t)
    BY <1>1, <1>2
  <2>2. t \in 0 .. (Batch * Independent(g)) - 1 /\ (t \div Run(g)) % Slices = s
    BY SliceTransforms
  <2> QED
    BY <2>1, <2>2, StoresInSlice
<1>3. ASSUME NEW a \in Address, SliceAt(g, a) = s PROVE a \in Writes[g][s]
  <2>1. PICK t \in 0 .. (Batch * Independent(g)) - 1 : a \in Stores(g, t)
    BY EveryAddressStored
  <2>2. (t \div Run(g)) % Slices = s
    BY <1>3, <2>1, StoresInSlice
  <2>3. t \in Transforms(g, s)
    BY <2>2, SliceTransforms
  <2> QED
    BY <1>1, <2>1, <2>3
<1> QED
  BY <1>2, <1>3

\* ... the last stores them all, ...
LEMMA LastWrites ==
    ASSUME ValidFactors, Powers, NEW s \in Slice
    PROVE  Writes[Last][s] = Address
<1>0. Last \in Group
  BY DEF ValidFactors, Groups, Group, Last
<1>1. ASSUME NEW a PROVE a \in Writes[Last][s] <=> \E t \in Transforms(Last, s) : a \in Stores(Last, t)
  BY <1>0 DEF Writes
<1>2. ASSUME NEW a, a \in Writes[Last][s] PROVE a \in Address
  <2>1. PICK t \in Transforms(Last, s) : a \in Stores(Last, t)
    BY <1>1, <1>2
  <2>2. t \in 0 .. (Batch * Independent(Last)) - 1
    BY LastTransforms
  <2> QED
    BY <1>0, <2>1, <2>2, StoresInSlice
<1>3. ASSUME NEW a \in Address PROVE a \in Writes[Last][s]
  <2>1. PICK t \in 0 .. (Batch * Independent(Last)) - 1 : a \in Stores(Last, t)
    BY <1>0, EveryAddressStored
  <2>2. t \in Transforms(Last, s)
    BY LastTransforms
  <2> QED
    BY <1>1, <2>1, <2>2
<1> QED
  BY <1>2, <1>3

\* ... and a slice loads from the same slice of the predecessor.
LEMMA SliceReads ==
    ASSUME ValidFactors, Powers, NEW g \in Group, NEW s \in Slice
    PROVE  /\ Reads[g][s] \subseteq Address
           /\ \A e \in Group : e + 1 = g /\ g # Last => Reads[g][s] \subseteq Writes[e][s]
<1>1. ASSUME NEW a \in Reads[g][s]
      PROVE  \E t \in 0 .. (Batch * Independent(g)) - 1 :
                a \in Loads(g, t) /\ (g # Last => (t \div Run(g)) % Slices = s)
  <2>1. PICK t \in Transforms(g, s) : a \in Loads(g, t)
    BY DEF Reads
  <2>2. t \in 0 .. (Batch * Independent(g)) - 1 /\ (g # Last => (t \div Run(g)) % Slices = s)
    <3>1. CASE g = Last
      BY <3>1, LastTransforms
    <3>2. CASE g # Last
      BY <3>2, SliceTransforms
    <3> QED
      BY <3>1, <3>2
  <2> QED
    BY <2>1, <2>2
<1>2. Reads[g][s] \subseteq Address
  BY <1>1, LoadsInSlice
<1>3. ASSUME NEW e \in Group, e + 1 = g, g # Last PROVE Reads[g][s] \subseteq Writes[e][s]
  <2>1. e # Last
    BY <1>3 DEF Group, Last
  <2>2. Writes[e][s] = {a \in Address : SliceAt(e, a) = s}
    BY <2>1, SliceWrites
  <2>3. ASSUME NEW a \in Reads[g][s] PROVE a \in Address /\ SliceAt(e, a) = s
    BY <1>1, <1>3, LoadsInSlice
  <2> QED
    BY <2>2, <2>3
<1> QED
  BY <1>2, <1>3

\* The pipeline that runs such a plan.
Pipe == INSTANCE FactorPipeline WITH
    Plans <- {}, Caller <- {}, Invocations <- 1, plan <- <<>>, Stream <- {}, Event <- {},
    queue <- <<>>, completed <- {}, host <- {}, invocation <- 1, failed <- {}, running <- {},
    scratch <- {}, input <- {}, output <- {}, recorded <- <<>>

\* The slices that factor_tile_range chooses are closed under the dependencies of the
\* factors (factor_pipeline.cuh:7-10), whatever the factorisation, columns, slices and
\* batch: what FactorPipeline's results and buffers rest on (EveryResultReady,
\* BuffersExclusive).
THEOREM SlicesClosed ==
    ASSUME ValidFactors, Powers, NEW mayFail
    PROVE  Pipe!DependencyClosed(Plan(mayFail))
<1>1. PICK p : /\ p = Plan(mayFail)
               /\ p.groups = Groups /\ p.slices = Slices /\ p.addresses = Address
               /\ p.reads = Reads /\ p.writes = Writes
  <2> DEFINE q == Plan(mayFail)
  <2>1. /\ q.groups = Groups /\ q.slices = Slices /\ q.addresses = Address
        /\ q.reads = Reads /\ q.writes = Writes
    BY DEF Plan
  <2>2. q = Plan(mayFail)
    OBVIOUS
  <2> HIDE DEF q
  <2> QED
    BY ONLY <2>1, <2>2
<1>2. /\ Groups \in Nat /\ Groups >= 2 /\ Group = 0 .. Groups - 1 /\ Last = Groups - 1
      /\ Slice = 0 .. Slices - 1 /\ Last \in Group /\ Last - 1 \in Group
  BY DEF ValidFactors, Groups, Group, Last, Slice
<1>3. ASSUME NEW g \in Group, NEW s \in Slice PROVE Writes[g][s] \subseteq Address
  <2>1. CASE g = Last
    BY <2>1, LastWrites
  <2>2. CASE g # Last
    <3>1. Writes[g][s] = {a \in Address : SliceAt(g, a) = s}
      BY <2>2, SliceWrites
    <3> QED
      BY <3>1
  <2> QED
    BY <2>1, <2>2
<1>4. Reads \in [Group -> [Slice -> SUBSET Address]]
  <2>1. \A g \in Group, s \in Slice : UNION {Loads(g, t) : t \in Transforms(g, s)} = Reads[g][s]
    BY DEF Reads
  <2>2. \A g \in Group, s \in Slice : UNION {Loads(g, t) : t \in Transforms(g, s)} \in SUBSET Address
    BY <2>1, SliceReads
  <2> QED
    BY <2>2 DEF Reads
<1>5. Writes \in [Group -> [Slice -> SUBSET Address]]
  <2>1. \A g \in Group, s \in Slice : UNION {Stores(g, t) : t \in Transforms(g, s)} = Writes[g][s]
    BY DEF Writes
  <2>2. \A g \in Group, s \in Slice : UNION {Stores(g, t) : t \in Transforms(g, s)} \in SUBSET Address
    BY <1>3, <2>1
  <2> QED
    BY <2>2 DEF Writes
<1>6. ASSUME NEW e \in 0 .. Groups - 2, NEW s \in Slice, NEW t \in Slice, s # t
      PROVE  Writes[e][s] \cap Writes[e][t] = {}
  <2>1. e \in Group /\ e # Last
    BY <1>2
  <2>2. Writes[e][s] = {a \in Address : SliceAt(e, a) = s} /\ Writes[e][t] = {a \in Address : SliceAt(e, a) = t}
    BY <2>1, SliceWrites
  <2> QED
    BY <1>6, <2>2
<1>7. ASSUME NEW e \in 0 .. Groups - 3, NEW s \in Slice
      PROVE  Reads[e + 1][s] \subseteq Writes[e][s]
  <2>1. e \in Group /\ e + 1 \in Group /\ e + 1 # Last
    BY <1>2
  <2> QED
    BY <2>1, SliceReads
<1>8. ASSUME NEW a \in Reads[Groups - 1][0] PROVE \E s \in Slice : a \in Writes[Groups - 2][s]
  <2>1. 0 \in Slice /\ Groups - 1 \in Group
    BY <1>2, SliceExists
  <2>2. a \in Address
    BY <2>1, SliceReads
  <2>3. Groups - 2 \in Group /\ Groups - 2 # Last
    BY <1>2
  <2>4. PICK t \in 0 .. (Batch * Independent(Groups - 2)) - 1 : a \in Stores(Groups - 2, t)
    BY <2>2, <2>3, EveryAddressStored
  <2>5. SliceAt(Groups - 2, a) \in Slice
    <3>1. a \in Nat
      BY <2>2 DEF Address
    <3>2. P((Groups - 2) + 1) \in Nat \ {0} /\ Share \in Nat \ {0} /\ Slices \in Nat \ {0}
      <4>1. (Groups - 2) + 1 = Groups - 1
        BY <1>2
      <4>2. P(Groups - 1) \in Nat \ {0}
        BY <2>1, GroupSizes
      <4> QED
        BY <2>1, <2>3, <4>1, <4>2, RunFacts, TileSizes
    <3>3. a \div P((Groups - 2) + 1) \in Nat
      BY <3>1, <3>2, DivMod
    <3>4. (a \div P((Groups - 2) + 1)) \div Share \in Nat
      BY <3>2, <3>3, DivMod
    <3>5. ((a \div P((Groups - 2) + 1)) \div Share) % Slices \in 0 .. Slices - 1
      BY <3>2, <3>4, DivMod
    <3> QED
      BY <3>5 DEF SliceAt, Slice
  <2> QED
    BY <2>2, <2>3, <2>5, SliceWrites
<1>9. Writes[Groups - 1][0] = Address
  BY <1>2, SliceExists, LastWrites
<1>10. Pipe!DependencyClosed(p)
  BY <1>1, <1>2, <1>4, <1>5, <1>6, <1>7, <1>8, <1>9 DEF Pipe!DependencyClosed
<1> QED
  BY <1>1, <1>10

=============================================================================
