------------------------ MODULE StageCalibrationProofs ------------------------
(***************************************************************************)
(* What a stage calibration never loses, for any plans, calls, curve       *)
(* models and number of setbacks: the audit files a checkpoint names are   *)
(* on disk before it is, no probe, request or description leaves the       *)
(* checkpoint, and no load that has a result is timed again.               *)
(*                                                                         *)
(* The checkpoint alone does not show it: the driver works on a copy for   *)
(* the length of a call.  The invariant StageInv relates the two.  While a *)
(* call holds a document, that document has every row, request and         *)
(* description of the one on disk (Evident), no other row as long as it    *)
(* measures (so that what it has seen is what the disk has seen), a        *)
(* configuration for every key it is to visit (KeysKnown), and, once the   *)
(* audit files are written, it is the document they were written for       *)
(* (Filing).                                                               *)
(*                                                                         *)
(* The documents are made by folds: configurations are filed one after     *)
(* another, rows are appended unless their content is known, holdouts are  *)
(* checked again in order.  For every fold there is a lemma that unrolls   *)
(* it (a sequence of intermediate results), and what a fold keeps is       *)
(* proved by induction on the length of that sequence.                     *)
(***************************************************************************)
EXTENDS StageCalibration, TLAPS, FiniteSetTheorems, SequenceTheorems,
        WellFoundedInduction

----------------------------------------------------------------------------
(* Folds.                                                                  *)

\* Induction, over a set of numbers.
LEMMA SetInduction ==
    ASSUME NEW S, 0 \in S, \A n \in Nat : n \in S => n + 1 \in S
    PROVE  \A n \in Nat : n \in S
<1> DEFINE Bad == Nat \ S
           Less == OpToRel(<, Nat)
<1>1. SUFFICES ASSUME Bad # {} PROVE FALSE
  OBVIOUS
<1>2. \A a, b \in Nat : a < b => <<a, b>> \in Less
  BY DEF OpToRel
<1>3. IsWellFoundedOn(Less, Nat)
  BY NatLessThanWellFounded
<1> HIDE DEF Less
<1>4. PICK n \in Bad : \A m \in Bad : <<m, n>> \notin Less
  BY <1>1, <1>3, WFMin
<1>5. n \in Nat /\ n # 0
  OBVIOUS
<1>6. n - 1 \in Nat /\ (n - 1) + 1 = n /\ n - 1 < n
  BY <1>5
<1>7. n - 1 \notin Bad
  BY <1>2, <1>4, <1>5, <1>6
<1> QED
  BY <1>4, <1>6, <1>7

\* The largest number of a bounded set.
LEMMA LargestIsMax ==
    ASSUME NEW m \in Nat, NEW s \in SUBSET (1 .. m + 1), m + 1 \in s
    PROVE  Max(s) = m + 1
<1>1. \A y \in s : y \in Int /\ m + 1 >= y
  OBVIOUS
<1>2. \E x \in s : \A y \in s : x >= y
  BY <1>1
<1>3. Max(s) \in s /\ \A y \in s : Max(s) >= y
  BY <1>2 DEF Max
<1>4. Max(s) >= m + 1
  BY <1>3
<1>5. Max(s) \in Int /\ m + 1 >= Max(s)
  BY <1>1, <1>3
<1> QED
  BY <1>4, <1>5

LEMMA MaxIsElement ==
    ASSUME NEW m \in Nat, NEW s \in SUBSET (1 .. m), s # {}
    PROVE  Max(s) \in s
<1> DEFINE S == {n \in Nat : \A t \in SUBSET (1 .. n) : t # {} => \E x \in t : \A y \in t : x >= y}
<1>1. 0 \in S
  <2>1. 1 .. 0 = {}
    OBVIOUS
  <2> QED
    BY <2>1
<1>2. \A n \in Nat : n \in S => n + 1 \in S
  <2> SUFFICES ASSUME NEW n \in Nat, n \in S, NEW t \in SUBSET (1 .. n + 1), t # {}
               PROVE  \E x \in t : \A y \in t : x >= y
    OBVIOUS
  <2>1. CASE n + 1 \in t
    BY <2>1
  <2>2. CASE n + 1 \notin t
    <3>1. t \in SUBSET (1 .. n)
      BY <2>2
    <3> QED
      BY <3>1
  <2> QED
    BY <2>1, <2>2
<1>3. m \in S
  <2> HIDE DEF S
  <2> QED
    BY <1>1, <1>2, SetInduction
<1>4. \E x \in s : \A y \in s : x >= y
  BY <1>3
<1> QED
  BY <1>4 DEF Max


\* A fold unrolled: g[m] is what it has made of the first m elements.
LEMMA FiledFold ==
    ASSUME NEW base, NEW seq, NEW n \in Nat, DOMAIN seq = 1 .. n
    PROVE  \E g : /\ g[0] = base
                  /\ \A m \in 0 .. n - 1 : g[m + 1] = Filed(g[m], seq[m + 1])
                  /\ FiledAll(base, seq) = g[n]
<1> DEFINE IsFold(h, m) ==
              h = [s \in SUBSET (1 .. m) |->
                     IF s = {} THEN base ELSE Filed(h[s \ {Max(s)}], seq[Max(s)])]
           Folds == {m \in Nat : \E h : IsFold(h, m)}
<1>1. 0 \in Folds
  <2> DEFINE h == [s \in SUBSET (1 .. 0) |-> base]
  <2>1. 1 .. 0 = {}
    OBVIOUS
  <2>2. h = [s \in SUBSET (1 .. 0) |->
               IF s = {} THEN base ELSE Filed(h[s \ {Max(s)}], seq[Max(s)])]
    BY <2>1
  <2> QED
    BY <2>2
<1>2. \A m \in Nat : m \in Folds => m + 1 \in Folds
  <2> SUFFICES ASSUME NEW m \in Nat, m \in Folds PROVE m + 1 \in Folds
    OBVIOUS
  <2>1. PICK h : IsFold(h, m)
    OBVIOUS
  <2> DEFINE k == [s \in SUBSET (1 .. m + 1) |->
                     IF m + 1 \in s THEN Filed(h[s \ {m + 1}], seq[m + 1]) ELSE h[s]]
  <2>2. ASSUME NEW s \in SUBSET (1 .. m + 1), s # {}
        PROVE  k[s] = Filed(k[s \ {Max(s)}], seq[Max(s)])
    <3>1. CASE m + 1 \in s
      <4>1. Max(s) = m + 1
        BY <2>2, <3>1, LargestIsMax
      <4>2. s \ {m + 1} \in SUBSET (1 .. m) /\ s \ {m + 1} \in SUBSET (1 .. m + 1)
        BY <2>2
      <4>3. k[s \ {m + 1}] = h[s \ {m + 1}]
        BY <4>2
      <4> QED
        BY <3>1, <4>1, <4>3
    <3>2. CASE m + 1 \notin s
      <4>1. s \in SUBSET (1 .. m)
        BY <2>2, <3>2
      <4>2. Max(s) \in s
        BY <2>2, <4>1, MaxIsElement
      <4>3. s \ {Max(s)} \in SUBSET (1 .. m + 1) /\ m + 1 \notin s \ {Max(s)}
        BY <3>2
      <4>4. k[s \ {Max(s)}] = h[s \ {Max(s)}]
        BY <4>3
      <4>5. h[s] = Filed(h[s \ {Max(s)}], seq[Max(s)])
        BY <2>1, <2>2, <4>1
      <4> QED
        BY <3>2, <4>4, <4>5
    <3> QED
      BY <3>1, <3>2
  <2>3. k[{}] = base
    <3>1. {} \in SUBSET (1 .. m) /\ {} \in SUBSET (1 .. m + 1) /\ m + 1 \notin {}
      OBVIOUS
    <3>2. h[{}] = base
      BY <2>1, <3>1
    <3> QED
      BY <3>1, <3>2
  <2>4. IsFold(k, m + 1)
    <3>1. \A s \in SUBSET (1 .. m + 1) :
             k[s] = IF s = {} THEN base ELSE Filed(k[s \ {Max(s)}], seq[Max(s)])
      BY <2>2, <2>3
    <3>2. k = [s \in SUBSET (1 .. m + 1) |-> k[s]]
      OBVIOUS
    <3> HIDE DEF k
    <3>3. k = [s \in SUBSET (1 .. m + 1) |->
                 IF s = {} THEN base ELSE Filed(k[s \ {Max(s)}], seq[Max(s)])]
      BY <3>1, <3>2, Zenon
    <3> QED
      BY <3>3
  <2> HIDE DEF IsFold, k
  <2> QED
    BY <2>4
<1>3. \E h : IsFold(h, n)
  <2> HIDE DEF IsFold
  <2>1. n \in Folds
    <3> HIDE DEF Folds
    <3> QED
      BY <1>1, <1>2, SetInduction
  <2> QED
    BY <2>1
<1> DEFINE h == CHOOSE h : IsFold(h, n)
<1>4. IsFold(h, n)
  <2> HIDE DEF IsFold
  <2> QED
    BY <1>3
<1>5. FiledAll(base, seq) = h[DOMAIN seq]
  BY DEF FiledAll, FoldLeft, MapThenFoldSet
<1>6. h[{}] = base
  <2> HIDE DEF h
  <2> QED
    BY <1>4
<1>7. ASSUME NEW m \in 0 .. n - 1
      PROVE  h[1 .. m + 1] = Filed(h[1 .. m], seq[m + 1])
  <2>0. n \in Nat /\ m \in Nat /\ m + 1 <= n /\ m + 1 \in 1 .. m + 1
    OBVIOUS
  <2>1. 1 .. m + 1 \in SUBSET (1 .. n) /\ 1 .. m + 1 # {}
    BY ONLY <2>0
  <2>2. m \in Nat /\ m + 1 \in 1 .. m + 1 /\ 1 .. m + 1 \in SUBSET (1 .. m + 1)
    OBVIOUS
  <2>3. Max(1 .. m + 1) = m + 1
    BY ONLY <2>2, LargestIsMax
  <2>4. (1 .. m + 1) \ {m + 1} = 1 .. m
    BY ONLY <2>2
  <2> HIDE DEF h
  <2> QED
    BY <1>4, <2>1, <2>3, <2>4
<1> DEFINE g == [m \in 0 .. n |-> h[1 .. m]]
<1>8. g[0] = base /\ g[n] = FiledAll(base, seq)
  <2>1. 0 \in 0 .. n /\ n \in 0 .. n /\ 1 .. 0 = {}
    OBVIOUS
  <2> HIDE DEF h
  <2> QED
    BY <1>5, <1>6, <2>1
<1>9. \A m \in 0 .. n - 1 : g[m + 1] = Filed(g[m], seq[m + 1])
  <2> HIDE DEF h
  <2> QED
    BY <1>7
<1> HIDE DEF g
<1> QED
  BY <1>8, <1>9

LEMMA MergedFold ==
    ASSUME NEW base, NEW seq, NEW n \in Nat, DOMAIN seq = 1 .. n
    PROVE  \E g : /\ g[0] = base
                  /\ \A m \in 0 .. n - 1 : g[m + 1] = MergedWith(g[m], seq[m + 1])
                  /\ AllMerged(base, seq) = g[n]
<1> DEFINE IsFold(h, m) ==
              h = [s \in SUBSET (1 .. m) |->
                     IF s = {} THEN base ELSE MergedWith(h[s \ {Max(s)}], seq[Max(s)])]
           Folds == {m \in Nat : \E h : IsFold(h, m)}
<1>1. 0 \in Folds
  <2> DEFINE h == [s \in SUBSET (1 .. 0) |-> base]
  <2>1. 1 .. 0 = {}
    OBVIOUS
  <2>2. h = [s \in SUBSET (1 .. 0) |->
               IF s = {} THEN base ELSE MergedWith(h[s \ {Max(s)}], seq[Max(s)])]
    BY <2>1
  <2> QED
    BY <2>2
<1>2. \A m \in Nat : m \in Folds => m + 1 \in Folds
  <2> SUFFICES ASSUME NEW m \in Nat, m \in Folds PROVE m + 1 \in Folds
    OBVIOUS
  <2>1. PICK h : IsFold(h, m)
    OBVIOUS
  <2> DEFINE k == [s \in SUBSET (1 .. m + 1) |->
                     IF m + 1 \in s THEN MergedWith(h[s \ {m + 1}], seq[m + 1]) ELSE h[s]]
  <2>2. ASSUME NEW s \in SUBSET (1 .. m + 1), s # {}
        PROVE  k[s] = MergedWith(k[s \ {Max(s)}], seq[Max(s)])
    <3>1. CASE m + 1 \in s
      <4>1. Max(s) = m + 1
        BY <2>2, <3>1, LargestIsMax
      <4>2. s \ {m + 1} \in SUBSET (1 .. m) /\ s \ {m + 1} \in SUBSET (1 .. m + 1)
        BY <2>2
      <4>3. k[s \ {m + 1}] = h[s \ {m + 1}]
        BY <4>2
      <4> QED
        BY <3>1, <4>1, <4>3
    <3>2. CASE m + 1 \notin s
      <4>1. s \in SUBSET (1 .. m)
        BY <2>2, <3>2
      <4>2. Max(s) \in s
        BY <2>2, <4>1, MaxIsElement
      <4>3. s \ {Max(s)} \in SUBSET (1 .. m + 1) /\ m + 1 \notin s \ {Max(s)}
        BY <3>2
      <4>4. k[s \ {Max(s)}] = h[s \ {Max(s)}]
        BY <4>3
      <4>5. h[s] = MergedWith(h[s \ {Max(s)}], seq[Max(s)])
        BY <2>1, <2>2, <4>1
      <4> QED
        BY <3>2, <4>4, <4>5
    <3> QED
      BY <3>1, <3>2
  <2>3. k[{}] = base
    <3>1. {} \in SUBSET (1 .. m) /\ {} \in SUBSET (1 .. m + 1) /\ m + 1 \notin {}
      OBVIOUS
    <3>2. h[{}] = base
      BY <2>1, <3>1
    <3> QED
      BY <3>1, <3>2
  <2>4. IsFold(k, m + 1)
    <3>1. \A s \in SUBSET (1 .. m + 1) :
             k[s] = IF s = {} THEN base ELSE MergedWith(k[s \ {Max(s)}], seq[Max(s)])
      BY <2>2, <2>3
    <3>2. k = [s \in SUBSET (1 .. m + 1) |-> k[s]]
      OBVIOUS
    <3> HIDE DEF k
    <3>3. k = [s \in SUBSET (1 .. m + 1) |->
                 IF s = {} THEN base ELSE MergedWith(k[s \ {Max(s)}], seq[Max(s)])]
      BY <3>1, <3>2, Zenon
    <3> QED
      BY <3>3
  <2> HIDE DEF IsFold, k
  <2> QED
    BY <2>4
<1>3. \E h : IsFold(h, n)
  <2> HIDE DEF IsFold
  <2>1. n \in Folds
    <3> HIDE DEF Folds
    <3> QED
      BY <1>1, <1>2, SetInduction
  <2> QED
    BY <2>1
<1> DEFINE h == CHOOSE h : IsFold(h, n)
<1>4. IsFold(h, n)
  <2> HIDE DEF IsFold
  <2> QED
    BY <1>3
<1>5. AllMerged(base, seq) = h[DOMAIN seq]
  BY DEF AllMerged, FoldLeft, MapThenFoldSet
<1>6. h[{}] = base
  <2> HIDE DEF h
  <2> QED
    BY <1>4
<1>7. ASSUME NEW m \in 0 .. n - 1
      PROVE  h[1 .. m + 1] = MergedWith(h[1 .. m], seq[m + 1])
  <2>0. n \in Nat /\ m \in Nat /\ m + 1 <= n /\ m + 1 \in 1 .. m + 1
    OBVIOUS
  <2>1. 1 .. m + 1 \in SUBSET (1 .. n) /\ 1 .. m + 1 # {}
    BY ONLY <2>0
  <2>2. m \in Nat /\ m + 1 \in 1 .. m + 1 /\ 1 .. m + 1 \in SUBSET (1 .. m + 1)
    OBVIOUS
  <2>3. Max(1 .. m + 1) = m + 1
    BY ONLY <2>2, LargestIsMax
  <2>4. (1 .. m + 1) \ {m + 1} = 1 .. m
    BY ONLY <2>2
  <2> HIDE DEF h
  <2> QED
    BY <1>4, <2>1, <2>3, <2>4
<1> DEFINE g == [m \in 0 .. n |-> h[1 .. m]]
<1>8. g[0] = base /\ g[n] = AllMerged(base, seq)
  <2>1. 0 \in 0 .. n /\ n \in 0 .. n /\ 1 .. 0 = {}
    OBVIOUS
  <2> HIDE DEF h
  <2> QED
    BY <1>5, <1>6, <2>1
<1>9. \A m \in 0 .. n - 1 : g[m + 1] = MergedWith(g[m], seq[m + 1])
  <2> HIDE DEF h
  <2> QED
    BY <1>7
<1> HIDE DEF g
<1> QED
  BY <1>8, <1>9

LEMMA RebuiltFold ==
    ASSUME NEW base, NEW seq, NEW n \in Nat, DOMAIN seq = 1 .. n
    PROVE  \E g : /\ g[0] = base
                  /\ \A m \in 0 .. n - 1 : g[m + 1] = RebuiltWith(g[m], seq[m + 1])
                  /\ AllRebuilt(base, seq) = g[n]
<1> DEFINE IsFold(h, m) ==
              h = [s \in SUBSET (1 .. m) |->
                     IF s = {} THEN base ELSE RebuiltWith(h[s \ {Max(s)}], seq[Max(s)])]
           Folds == {m \in Nat : \E h : IsFold(h, m)}
<1>1. 0 \in Folds
  <2> DEFINE h == [s \in SUBSET (1 .. 0) |-> base]
  <2>1. 1 .. 0 = {}
    OBVIOUS
  <2>2. h = [s \in SUBSET (1 .. 0) |->
               IF s = {} THEN base ELSE RebuiltWith(h[s \ {Max(s)}], seq[Max(s)])]
    BY <2>1
  <2> QED
    BY <2>2
<1>2. \A m \in Nat : m \in Folds => m + 1 \in Folds
  <2> SUFFICES ASSUME NEW m \in Nat, m \in Folds PROVE m + 1 \in Folds
    OBVIOUS
  <2>1. PICK h : IsFold(h, m)
    OBVIOUS
  <2> DEFINE k == [s \in SUBSET (1 .. m + 1) |->
                     IF m + 1 \in s THEN RebuiltWith(h[s \ {m + 1}], seq[m + 1]) ELSE h[s]]
  <2>2. ASSUME NEW s \in SUBSET (1 .. m + 1), s # {}
        PROVE  k[s] = RebuiltWith(k[s \ {Max(s)}], seq[Max(s)])
    <3>1. CASE m + 1 \in s
      <4>1. Max(s) = m + 1
        BY <2>2, <3>1, LargestIsMax
      <4>2. s \ {m + 1} \in SUBSET (1 .. m) /\ s \ {m + 1} \in SUBSET (1 .. m + 1)
        BY <2>2
      <4>3. k[s \ {m + 1}] = h[s \ {m + 1}]
        BY <4>2
      <4> QED
        BY <3>1, <4>1, <4>3
    <3>2. CASE m + 1 \notin s
      <4>1. s \in SUBSET (1 .. m)
        BY <2>2, <3>2
      <4>2. Max(s) \in s
        BY <2>2, <4>1, MaxIsElement
      <4>3. s \ {Max(s)} \in SUBSET (1 .. m + 1) /\ m + 1 \notin s \ {Max(s)}
        BY <3>2
      <4>4. k[s \ {Max(s)}] = h[s \ {Max(s)}]
        BY <4>3
      <4>5. h[s] = RebuiltWith(h[s \ {Max(s)}], seq[Max(s)])
        BY <2>1, <2>2, <4>1
      <4> QED
        BY <3>2, <4>4, <4>5
    <3> QED
      BY <3>1, <3>2
  <2>3. k[{}] = base
    <3>1. {} \in SUBSET (1 .. m) /\ {} \in SUBSET (1 .. m + 1) /\ m + 1 \notin {}
      OBVIOUS
    <3>2. h[{}] = base
      BY <2>1, <3>1
    <3> QED
      BY <3>1, <3>2
  <2>4. IsFold(k, m + 1)
    <3>1. \A s \in SUBSET (1 .. m + 1) :
             k[s] = IF s = {} THEN base ELSE RebuiltWith(k[s \ {Max(s)}], seq[Max(s)])
      BY <2>2, <2>3
    <3>2. k = [s \in SUBSET (1 .. m + 1) |-> k[s]]
      OBVIOUS
    <3> HIDE DEF k
    <3>3. k = [s \in SUBSET (1 .. m + 1) |->
                 IF s = {} THEN base ELSE RebuiltWith(k[s \ {Max(s)}], seq[Max(s)])]
      BY <3>1, <3>2, Zenon
    <3> QED
      BY <3>3
  <2> HIDE DEF IsFold, k
  <2> QED
    BY <2>4
<1>3. \E h : IsFold(h, n)
  <2> HIDE DEF IsFold
  <2>1. n \in Folds
    <3> HIDE DEF Folds
    <3> QED
      BY <1>1, <1>2, SetInduction
  <2> QED
    BY <2>1
<1> DEFINE h == CHOOSE h : IsFold(h, n)
<1>4. IsFold(h, n)
  <2> HIDE DEF IsFold
  <2> QED
    BY <1>3
<1>5. AllRebuilt(base, seq) = h[DOMAIN seq]
  BY DEF AllRebuilt, FoldLeft, MapThenFoldSet
<1>6. h[{}] = base
  <2> HIDE DEF h
  <2> QED
    BY <1>4
<1>7. ASSUME NEW m \in 0 .. n - 1
      PROVE  h[1 .. m + 1] = RebuiltWith(h[1 .. m], seq[m + 1])
  <2>0. n \in Nat /\ m \in Nat /\ m + 1 <= n /\ m + 1 \in 1 .. m + 1
    OBVIOUS
  <2>1. 1 .. m + 1 \in SUBSET (1 .. n) /\ 1 .. m + 1 # {}
    BY ONLY <2>0
  <2>2. m \in Nat /\ m + 1 \in 1 .. m + 1 /\ 1 .. m + 1 \in SUBSET (1 .. m + 1)
    OBVIOUS
  <2>3. Max(1 .. m + 1) = m + 1
    BY ONLY <2>2, LargestIsMax
  <2>4. (1 .. m + 1) \ {m + 1} = 1 .. m
    BY ONLY <2>2
  <2> HIDE DEF h
  <2> QED
    BY <1>4, <2>1, <2>3, <2>4
<1> DEFINE g == [m \in 0 .. n |-> h[1 .. m]]
<1>8. g[0] = base /\ g[n] = AllRebuilt(base, seq)
  <2>1. 0 \in 0 .. n /\ n \in 0 .. n /\ 1 .. 0 = {}
    OBVIOUS
  <2> HIDE DEF h
  <2> QED
    BY <1>5, <1>6, <2>1
<1>9. \A m \in 0 .. n - 1 : g[m + 1] = RebuiltWith(g[m], seq[m + 1])
  <2> HIDE DEF h
  <2> QED
    BY <1>7
<1> HIDE DEF g
<1> QED
  BY <1>8, <1>9

LEMMA UniqueFold ==
    ASSUME NEW base, NEW seq, NEW n \in Nat, DOMAIN seq = 1 .. n
    PROVE  \E g : /\ g[0] = base
                  /\ \A m \in 0 .. n - 1 : g[m + 1] = WithRow(g[m], seq[m + 1])
                  /\ AppendUnique(base, seq) = g[n]
<1> DEFINE IsFold(h, m) ==
              h = [s \in SUBSET (1 .. m) |->
                     IF s = {} THEN base ELSE WithRow(h[s \ {Max(s)}], seq[Max(s)])]
           Folds == {m \in Nat : \E h : IsFold(h, m)}
<1>1. 0 \in Folds
  <2> DEFINE h == [s \in SUBSET (1 .. 0) |-> base]
  <2>1. 1 .. 0 = {}
    OBVIOUS
  <2>2. h = [s \in SUBSET (1 .. 0) |->
               IF s = {} THEN base ELSE WithRow(h[s \ {Max(s)}], seq[Max(s)])]
    BY <2>1
  <2> QED
    BY <2>2
<1>2. \A m \in Nat : m \in Folds => m + 1 \in Folds
  <2> SUFFICES ASSUME NEW m \in Nat, m \in Folds PROVE m + 1 \in Folds
    OBVIOUS
  <2>1. PICK h : IsFold(h, m)
    OBVIOUS
  <2> DEFINE k == [s \in SUBSET (1 .. m + 1) |->
                     IF m + 1 \in s THEN WithRow(h[s \ {m + 1}], seq[m + 1]) ELSE h[s]]
  <2>2. ASSUME NEW s \in SUBSET (1 .. m + 1), s # {}
        PROVE  k[s] = WithRow(k[s \ {Max(s)}], seq[Max(s)])
    <3>1. CASE m + 1 \in s
      <4>1. Max(s) = m + 1
        BY <2>2, <3>1, LargestIsMax
      <4>2. s \ {m + 1} \in SUBSET (1 .. m) /\ s \ {m + 1} \in SUBSET (1 .. m + 1)
        BY <2>2
      <4>3. k[s \ {m + 1}] = h[s \ {m + 1}]
        BY <4>2
      <4> QED
        BY <3>1, <4>1, <4>3
    <3>2. CASE m + 1 \notin s
      <4>1. s \in SUBSET (1 .. m)
        BY <2>2, <3>2
      <4>2. Max(s) \in s
        BY <2>2, <4>1, MaxIsElement
      <4>3. s \ {Max(s)} \in SUBSET (1 .. m + 1) /\ m + 1 \notin s \ {Max(s)}
        BY <3>2
      <4>4. k[s \ {Max(s)}] = h[s \ {Max(s)}]
        BY <4>3
      <4>5. h[s] = WithRow(h[s \ {Max(s)}], seq[Max(s)])
        BY <2>1, <2>2, <4>1
      <4> QED
        BY <3>2, <4>4, <4>5
    <3> QED
      BY <3>1, <3>2
  <2>3. k[{}] = base
    <3>1. {} \in SUBSET (1 .. m) /\ {} \in SUBSET (1 .. m + 1) /\ m + 1 \notin {}
      OBVIOUS
    <3>2. h[{}] = base
      BY <2>1, <3>1
    <3> QED
      BY <3>1, <3>2
  <2>4. IsFold(k, m + 1)
    <3>1. \A s \in SUBSET (1 .. m + 1) :
             k[s] = IF s = {} THEN base ELSE WithRow(k[s \ {Max(s)}], seq[Max(s)])
      BY <2>2, <2>3
    <3>2. k = [s \in SUBSET (1 .. m + 1) |-> k[s]]
      OBVIOUS
    <3> HIDE DEF k
    <3>3. k = [s \in SUBSET (1 .. m + 1) |->
                 IF s = {} THEN base ELSE WithRow(k[s \ {Max(s)}], seq[Max(s)])]
      BY <3>1, <3>2, Zenon
    <3> QED
      BY <3>3
  <2> HIDE DEF IsFold, k
  <2> QED
    BY <2>4
<1>3. \E h : IsFold(h, n)
  <2> HIDE DEF IsFold
  <2>1. n \in Folds
    <3> HIDE DEF Folds
    <3> QED
      BY <1>1, <1>2, SetInduction
  <2> QED
    BY <2>1
<1> DEFINE h == CHOOSE h : IsFold(h, n)
<1>4. IsFold(h, n)
  <2> HIDE DEF IsFold
  <2> QED
    BY <1>3
<1>5. AppendUnique(base, seq) = h[DOMAIN seq]
  BY DEF AppendUnique, FoldLeft, MapThenFoldSet
<1>6. h[{}] = base
  <2> HIDE DEF h
  <2> QED
    BY <1>4
<1>7. ASSUME NEW m \in 0 .. n - 1
      PROVE  h[1 .. m + 1] = WithRow(h[1 .. m], seq[m + 1])
  <2>0. n \in Nat /\ m \in Nat /\ m + 1 <= n /\ m + 1 \in 1 .. m + 1
    OBVIOUS
  <2>1. 1 .. m + 1 \in SUBSET (1 .. n) /\ 1 .. m + 1 # {}
    BY ONLY <2>0
  <2>2. m \in Nat /\ m + 1 \in 1 .. m + 1 /\ 1 .. m + 1 \in SUBSET (1 .. m + 1)
    OBVIOUS
  <2>3. Max(1 .. m + 1) = m + 1
    BY ONLY <2>2, LargestIsMax
  <2>4. (1 .. m + 1) \ {m + 1} = 1 .. m
    BY ONLY <2>2
  <2> HIDE DEF h
  <2> QED
    BY <1>4, <2>1, <2>3, <2>4
<1> DEFINE g == [m \in 0 .. n |-> h[1 .. m]]
<1>8. g[0] = base /\ g[n] = AppendUnique(base, seq)
  <2>1. 0 \in 0 .. n /\ n \in 0 .. n /\ 1 .. 0 = {}
    OBVIOUS
  <2> HIDE DEF h
  <2> QED
    BY <1>5, <1>6, <2>1
<1>9. \A m \in 0 .. n - 1 : g[m + 1] = WithRow(g[m], seq[m + 1])
  <2> HIDE DEF h
  <2> QED
    BY <1>7
<1> HIDE DEF g
<1> QED
  BY <1>8, <1>9

LEMMA JudgedFold ==
    ASSUME NEW v, NEW base, NEW seq, NEW n \in Nat, DOMAIN seq = 1 .. n
    PROVE  \E g : /\ g[0] = base
                  /\ \A m \in 0 .. n - 1 : g[m + 1] = Rejudged(v, g[m], seq[m + 1])
                  /\ AllRejudged(v, base, seq) = g[n]
<1> DEFINE IsFold(h, m) ==
              h = [s \in SUBSET (1 .. m) |->
                     IF s = {} THEN base ELSE Rejudged(v, h[s \ {Max(s)}], seq[Max(s)])]
           Folds == {m \in Nat : \E h : IsFold(h, m)}
<1>1. 0 \in Folds
  <2> DEFINE h == [s \in SUBSET (1 .. 0) |-> base]
  <2>1. 1 .. 0 = {}
    OBVIOUS
  <2>2. h = [s \in SUBSET (1 .. 0) |->
               IF s = {} THEN base ELSE Rejudged(v, h[s \ {Max(s)}], seq[Max(s)])]
    BY <2>1
  <2> QED
    BY <2>2
<1>2. \A m \in Nat : m \in Folds => m + 1 \in Folds
  <2> SUFFICES ASSUME NEW m \in Nat, m \in Folds PROVE m + 1 \in Folds
    OBVIOUS
  <2>1. PICK h : IsFold(h, m)
    OBVIOUS
  <2> DEFINE k == [s \in SUBSET (1 .. m + 1) |->
                     IF m + 1 \in s THEN Rejudged(v, h[s \ {m + 1}], seq[m + 1]) ELSE h[s]]
  <2>2. ASSUME NEW s \in SUBSET (1 .. m + 1), s # {}
        PROVE  k[s] = Rejudged(v, k[s \ {Max(s)}], seq[Max(s)])
    <3>1. CASE m + 1 \in s
      <4>1. Max(s) = m + 1
        BY <2>2, <3>1, LargestIsMax
      <4>2. s \ {m + 1} \in SUBSET (1 .. m) /\ s \ {m + 1} \in SUBSET (1 .. m + 1)
        BY <2>2
      <4>3. k[s \ {m + 1}] = h[s \ {m + 1}]
        BY <4>2
      <4> QED
        BY <3>1, <4>1, <4>3
    <3>2. CASE m + 1 \notin s
      <4>1. s \in SUBSET (1 .. m)
        BY <2>2, <3>2
      <4>2. Max(s) \in s
        BY <2>2, <4>1, MaxIsElement
      <4>3. s \ {Max(s)} \in SUBSET (1 .. m + 1) /\ m + 1 \notin s \ {Max(s)}
        BY <3>2
      <4>4. k[s \ {Max(s)}] = h[s \ {Max(s)}]
        BY <4>3
      <4>5. h[s] = Rejudged(v, h[s \ {Max(s)}], seq[Max(s)])
        BY <2>1, <2>2, <4>1
      <4> QED
        BY <3>2, <4>4, <4>5
    <3> QED
      BY <3>1, <3>2
  <2>3. k[{}] = base
    <3>1. {} \in SUBSET (1 .. m) /\ {} \in SUBSET (1 .. m + 1) /\ m + 1 \notin {}
      OBVIOUS
    <3>2. h[{}] = base
      BY <2>1, <3>1
    <3> QED
      BY <3>1, <3>2
  <2>4. IsFold(k, m + 1)
    <3>1. \A s \in SUBSET (1 .. m + 1) :
             k[s] = IF s = {} THEN base ELSE Rejudged(v, k[s \ {Max(s)}], seq[Max(s)])
      BY <2>2, <2>3
    <3>2. k = [s \in SUBSET (1 .. m + 1) |-> k[s]]
      OBVIOUS
    <3> HIDE DEF k
    <3>3. k = [s \in SUBSET (1 .. m + 1) |->
                 IF s = {} THEN base ELSE Rejudged(v, k[s \ {Max(s)}], seq[Max(s)])]
      BY <3>1, <3>2, Zenon
    <3> QED
      BY <3>3
  <2> HIDE DEF IsFold, k
  <2> QED
    BY <2>4
<1>3. \E h : IsFold(h, n)
  <2> HIDE DEF IsFold
  <2>1. n \in Folds
    <3> HIDE DEF Folds
    <3> QED
      BY <1>1, <1>2, SetInduction
  <2> QED
    BY <2>1
<1> DEFINE h == CHOOSE h : IsFold(h, n)
<1>4. IsFold(h, n)
  <2> HIDE DEF IsFold
  <2> QED
    BY <1>3
<1>5. AllRejudged(v, base, seq) = h[DOMAIN seq]
  BY DEF AllRejudged, FoldLeft, MapThenFoldSet
<1>6. h[{}] = base
  <2> HIDE DEF h
  <2> QED
    BY <1>4
<1>7. ASSUME NEW m \in 0 .. n - 1
      PROVE  h[1 .. m + 1] = Rejudged(v, h[1 .. m], seq[m + 1])
  <2>0. n \in Nat /\ m \in Nat /\ m + 1 <= n /\ m + 1 \in 1 .. m + 1
    OBVIOUS
  <2>1. 1 .. m + 1 \in SUBSET (1 .. n) /\ 1 .. m + 1 # {}
    BY ONLY <2>0
  <2>2. m \in Nat /\ m + 1 \in 1 .. m + 1 /\ 1 .. m + 1 \in SUBSET (1 .. m + 1)
    OBVIOUS
  <2>3. Max(1 .. m + 1) = m + 1
    BY ONLY <2>2, LargestIsMax
  <2>4. (1 .. m + 1) \ {m + 1} = 1 .. m
    BY ONLY <2>2
  <2> HIDE DEF h
  <2> QED
    BY <1>4, <2>1, <2>3, <2>4
<1> DEFINE g == [m \in 0 .. n |-> h[1 .. m]]
<1>8. g[0] = base /\ g[n] = AllRejudged(v, base, seq)
  <2>1. 0 \in 0 .. n /\ n \in 0 .. n /\ 1 .. 0 = {}
    OBVIOUS
  <2> HIDE DEF h
  <2> QED
    BY <1>5, <1>6, <2>1
<1>9. \A m \in 0 .. n - 1 : g[m + 1] = Rejudged(v, g[m], seq[m + 1])
  <2> HIDE DEF h
  <2> QED
    BY <1>7
<1> HIDE DEF g
<1> QED
  BY <1>8, <1>9

----------------------------------------------------------------------------
(* Configurations.                                                         *)

Description == [status : {"none", "resolved", "rejected"}, batch : Nat, room : Nat]

\* What the proofs need to know of a configuration.
ConfigurationOK(c) ==
    /\ DOMAIN c = {"key", "point", "description", "requested", "loads", "seeds", "holdout",
                   "intervals", "reuse", "omitted"}
    /\ c.point \in Points /\ c.description \in Description /\ c.loads \subseteq Nat

IsSequence(s) == s \in Seq({s[i] : i \in DOMAIN s})
ConfigurationsOK(s) == IsSequence(s) /\ \A i \in DOMAIN s : ConfigurationOK(s[i])
DescriptionsOK(described) == described \in [Points -> Description]

LEMMA SequenceMake ==
    ASSUME NEW s, NEW n \in Nat, s = [i \in 1 .. n |-> s[i]]
    PROVE  IsSequence(s) /\ DOMAIN s = 1 .. n /\ Len(s) = n
<1>1. DOMAIN s = 1 .. n
  OBVIOUS
<1>2. \A i \in 1 .. n : s[i] \in {s[j] : j \in DOMAIN s}
  BY <1>1
<1>3. s \in Seq({s[i] : i \in DOMAIN s})
  BY <1>1, <1>2
<1> QED
  BY <1>1, <1>3 DEF IsSequence

LEMMA SequenceAppend ==
    ASSUME NEW s, NEW x, IsSequence(s)
    PROVE  /\ IsSequence(Append(s, x))
           /\ DOMAIN s = 1 .. Len(s) /\ Len(s) \in Nat
           /\ DOMAIN Append(s, x) = 1 .. Len(s) + 1
           /\ Len(Append(s, x)) = Len(s) + 1
           /\ \A i \in DOMAIN s : Append(s, x)[i] = s[i]
           /\ Append(s, x)[Len(s) + 1] = x
<1> DEFINE T == {s[i] : i \in DOMAIN s} \cup {x}
<1>1. s \in Seq(T)
  BY DEF IsSequence
<1>2. Append(s, x) \in Seq(T) /\ Len(Append(s, x)) = Len(s) + 1 /\ Len(s) \in Nat
  BY <1>1
<1>3. /\ DOMAIN s = 1 .. Len(s)
      /\ DOMAIN Append(s, x) = 1 .. Len(s) + 1
      /\ \A i \in DOMAIN s : Append(s, x)[i] = s[i]
      /\ Append(s, x)[Len(s) + 1] = x
  BY <1>1
<1> HIDE DEF T
<1>4. ASSUME NEW a, a \in Seq(T), NEW n \in Nat, Len(a) = n + 1
      PROVE  a = [i \in 1 .. n + 1 |-> a[i]]
  <2>1. a \in [1 .. n + 1 -> T]
    BY ONLY <1>4
  <2> QED
    BY ONLY <2>1
<1>5. IsSequence(Append(s, x))
  <2>1. Append(s, x) = [i \in 1 .. Len(s) + 1 |-> Append(s, x)[i]]
    BY <1>2, <1>4
  <2>2. Len(s) + 1 \in Nat
    BY <1>2
  <2> QED
    BY <2>1, <2>2, SequenceMake
<1> QED
  BY <1>2, <1>3, <1>5

LEMMA ConfigurationsAppend ==
    ASSUME NEW s, NEW c, ConfigurationsOK(s), ConfigurationOK(c)
    PROVE  ConfigurationsOK(Append(s, c))
<1>1. IsSequence(s) /\ \A i \in DOMAIN s : ConfigurationOK(s[i])
  BY DEF ConfigurationsOK
<1>2. ASSUME NEW i \in DOMAIN Append(s, c) PROVE ConfigurationOK(Append(s, c)[i])
  <2>1. i \in DOMAIN s \/ i = Len(s) + 1
    BY <1>1, <1>2, SequenceAppend
  <2> QED
    BY <1>1, <2>1, SequenceAppend
<1> QED
  BY <1>1, <1>2, SequenceAppend DEF ConfigurationsOK

\* A sequence made position by position.
LEMMA SequenceMap ==
    ASSUME NEW s, IsSequence(s), NEW t, t = [i \in DOMAIN s |-> t[i]]
    PROVE  IsSequence(t) /\ DOMAIN t = DOMAIN s /\ Len(t) = Len(s)
<1>1. DOMAIN s = 1 .. Len(s) /\ Len(s) \in Nat
  BY SequenceAppend
<1> QED
  BY <1>1, SequenceMake

LEMMA CandidateOK ==
    ASSUME NEW v, NEW p \in Points, NEW d \in Description
    PROVE  ConfigurationOK(Candidate(v, p, d))
<1> DEFINE c == Candidate(v, p, d)
<1>1. LegalTop(d) \in Nat
  BY DEF LegalTop, Description
<1>2. WaveLoads(p, LegalTop(d)) \subseteq Nat
  BY <1>1, CalibrationAssumption DEF WaveLoads
<1>3. c.loads \subseteq WaveLoads(p, LegalTop(d))
  BY DEF Candidate
<1>4. DOMAIN c = {"key", "point", "description", "requested", "loads", "seeds", "holdout",
                  "intervals", "reuse", "omitted"} /\ c.point = p /\ c.description = d
  BY DEF Candidate
<1> HIDE DEF c
<1>5. ConfigurationOK(c)
  BY <1>2, <1>3, <1>4 DEF ConfigurationOK
<1> QED
  BY <1>5 DEF c

LEMMA MergeOK ==
    ASSUME NEW old, NEW new, ConfigurationOK(old), ConfigurationOK(new)
    PROVE  ConfigurationOK(MergeCandidate(old, new)) /\ ConfigurationOK(MergeMetadata(old, new))
<1>1. ConfigurationOK(MergeCandidate(old, new))
  BY DEF ConfigurationOK, MergeCandidate
<1>2. ConfigurationOK(MergeMetadata(old, new))
  BY DEF ConfigurationOK, MergeMetadata
<1> QED
  BY <1>1, <1>2

LEMMA FiledOK ==
    ASSUME NEW s, NEW c, ConfigurationsOK(s), ConfigurationOK(c)
    PROVE  ConfigurationsOK(Filed(s, c))
<1>1. CASE \E i \in DOMAIN s : s[i].key = c.key
  <2> DEFINE t == [i \in DOMAIN s |-> IF s[i].key = c.key THEN MergeCandidate(s[i], c) ELSE s[i]]
  <2>1. Filed(s, c) = t
    BY <1>1 DEF Filed
  <2>2. \A i \in DOMAIN s : ConfigurationOK(t[i])
    BY MergeOK DEF ConfigurationsOK
  <2>3. t = [i \in DOMAIN s |-> t[i]]
    OBVIOUS
  <2> HIDE DEF t
  <2>4. IsSequence(t) /\ DOMAIN t = DOMAIN s
    BY <2>3, SequenceMap DEF ConfigurationsOK
  <2> QED
    BY <2>1, <2>2, <2>4 DEF ConfigurationsOK
<1>2. CASE ~ \E i \in DOMAIN s : s[i].key = c.key
  BY <1>2, ConfigurationsAppend DEF Filed
<1> QED
  BY <1>1, <1>2

LEMMA MergedWithOK ==
    ASSUME NEW s, NEW c, ConfigurationsOK(s), ConfigurationOK(c)
    PROVE  ConfigurationsOK(MergedWith(s, c))
<1>1. CASE \E i \in DOMAIN s : s[i].key = c.key
  <2> DEFINE t == [i \in DOMAIN s |-> IF s[i].key = c.key THEN MergeMetadata(s[i], c) ELSE s[i]]
  <2>1. MergedWith(s, c) = t
    BY <1>1 DEF MergedWith
  <2>2. \A i \in DOMAIN s : ConfigurationOK(t[i])
    BY MergeOK DEF ConfigurationsOK
  <2>3. t = [i \in DOMAIN s |-> t[i]]
    OBVIOUS
  <2> HIDE DEF t
  <2>4. IsSequence(t) /\ DOMAIN t = DOMAIN s
    BY <2>3, SequenceMap DEF ConfigurationsOK
  <2> QED
    BY <2>1, <2>2, <2>4 DEF ConfigurationsOK
<1>2. CASE ~ \E i \in DOMAIN s : s[i].key = c.key
  BY <1>2, ConfigurationsAppend DEF MergedWith
<1> QED
  BY <1>1, <1>2

LEMMA RebuiltWithOK ==
    ASSUME NEW s, NEW c, ConfigurationsOK(s), ConfigurationOK(c)
    PROVE  ConfigurationsOK(RebuiltWith(s, c))
  BY ConfigurationsAppend DEF RebuiltWith

\* Replacing a configuration.
LEMMA UpdatedOK ==
    ASSUME NEW doc, NEW c, ConfigurationsOK(doc.candidates), ConfigurationOK(c),
           "candidates" \in DOMAIN doc
    PROVE  /\ ConfigurationsOK(Updated(doc, c).candidates)
           /\ DOMAIN Updated(doc, c) = DOMAIN doc
           /\ \A f \in DOMAIN doc : f # "candidates" => Updated(doc, c)[f] = doc[f]
           /\ DOMAIN Updated(doc, c).candidates = DOMAIN doc.candidates
           /\ \A i \in DOMAIN doc.candidates :
                 Updated(doc, c).candidates[i].key = doc.candidates[i].key
<1> DEFINE s == doc.candidates
           t == [i \in DOMAIN s |-> IF s[i].key = c.key THEN c ELSE s[i]]
<1>1. Updated(doc, c) = [doc EXCEPT !.candidates = t]
  BY DEF Updated
<1>2. \A i \in DOMAIN s : ConfigurationOK(t[i]) /\ t[i].key = s[i].key
  BY DEF ConfigurationsOK
<1>3. t = [i \in DOMAIN s |-> t[i]] /\ DOMAIN t = DOMAIN s
  OBVIOUS
<1>4. Updated(doc, c).candidates = t /\ DOMAIN Updated(doc, c) = DOMAIN doc
      /\ \A f \in DOMAIN doc : f # "candidates" => Updated(doc, c)[f] = doc[f]
  BY <1>1
<1> HIDE DEF t
<1>5. IsSequence(t)
  BY <1>3, SequenceMap DEF ConfigurationsOK
<1> QED
  BY <1>2, <1>3, <1>4, <1>5 DEF ConfigurationsOK

\* The configurations after the filing of others.
LEMMA FiledAllOK ==
    ASSUME NEW base, NEW seq, NEW n \in Nat, DOMAIN seq = 1 .. n,
           ConfigurationsOK(base), \A i \in 1 .. n : ConfigurationOK(seq[i])
    PROVE  ConfigurationsOK(FiledAll(base, seq))
<1> SUFFICES ASSUME NEW r, r = FiledAll(base, seq) PROVE ConfigurationsOK(r)
  OBVIOUS
<1>1. PICK g : /\ g[0] = base
               /\ \A m \in 0 .. n - 1 : g[m + 1] = Filed(g[m], seq[m + 1])
               /\ r = g[n]
  BY ONLY n \in Nat, DOMAIN seq = 1 .. n, r = FiledAll(base, seq), FiledFold
<1> DEFINE Good == {m \in Nat : m <= n => ConfigurationsOK(g[m])}
<1>2. 0 \in Good
  BY <1>1
<1>3. \A m \in Nat : m \in Good => m + 1 \in Good
  <2> SUFFICES ASSUME NEW m \in Nat, m \in Good, m + 1 <= n PROVE ConfigurationsOK(g[m + 1])
    OBVIOUS
  <2>1. m \in 0 .. n - 1 /\ m + 1 \in 1 .. n /\ m <= n
    OBVIOUS
  <2> QED
    BY <1>1, <2>1, FiledOK
<1> HIDE DEF Good
<1>4. n \in Good
  BY <1>2, <1>3, SetInduction
<1> QED
  BY <1>1, <1>4 DEF Good

LEMMA MergedFoldOK ==
    ASSUME NEW base, NEW seq, NEW n \in Nat, DOMAIN seq = 1 .. n,
           ConfigurationsOK(base), \A i \in 1 .. n : ConfigurationOK(seq[i])
    PROVE  ConfigurationsOK(AllMerged(base, seq))
<1> SUFFICES ASSUME NEW r, r = AllMerged(base, seq) PROVE ConfigurationsOK(r)
  OBVIOUS
<1>1. PICK g : /\ g[0] = base
               /\ \A m \in 0 .. n - 1 : g[m + 1] = MergedWith(g[m], seq[m + 1])
               /\ r = g[n]
  BY ONLY n \in Nat, DOMAIN seq = 1 .. n, r = AllMerged(base, seq), MergedFold
<1> DEFINE Good == {m \in Nat : m <= n => ConfigurationsOK(g[m])}
<1>2. 0 \in Good
  BY <1>1
<1>3. \A m \in Nat : m \in Good => m + 1 \in Good
  <2> SUFFICES ASSUME NEW m \in Nat, m \in Good, m + 1 <= n PROVE ConfigurationsOK(g[m + 1])
    OBVIOUS
  <2>1. m \in 0 .. n - 1 /\ m + 1 \in 1 .. n /\ m <= n
    OBVIOUS
  <2> QED
    BY <1>1, <2>1, MergedWithOK
<1> HIDE DEF Good
<1>4. n \in Good
  BY <1>2, <1>3, SetInduction
<1> QED
  BY <1>1, <1>4 DEF Good

LEMMA RebuiltFoldOK ==
    ASSUME NEW base, NEW seq, NEW n \in Nat, DOMAIN seq = 1 .. n,
           ConfigurationsOK(base), \A i \in 1 .. n : ConfigurationOK(seq[i])
    PROVE  ConfigurationsOK(AllRebuilt(base, seq))
<1> SUFFICES ASSUME NEW r, r = AllRebuilt(base, seq) PROVE ConfigurationsOK(r)
  OBVIOUS
<1>1. PICK g : /\ g[0] = base
               /\ \A m \in 0 .. n - 1 : g[m + 1] = RebuiltWith(g[m], seq[m + 1])
               /\ r = g[n]
  BY ONLY n \in Nat, DOMAIN seq = 1 .. n, r = AllRebuilt(base, seq), RebuiltFold
<1> DEFINE Good == {m \in Nat : m <= n => ConfigurationsOK(g[m])}
<1>2. 0 \in Good
  BY <1>1
<1>3. \A m \in Nat : m \in Good => m + 1 \in Good
  <2> SUFFICES ASSUME NEW m \in Nat, m \in Good, m + 1 <= n PROVE ConfigurationsOK(g[m + 1])
    OBVIOUS
  <2>1. m \in 0 .. n - 1 /\ m + 1 \in 1 .. n /\ m <= n
    OBVIOUS
  <2> QED
    BY <1>1, <2>1, RebuiltWithOK
<1> HIDE DEF Good
<1>4. n \in Good
  BY <1>2, <1>3, SetInduction
<1> QED
  BY <1>1, <1>4 DEF Good

\* The described plans as a sequence.
LEMMA PlansAsSequence ==
    ASSUME NEW S \in SUBSET Points
    PROVE  \E n \in Nat : SetToSeq(S) \in [1 .. n -> S]
<1>1. IsFiniteSet(S)
  BY FS_Subset, CalibrationAssumption
<1>2. Cardinality(S) \in Nat /\ IsFiniteSet(1 .. Cardinality(S))
      /\ Cardinality(1 .. Cardinality(S)) = Cardinality(S)
  BY <1>1, FS_CardinalityType, FS_Interval
<1>3. PICK f : f \in Bijection(1 .. Cardinality(S), S)
  BY <1>1, <1>2, FS_SameCardinalityBij DEF ExistsBijection
<1>4. f \in [1 .. Cardinality(S) -> S] /\ IsInjective(f)
  BY <1>3 DEF Bijection, Injection, IsInjective
<1>5. SetToSeq(S) \in [1 .. Cardinality(S) -> S]
  BY <1>4 DEF SetToSeq
<1> QED
  BY <1>2, <1>5

LEMMA NoConfigurations == ConfigurationsOK(<<>>)
<1>1. <<>> \in Seq({})
  OBVIOUS
<1>2. DOMAIN <<>> = {}
  OBVIOUS
<1> QED
  BY <1>1, <1>2 DEF ConfigurationsOK, IsSequence

\* The configurations of the descriptions.
LEMMA DescribedCandidates ==
    ASSUME NEW v, NEW described, DescriptionsOK(described)
    PROVE  LET plans == SetToSeq(Described(described))
               more == [n \in DOMAIN plans |-> Candidate(v, plans[n], described[plans[n]])]
           IN  \E n \in Nat : DOMAIN more = 1 .. n /\ \A i \in 1 .. n : ConfigurationOK(more[i])
<1> DEFINE plans == SetToSeq(Described(described))
           more == [n \in DOMAIN plans |-> Candidate(v, plans[n], described[plans[n]])]
<1>1. Described(described) \in SUBSET Points
  BY DEF Described
<1>2. PICK n \in Nat : plans \in [1 .. n -> Described(described)]
  BY <1>1, PlansAsSequence
<1>3. \A i \in 1 .. n : plans[i] \in Points /\ described[plans[i]] \in Description
  BY <1>1, <1>2 DEF DescriptionsOK
<1>4. DOMAIN more = 1 .. n
  BY <1>2
<1>5. \A i \in 1 .. n : more[i] = Candidate(v, plans[i], described[plans[i]])
  BY <1>2
<1> HIDE DEF more, plans
<1>6. \A i \in 1 .. n : ConfigurationOK(more[i])
  BY <1>3, <1>5, CandidateOK
<1>7. \E k \in Nat : DOMAIN more = 1 .. k /\ \A i \in 1 .. k : ConfigurationOK(more[i])
  BY <1>4, <1>6
<1> QED
  BY <1>7 DEF more, plans

LEMMA RefiledOK ==
    ASSUME NEW v, NEW s, ConfigurationsOK(s), NEW described, DescriptionsOK(described)
    PROVE  ConfigurationsOK(Refiled(v, s, described))
<1> DEFINE plans == SetToSeq(Described(described))
           more == [n \in DOMAIN plans |-> Candidate(v, plans[n], described[plans[n]])]
<1>1. PICK n \in Nat : DOMAIN more = 1 .. n /\ \A i \in 1 .. n : ConfigurationOK(more[i])
  BY DescribedCandidates
<1>2. Refiled(v, s, described) = FiledAll(s, more)
  BY DEF Refiled
<1> HIDE DEF more
<1> QED
  BY <1>1, <1>2, FiledAllOK

LEMMA MergeCandidatesOK ==
    ASSUME NEW v, NEW s, ConfigurationsOK(s), NEW t, ConfigurationsOK(t),
           NEW described, DescriptionsOK(described)
    PROVE  ConfigurationsOK(MergeCandidates(v, s, t, described))
<1> DEFINE plans == SetToSeq(Described(described))
           more == [n \in DOMAIN plans |-> Candidate(v, plans[n], described[plans[n]])]
           both == s \o t
           current == [i \in DOMAIN both |-> Current(both[i], described)]
<1>1. PICK n \in Nat : DOMAIN more = 1 .. n /\ \A i \in 1 .. n : ConfigurationOK(more[i])
  BY DescribedCandidates
<1>2. MergeCandidates(v, s, t, described) = AllRebuilt(MergedAll(both, described), more)
  BY DEF MergeCandidates
<1>3. MergedAll(both, described) = AllMerged(<<>>, current)
  BY DEF MergedAll
<1> HIDE DEF more, plans
<1>4. /\ Len(s) \in Nat /\ DOMAIN s = 1 .. Len(s)
      /\ Len(t) \in Nat /\ DOMAIN t = 1 .. Len(t)
  BY SequenceAppend DEF ConfigurationsOK
<1>5. /\ DOMAIN both = 1 .. Len(s) + Len(t)
      /\ \A i \in 1 .. Len(s) : both[i] = s[i]
      /\ \A i \in Len(s) + 1 .. Len(s) + Len(t) : both[i] = t[i - Len(s)]
  <2> DEFINE T == {s[i] : i \in DOMAIN s} \cup {t[i] : i \in DOMAIN t}
  <2>1. s \in Seq(T) /\ t \in Seq(T)
    BY DEF ConfigurationsOK, IsSequence
  <2> HIDE DEF T
  <2> QED
    BY <2>1
<1> HIDE DEF both
<1>6. \A i \in 1 .. Len(s) + Len(t) : ConfigurationOK(both[i])
  <2> SUFFICES ASSUME NEW i \in 1 .. Len(s) + Len(t) PROVE ConfigurationOK(both[i])
    OBVIOUS
  <2>1. CASE i \in 1 .. Len(s)
    BY <1>4, <1>5, <2>1 DEF ConfigurationsOK
  <2>2. CASE i \in Len(s) + 1 .. Len(s) + Len(t)
    <3>1. i - Len(s) \in DOMAIN t
      BY <1>4, <2>2
    <3> QED
      BY <1>5, <2>2, <3>1 DEF ConfigurationsOK
  <2> QED
    BY <1>4, <2>1, <2>2
<1>7. \A i \in 1 .. Len(s) + Len(t) : ConfigurationOK(Current(both[i], described))
  BY <1>6 DEF ConfigurationOK, Current, DescriptionsOK
<1>8. Len(s) + Len(t) \in Nat /\ DOMAIN current = 1 .. Len(s) + Len(t)
      /\ \A i \in 1 .. Len(s) + Len(t) : ConfigurationOK(current[i])
  BY <1>4, <1>5, <1>7
<1> HIDE DEF current
<1>9. ConfigurationsOK(MergedAll(both, described))
  BY <1>3, <1>8, NoConfigurations, MergedFoldOK
<1> QED
  BY <1>1, <1>2, <1>9, RebuiltFoldOK

----------------------------------------------------------------------------
(* Rows.                                                                   *)

RowOK(row) ==
    DOMAIN row = {"point", "candidate", "batch", "role", "status", "correct", "roles",
                  "times", "checks", "probe"}
RowsOK(rows) == IsSequence(rows) /\ \A i \in DOMAIN rows : RowOK(rows[i])

\* The probes of a journal, and what does not change when rows are checked again.
ProbesIn(rows) == {rows[i].probe : i \in DOMAIN rows}
SameProbe(a, b) ==
    a.probe = b.probe /\ a.batch = b.batch /\ a.status = b.status /\ a.candidate = b.candidate
SameProbes(a, b) == DOMAIN a = DOMAIN b /\ \A i \in DOMAIN a : SameProbe(a[i], b[i])

LEMMA SameProbesIn ==
    ASSUME NEW a, NEW b, SameProbes(a, b)
    PROVE  ProbesIn(b) = ProbesIn(a)
<1>1. DOMAIN a = DOMAIN b /\ \A i \in DOMAIN a : a[i].probe = b[i].probe
  BY DEF SameProbes, SameProbe
<1>2. \A p : p \in ProbesIn(b) <=> p \in ProbesIn(a)
  BY <1>1 DEF ProbesIn
<1> QED
  BY <1>2 DEF ProbesIn

LEMMA RowsAppend ==
    ASSUME NEW rows, NEW row, RowsOK(rows), RowOK(row)
    PROVE  RowsOK(Append(rows, row))
<1>1. IsSequence(rows) /\ \A i \in DOMAIN rows : RowOK(rows[i])
  BY DEF RowsOK
<1>2. ASSUME NEW i \in DOMAIN Append(rows, row) PROVE RowOK(Append(rows, row)[i])
  <2>1. i \in DOMAIN rows \/ i = Len(rows) + 1
    BY <1>1, <1>2, SequenceAppend
  <2> QED
    BY <1>1, <2>1, SequenceAppend
<1> QED
  BY <1>1, <1>2, SequenceAppend DEF RowsOK

\* The check of a holdout changes its checks and roles only.
LEMMA AdaptiveKeeps ==
    ASSUME NEW v, NEW rows, RowsOK(rows), NEW r \in DOMAIN rows
    PROVE  /\ RowsOK(AdaptiveValidation(v, rows, r))
           /\ SameProbes(rows, AdaptiveValidation(v, rows, r))
<1>1. ASSUME NEW checks, NEW roles,
             NEW t, t = [rows EXCEPT ![r].checks = checks, ![r].roles = roles]
      PROVE  RowsOK(t) /\ SameProbes(rows, t)
  <2>1. t = [rows EXCEPT ![r] = [[rows[r] EXCEPT !.checks = checks] EXCEPT !.roles = roles]]
    BY <1>1
  <2>2. DOMAIN t = DOMAIN rows /\ \A i \in DOMAIN rows : i # r => t[i] = rows[i]
    BY <2>1
  <2>3. t[r] = [[rows[r] EXCEPT !.checks = checks] EXCEPT !.roles = roles]
    BY <2>1
  <2>4. RowOK(t[r]) /\ SameProbe(rows[r], t[r])
    BY <2>3 DEF RowOK, SameProbe, RowsOK
  <2>5. t = [i \in DOMAIN rows |-> t[i]]
    BY <2>1
  <2>6. IsSequence(t)
    BY <2>5, SequenceMap DEF RowsOK
  <2>7. \A i \in DOMAIN rows : RowOK(t[i]) /\ SameProbe(rows[i], t[i])
    BY <2>2, <2>4 DEF RowsOK, SameProbe
  <2> QED
    BY <2>2, <2>6, <2>7 DEF RowsOK, SameProbes
<1>2. ASSUME NEW checks, NEW t, t = [rows EXCEPT ![r].checks = checks]
      PROVE  RowsOK(t) /\ SameProbes(rows, t)
  <2>1. t = [rows EXCEPT ![r] = [rows[r] EXCEPT !.checks = checks]]
    BY <1>2
  <2>2. DOMAIN t = DOMAIN rows /\ \A i \in DOMAIN rows : i # r => t[i] = rows[i]
    BY <2>1
  <2>3. t[r] = [rows[r] EXCEPT !.checks = checks]
    BY <2>1
  <2>4. RowOK(t[r]) /\ SameProbe(rows[r], t[r])
    BY <2>3 DEF RowOK, SameProbe, RowsOK
  <2>5. t = [i \in DOMAIN rows |-> t[i]]
    BY <2>1
  <2>6. IsSequence(t)
    BY <2>5, SequenceMap DEF RowsOK
  <2>7. \A i \in DOMAIN rows : RowOK(t[i]) /\ SameProbe(rows[i], t[i])
    BY <2>2, <2>4 DEF RowsOK, SameProbe
  <2> QED
    BY <2>2, <2>6, <2>7 DEF RowsOK, SameProbes
<1> DEFINE t == AdaptiveValidation(v, rows, r)
<1>3. \/ \E checks, roles : t = [rows EXCEPT ![r].checks = checks, ![r].roles = roles]
      \/ \E checks : t = [rows EXCEPT ![r].checks = checks]
  BY DEF AdaptiveValidation
<1> HIDE DEF t
<1>4. RowsOK(t) /\ SameProbes(rows, t)
  BY <1>1, <1>2, <1>3
<1> QED
  BY <1>4 DEF t

LEMMA RejudgedKeeps ==
    ASSUME NEW v, NEW rows, RowsOK(rows), NEW r \in DOMAIN rows
    PROVE  RowsOK(Rejudged(v, rows, r)) /\ SameProbes(rows, Rejudged(v, rows, r))
  BY AdaptiveKeeps DEF Rejudged, SameProbes, SameProbe

LEMMA JudgedKeeps ==
    ASSUME NEW v, NEW rows, RowsOK(rows)
    PROVE  RowsOK(Judged(v, rows)) /\ SameProbes(rows, Judged(v, rows))
<1> DEFINE seq == [r \in DOMAIN rows |-> r]
           n == Len(rows)
<1>1. n \in Nat /\ DOMAIN rows = 1 .. n
  BY SequenceAppend DEF RowsOK
<1>2. DOMAIN seq = 1 .. n /\ \A i \in 1 .. n : seq[i] = i
  BY <1>1
<1> SUFFICES ASSUME NEW t, t = AllRejudged(v, rows, seq) PROVE RowsOK(t) /\ SameProbes(rows, t)
  BY DEF Judged
<1> HIDE DEF seq, n
<1>3. PICK g : /\ g[0] = rows
               /\ \A m \in 0 .. n - 1 : g[m + 1] = Rejudged(v, g[m], seq[m + 1])
               /\ t = g[n]
  BY ONLY <1>1, <1>2, t = AllRejudged(v, rows, seq), JudgedFold
<1> DEFINE Good == {m \in Nat : m <= n => RowsOK(g[m]) /\ SameProbes(rows, g[m])}
<1>4. 0 \in Good
  BY <1>3 DEF SameProbes, SameProbe
<1>5. \A m \in Nat : m \in Good => m + 1 \in Good
  <2> SUFFICES ASSUME NEW m \in Nat, m \in Good, m + 1 <= n
               PROVE  RowsOK(g[m + 1]) /\ SameProbes(rows, g[m + 1])
    OBVIOUS
  <2>1. m \in 0 .. n - 1 /\ m + 1 \in 1 .. n /\ m <= n
    BY <1>1
  <2>2. RowsOK(g[m]) /\ SameProbes(rows, g[m])
    BY <2>1
  <2>3. m + 1 \in DOMAIN g[m]
    BY <1>1, <2>1, <2>2 DEF SameProbes
  <2>4. g[m + 1] = Rejudged(v, g[m], m + 1)
    BY <1>2, <1>3, <2>1
  <2>5. RowsOK(g[m + 1]) /\ SameProbes(g[m], g[m + 1])
    BY <2>2, <2>3, <2>4, RejudgedKeeps
  <2> QED
    BY <2>2, <2>5 DEF SameProbes, SameProbe
<1> HIDE DEF Good
<1>6. n \in Good
  BY <1>1, <1>4, <1>5, SetInduction
<1> QED
  BY <1>1, <1>3, <1>6 DEF Good

\* A row that is told apart by its content is kept with its probe.
LEMMA WithRowKeeps ==
    ASSUME NEW rows, RowsOK(rows), NEW row, RowOK(row)
    PROVE  /\ RowsOK(WithRow(rows, row))
           /\ ProbesIn(rows) \cup {row.probe} \subseteq ProbesIn(WithRow(rows, row))
<1>1. CASE \E r \in DOMAIN rows : Content(rows[r]) = Content(row)
  <2>1. PICK r \in DOMAIN rows : Content(rows[r]) = Content(row)
    BY <1>1
  <2>2. Content(rows[r]).probe = rows[r].probe /\ Content(row).probe = row.probe
    BY DEF Content, RowOK, RowsOK
  <2>3. WithRow(rows, row) = rows
    BY <1>1 DEF WithRow
  <2> QED
    BY <2>1, <2>2, <2>3 DEF ProbesIn
<1>2. CASE ~ \E r \in DOMAIN rows : Content(rows[r]) = Content(row)
  <2>1. WithRow(rows, row) = Append(rows, row)
    BY <1>2 DEF WithRow
  <2>2. /\ \A i \in DOMAIN rows : i \in DOMAIN Append(rows, row) /\ Append(rows, row)[i] = rows[i]
        /\ Len(rows) + 1 \in DOMAIN Append(rows, row) /\ Append(rows, row)[Len(rows) + 1] = row
    <3>1. /\ DOMAIN rows = 1 .. Len(rows) /\ Len(rows) \in Nat
          /\ DOMAIN Append(rows, row) = 1 .. Len(rows) + 1
          /\ \A i \in DOMAIN rows : Append(rows, row)[i] = rows[i]
          /\ Append(rows, row)[Len(rows) + 1] = row
      BY SequenceAppend DEF RowsOK
    <3> QED
      BY ONLY <3>1
  <2>3. ProbesIn(rows) \cup {row.probe} \subseteq ProbesIn(Append(rows, row))
    BY <2>2 DEF ProbesIn
  <2> QED
    BY <2>1, <2>3, RowsAppend
<1> QED
  BY <1>1, <1>2

LEMMA AppendUniqueKeeps ==
    ASSUME NEW rows, RowsOK(rows), NEW more, RowsOK(more)
    PROVE  /\ RowsOK(AppendUnique(rows, more))
           /\ ProbesIn(rows) \cup ProbesIn(more) \subseteq ProbesIn(AppendUnique(rows, more))
<1> SUFFICES ASSUME NEW t, t = AppendUnique(rows, more)
             PROVE  RowsOK(t) /\ ProbesIn(rows) \cup ProbesIn(more) \subseteq ProbesIn(t)
  OBVIOUS
<1>1. Len(more) \in Nat /\ DOMAIN more = 1 .. Len(more)
  BY SequenceAppend DEF RowsOK
<1>2. PICK n \in Nat : DOMAIN more = 1 .. n
  BY <1>1
<1>3. PICK g : /\ g[0] = rows
               /\ \A m \in 0 .. n - 1 : g[m + 1] = WithRow(g[m], more[m + 1])
               /\ t = g[n]
  BY ONLY n \in Nat, <1>2, t = AppendUnique(rows, more), UniqueFold
<1> DEFINE Good == {m \in Nat : m <= n => /\ RowsOK(g[m])
                                          /\ ProbesIn(rows) \subseteq ProbesIn(g[m])
                                          /\ \A i \in 1 .. m : more[i].probe \in ProbesIn(g[m])}
<1>4. 0 \in Good
  BY <1>3
<1>5. \A m \in Nat : m \in Good => m + 1 \in Good
  <2> SUFFICES ASSUME NEW m \in Nat, m \in Good, m + 1 <= n
               PROVE  /\ RowsOK(g[m + 1])
                      /\ ProbesIn(rows) \subseteq ProbesIn(g[m + 1])
                      /\ \A i \in 1 .. m + 1 : more[i].probe \in ProbesIn(g[m + 1])
    OBVIOUS
  <2>1. m \in 0 .. n - 1 /\ m + 1 \in 1 .. n /\ m <= n
    OBVIOUS
  <2>2. /\ RowsOK(g[m])
        /\ ProbesIn(rows) \subseteq ProbesIn(g[m])
        /\ \A i \in 1 .. m : more[i].probe \in ProbesIn(g[m])
    BY <2>1
  <2>3. RowOK(more[m + 1]) /\ g[m + 1] = WithRow(g[m], more[m + 1])
    BY <1>2, <1>3, <2>1 DEF RowsOK
  <2>4. RowsOK(g[m + 1]) /\ ProbesIn(g[m]) \cup {more[m + 1].probe} \subseteq ProbesIn(g[m + 1])
    BY <2>2, <2>3, WithRowKeeps
  <2> HIDE DEF Good
  <2>5. \A i \in 1 .. m + 1 : i \in 1 .. m \/ i = m + 1
    OBVIOUS
  <2> QED
    BY <2>2, <2>4, <2>5
<1> HIDE DEF Good
<1>6. n \in Good
  BY <1>4, <1>5, SetInduction
<1>7. /\ RowsOK(t) /\ ProbesIn(rows) \subseteq ProbesIn(t)
      /\ \A i \in 1 .. n : more[i].probe \in ProbesIn(t)
  BY <1>3, <1>6 DEF Good
<1>8. ProbesIn(more) \subseteq ProbesIn(t)
  BY <1>2, <1>7 DEF ProbesIn
<1> QED
  BY <1>7, <1>8

LEMMA NoRows == RowsOK(<<>>) /\ ProbesIn(<<>>) = {}
<1>1. <<>> \in Seq({})
  OBVIOUS
<1>2. DOMAIN <<>> = {}
  OBVIOUS
<1> QED
  BY <1>1, <1>2 DEF RowsOK, IsSequence, ProbesIn

\* Under another curve model the rows stay, under other keys.
LEMMA ResetRowsKeeps ==
    ASSUME NEW v, NEW candidates, NEW rows, RowsOK(rows)
    PROVE  /\ RowsOK(ResetRows(v, candidates, rows))
           /\ ProbesIn(ResetRows(v, candidates, rows)) = ProbesIn(rows)
<1> DEFINE t == [r \in DOMAIN rows |-> ResetRow(v, candidates, rows[r])]
<1>1. \A r \in DOMAIN rows : RowOK(t[r]) /\ t[r].probe = rows[r].probe
  BY DEF RowsOK, RowOK, ResetRow
<1>2. t = [r \in DOMAIN rows |-> t[r]] /\ DOMAIN t = DOMAIN rows
  OBVIOUS
<1>3. ResetRows(v, candidates, rows) = t \o <<>>
  BY DEF ResetRows
<1> HIDE DEF t
<1>4. IsSequence(t)
  BY <1>2, SequenceMap DEF RowsOK
<1>5. t \o <<>> = t
  BY <1>4, ConcatEmptySeq DEF IsSequence
<1>6. RowsOK(t)
  BY <1>1, <1>2, <1>4 DEF RowsOK
<1>7. ProbesIn(t) = ProbesIn(rows)
  BY <1>1, <1>2 DEF ProbesIn
<1> QED
  BY <1>3, <1>5, <1>6, <1>7

----------------------------------------------------------------------------
(* Checkpoint documents.                                                   *)

DocumentOK(doc) ==
    /\ DOMAIN doc = {"status", "version", "rows", "described", "candidates", "composed", "inventory"}
    /\ RowsOK(doc.rows) /\ ConfigurationsOK(doc.candidates) /\ DescriptionsOK(doc.described)

LEMMA BlankOK == DocumentOK(Blank)
<1>1. DescriptionsOK(Blank.described)
  BY DEF Blank, DescriptionsOK, Description, NotDescribed
<1>2. DOMAIN Blank = {"status", "version", "rows", "described", "candidates", "composed", "inventory"}
      /\ Blank.rows = <<>> /\ Blank.candidates = <<>>
  BY DEF Blank
<1> QED
  BY <1>1, <1>2, NoRows, NoConfigurations DEF DocumentOK

\* A document with another status, other rows or other configurations.
LEMMA WrittenOK ==
    ASSUME NEW doc, DocumentOK(doc), NEW s
    PROVE  LET d == [doc EXCEPT !.status = s]
           IN  /\ DocumentOK(d) /\ d.status = s /\ d.rows = doc.rows /\ d.described = doc.described
               /\ d.inventory = doc.inventory /\ d.composed = doc.composed
  BY DEF DocumentOK

LEMMA OtherRowsOK ==
    ASSUME NEW doc, DocumentOK(doc), NEW rows, RowsOK(rows)
    PROVE  LET d == [doc EXCEPT !.rows = rows]
           IN  /\ DocumentOK(d) /\ d.rows = rows /\ d.described = doc.described
               /\ d.inventory = doc.inventory /\ d.composed = doc.composed
               /\ d.candidates = doc.candidates /\ d.status = doc.status
  BY DEF DocumentOK

LEMMA OtherConfigurationOK ==
    ASSUME NEW doc, DocumentOK(doc), NEW c, ConfigurationOK(c)
    PROVE  LET d == Updated(doc, c)
           IN  /\ DocumentOK(d) /\ d.rows = doc.rows /\ d.described = doc.described
               /\ d.inventory = doc.inventory /\ d.composed = doc.composed
               /\ DOMAIN d.candidates = DOMAIN doc.candidates
               /\ \A i \in DOMAIN doc.candidates : d.candidates[i].key = doc.candidates[i].key
  BY UpdatedOK DEF DocumentOK

\* Another curve model keeps the evidence.
LEMMA RefreshKeeps ==
    ASSUME NEW v, NEW doc, DocumentOK(doc)
    PROVE  LET d == RefreshCurveModel(v, doc)
           IN  /\ DocumentOK(d) /\ ProbesIn(d.rows) = ProbesIn(doc.rows)
               /\ d.described = doc.described
               /\ d.inventory = doc.inventory /\ d.composed = doc.composed
               /\ d.status = "model-rebuild-required"
<1> DEFINE reset == ResetRows(v, doc.candidates, doc.rows)
           rows == Judged(v, reset)
           fresh == [i \in DOMAIN doc.candidates |-> Fresh(v, doc.candidates[i])]
           filed == FiledAll(<<>>, fresh)
           d == RefreshCurveModel(v, doc)
<1>1. RowsOK(reset) /\ ProbesIn(reset) = ProbesIn(doc.rows)
  BY ResetRowsKeeps DEF DocumentOK
<1>2. RowsOK(rows) /\ SameProbes(reset, rows)
  <2> HIDE DEF reset
  <2> QED
    BY <1>1, JudgedKeeps
<1>3. ProbesIn(rows) = ProbesIn(doc.rows)
  <2>1. ProbesIn(rows) = ProbesIn(reset)
    <3> HIDE DEF reset, rows
    <3> QED
      BY <1>2, SameProbesIn
  <2> QED
    BY <1>1, <2>1
<1>4. \A i \in DOMAIN doc.candidates : ConfigurationOK(Fresh(v, doc.candidates[i]))
  BY CandidateOK DEF Fresh, DocumentOK, ConfigurationsOK, ConfigurationOK
<1>5. Len(doc.candidates) \in Nat /\ DOMAIN doc.candidates = 1 .. Len(doc.candidates)
  BY SequenceAppend DEF DocumentOK, ConfigurationsOK
<1>6. DOMAIN fresh = 1 .. Len(doc.candidates)
      /\ \A i \in 1 .. Len(doc.candidates) : ConfigurationOK(fresh[i])
  BY <1>4, <1>5
<1>7. ConfigurationsOK(filed)
  <2> HIDE DEF fresh
  <2> QED
    BY <1>5, <1>6, FiledAllOK, NoConfigurations
<1>8. d = [doc EXCEPT !.rows = rows, !.candidates = filed, !.version = v,
                      !.status = "model-rebuild-required"]
  BY DEF RefreshCurveModel
<1> HIDE DEF rows, filed, d
<1>9. /\ DocumentOK(d) /\ d.rows = rows /\ d.described = doc.described
      /\ d.inventory = doc.inventory /\ d.composed = doc.composed
      /\ d.status = "model-rebuild-required"
  BY <1>2, <1>7, <1>8 DEF DocumentOK
<1>10. ProbesIn(d.rows) = ProbesIn(doc.rows)
  BY <1>3, <1>9
<1> QED
  BY <1>9, <1>10 DEF d

\* So does an import, for both of its documents.
LEMMA MergeKeeps ==
    ASSUME NEW v, NEW target, NEW source, DocumentOK(target), DocumentOK(source),
           NEW d, d = MergeDocuments(v, target, source)
    PROVE  /\ DocumentOK(d) /\ d.status = "running"
           /\ ProbesIn(target.rows) \cup ProbesIn(source.rows) \subseteq ProbesIn(d.rows)
           /\ d.described = MergeDescriptions(target.described, source.described)
           /\ d.inventory = target.inventory \cup source.inventory
           /\ d.composed = target.composed \cup source.composed
<1> DEFINE described == MergeDescriptions(target.described, source.described)
           mine == AppendUnique(<<>>, target.rows)
           rows == AppendUnique(mine, source.rows)
           candidates == MergeCandidates(v, target.candidates, source.candidates, described)
           merged == [target EXCEPT
                        !.status = "running",
                        !.rows = rows,
                        !.described = described,
                        !.candidates = candidates,
                        !.composed = @ \cup source.composed,
                        !.inventory = @ \cup source.inventory]
<1>1. DescriptionsOK(described)
  BY DEF MergeDescriptions, DescriptionsOK, DocumentOK
<1>2. RowsOK(mine) /\ ProbesIn(target.rows) \subseteq ProbesIn(mine)
  BY AppendUniqueKeeps, NoRows DEF DocumentOK
<1>3. RowsOK(rows) /\ ProbesIn(target.rows) \cup ProbesIn(source.rows) \subseteq ProbesIn(rows)
  <2> HIDE DEF mine
  <2> QED
    BY <1>2, AppendUniqueKeeps DEF DocumentOK
<1>4. ConfigurationsOK(candidates)
  <2> HIDE DEF described
  <2> QED
    BY <1>1, MergeCandidatesOK DEF DocumentOK
<1>5. d = IF target.version = v /\ source.version = v THEN merged
          ELSE [RefreshCurveModel(v, merged) EXCEPT !.status = "running"]
  BY DEF MergeDocuments
<1> HIDE DEF described, rows, candidates
<1>6. /\ DocumentOK(merged) /\ merged.status = "running"
      /\ merged.rows = rows
      /\ merged.described = described
      /\ merged.inventory = target.inventory \cup source.inventory
      /\ merged.composed = target.composed \cup source.composed
  BY <1>1, <1>3, <1>4 DEF DocumentOK
<1> HIDE DEF merged
<1>7. /\ DocumentOK(d) /\ d.status = "running"
      /\ ProbesIn(d.rows) = ProbesIn(rows)
      /\ d.described = described
      /\ d.inventory = target.inventory \cup source.inventory
      /\ d.composed = target.composed \cup source.composed
  <2>1. CASE target.version = v /\ source.version = v
    BY <1>5, <1>6, <2>1
  <2>2. CASE ~(target.version = v /\ source.version = v)
    BY <1>5, <1>6, <2>2, RefreshKeeps, WrittenOK
  <2> QED
    BY <2>1, <2>2
<1> QED
  BY <1>3, <1>7 DEF described

----------------------------------------------------------------------------
(* The invariant.                                                          *)

Streaming == {"stream", "measure", "finish"}
Holding == {"sidecars", "inventory", "first"} \cup Streaming
StreamFields == {"pc", "call", "doc", "visits", "statics", "at", "stuck", "turn", "exhausted",
                 "interrupted", "cap"}

\* The call in progress.
DriverOK(d) ==
    /\ d.pc \in {"idle", "import", "load", "answered"} \cup Holding
    /\ d.pc # "idle" => d.call \in Calls
    /\ d.pc \in {"import", "load"} => DOMAIN d = {"pc", "call"}
    /\ d.pc \in {"sidecars", "inventory", "first"} => DOMAIN d = {"pc", "call", "doc"}
    /\ d.pc \in Streaming => DOMAIN d = StreamFields /\ IsSequence(d.visits)
    /\ d.pc \in Holding => DocumentOK(d.doc)

\* What is to be visited or measured is in the document.
KeyKnown(doc, key) == \E i \in DOMAIN doc.candidates : doc.candidates[i].key = key
KeysKnown(d) ==
    /\ d.pc \in {"stream", "measure"} => \A i \in DOMAIN d.visits : KeyKnown(d.doc, d.visits[i])
    /\ d.pc = "measure" => KeyKnown(d.doc, d.at)

\* The document in memory has the evidence of the one on disk, ...
Evident(d, k) ==
    /\ d.pc \in Holding =>
          /\ ProbesIn(k.rows) \subseteq ProbesIn(d.doc.rows)
          /\ k.inventory \subseteq d.doc.inventory
          /\ k.composed \subseteq d.doc.composed
          /\ d.doc.described = k.described
    \* ... and no other row while there is something to measure.
    /\ d.pc \in {"stream", "measure"} => d.doc.rows = k.rows

\* The audit files are written before the document is.
FilesOf(doc) == {CompositionFile(doc), InventoryFile(doc)}
Filing(d, k, files) ==
    /\ k.status # "absent" => FilesOf(k) \subseteq files
    /\ d.pc = "inventory" => CompositionFile(d.doc) \in files
    /\ d.pc \in {"first"} \cup Streaming => FilesOf(d.doc) \subseteq files

StageInv ==
    /\ DocumentOK(disk) /\ DocumentOK(saved) /\ DriverOK(driver)
    /\ disk.status = "absent" => disk = Blank
    /\ KeysKnown(driver)
    /\ Evident(driver, disk)
    /\ Filing(driver, disk, sidecars)

\* Nothing is lost from disk to k.
Grown(k, l) ==
    /\ ProbesIn(k.rows) \subseteq ProbesIn(l.rows)
    /\ k.inventory \subseteq l.inventory /\ k.composed \subseteq l.composed
    /\ \A p \in ResolvedPoints(k) : k.described[p].batch <= l.described[p].batch

LEMMA GrownReflexive ==
    ASSUME NEW k, DocumentOK(k), NEW l, l.described = k.described,
           ProbesIn(k.rows) \subseteq ProbesIn(l.rows),
           k.inventory \subseteq l.inventory, k.composed \subseteq l.composed
    PROVE  Grown(k, l)
<1>1. \A p \in Points : k.described[p].batch \in Nat
  BY DEF DocumentOK, DescriptionsOK, Description
<1> QED
  BY <1>1 DEF Grown, ResolvedPoints

LEMMA InitInv == ASSUME StageInit PROVE StageInv
<1>1. driver.pc = "idle" /\ disk = Blank /\ saved = Blank
  BY DEF StageInit, NoCall
<1>2. Blank.status = "absent"
  BY DEF Blank
<1> QED
  BY <1>1, <1>2, BlankOK DEF StageInv, DriverOK, KeysKnown, Evident, Filing, Holding, Streaming

----------------------------------------------------------------------------
(* The steps outside the stream of configurations.                         *)

LEMMA BeginStep ==
    ASSUME StageInv, NEW call \in Calls, BeginCall(call)
    PROVE  StageInv'
<1>1. /\ driver' = [pc |-> IF call.imports THEN "import" ELSE "load", call |-> call]
      /\ UNCHANGED <<disk, saved, sidecars>>
  BY DEF BeginCall
<1>2. /\ driver'.pc \in {"import", "load"} /\ driver'.call = call
      /\ DOMAIN driver' = {"pc", "call"}
  BY <1>1
<1>3. DriverOK(driver')
  BY <1>2 DEF DriverOK, Holding, Streaming
<1>4. KeysKnown(driver') /\ Evident(driver', disk') /\ Filing(driver', disk', sidecars')
  BY <1>1, <1>2 DEF KeysKnown, Evident, Filing, Holding, Streaming, StageInv
<1> QED
  BY <1>1, <1>3, <1>4 DEF StageInv

LEMMA ImportStep ==
    ASSUME StageInv, ImportCheckpoint
    PROVE  StageInv' /\ Grown(disk, disk') /\ ProbesIn(saved.rows) \subseteq ProbesIn(disk'.rows)
<1> DEFINE target == IF disk.status = "absent"
                     THEN [saved EXCEPT !.rows = <<>>, !.candidates = <<>>] ELSE disk
           merged == MergeDocuments(revision, target, saved)
<1>1. /\ driver.pc = "import" /\ disk' = merged
      /\ sidecars' = sidecars \cup {CompositionFile(merged), InventoryFile(merged)}
      /\ driver' = [driver EXCEPT !.pc = "load"]
      /\ saved' = saved
  BY DEF ImportCheckpoint, world
<1>2. DocumentOK(disk) /\ DocumentOK(saved) /\ DriverOK(driver)
      /\ (disk.status = "absent" => disk = Blank)
  BY DEF StageInv
<1>3. DocumentOK(target)
  <2>1. DocumentOK([saved EXCEPT !.rows = <<>>, !.candidates = <<>>])
    BY <1>2, NoRows, NoConfigurations DEF DocumentOK
  <2> QED
    BY <1>2, <2>1
<1> HIDE DEF target
<1>4. /\ DocumentOK(merged) /\ merged.status = "running"
      /\ ProbesIn(target.rows) \cup ProbesIn(saved.rows) \subseteq ProbesIn(merged.rows)
      /\ merged.described = MergeDescriptions(target.described, saved.described)
      /\ merged.inventory = target.inventory \cup saved.inventory
      /\ merged.composed = target.composed \cup saved.composed
  <2>1. DocumentOK(target) /\ DocumentOK(saved)
    BY <1>2, <1>3
  <2>2. merged = MergeDocuments(revision, target, saved)
    OBVIOUS
  <2> HIDE DEF merged
  <2> QED
    BY ONLY <2>1, <2>2, MergeKeeps
<1> HIDE DEF merged
<1>5. Grown(disk, disk')
  <2>1. CASE disk.status = "absent"
    <3>1. ProbesIn(disk.rows) = {} /\ disk.inventory = {} /\ disk.composed = {}
          /\ ResolvedPoints(disk) = {}
      BY <1>2, <2>1, NoRows DEF Blank, ResolvedPoints, NotDescribed
    <3> QED
      BY <3>1 DEF Grown
  <2>2. CASE disk.status # "absent"
    <3>1. target = disk
      BY <2>2 DEF target
    <3>2. \A p \in Points : /\ disk.described[p].batch \in Nat /\ saved.described[p].batch \in Nat
                            /\ disk.described[p].batch <= merged.described[p].batch
      BY <1>2, <1>4, <3>1 DEF DocumentOK, DescriptionsOK, Description, MergeDescriptions
    <3> QED
      BY <1>1, <1>4, <3>1, <3>2 DEF Grown, ResolvedPoints
  <2> QED
    BY <2>1, <2>2
<1>6. driver'.pc = "load" /\ driver'.call = driver.call /\ DOMAIN driver' = {"pc", "call"}
      /\ driver.call \in Calls
  BY <1>1, <1>2 DEF DriverOK
<1>7. DriverOK(driver')
  BY <1>6 DEF DriverOK, Holding, Streaming
<1>8. KeysKnown(driver') /\ Evident(driver', disk')
  BY <1>6 DEF KeysKnown, Evident, Holding, Streaming
<1>9. Filing(driver', disk', sidecars')
  BY <1>1, <1>6 DEF Filing, FilesOf, Streaming
<1> QED
  BY <1>1, <1>2, <1>4, <1>5, <1>7, <1>8, <1>9 DEF StageInv

LEMMA LoadStep ==
    ASSUME StageInv, LoadCheckpoint
    PROVE  StageInv'
<1>1. driver.pc = "load" /\ UNCHANGED <<disk, sidecars, saved>>
  BY DEF LoadCheckpoint, world
<1>2. DocumentOK(disk) /\ DocumentOK(saved) /\ DriverOK(driver)
      /\ (disk.status = "absent" => disk = Blank)
      /\ Filing(driver, disk, sidecars)
  BY DEF StageInv
<1>3. driver.call \in Calls
  BY <1>1, <1>2 DEF DriverOK
<1>4. /\ DocumentOK(Loaded) /\ ProbesIn(Loaded.rows) = ProbesIn(disk.rows)
      /\ Loaded.described = disk.described
      /\ Loaded.inventory = disk.inventory /\ Loaded.composed = disk.composed
  <2>1. CASE disk.status = "absent"
    <3>1. Loaded = [Blank EXCEPT !.version = revision] /\ disk = Blank
      BY <1>2, <2>1 DEF Loaded
    <3> QED
      BY <1>2, <3>1 DEF DocumentOK
  <2>2. CASE disk.status # "absent"
    BY <1>2, <2>2, RefreshKeeps DEF Loaded, Refreshed
  <2> QED
    BY <2>1, <2>2
<1> DEFINE doc == [Loaded EXCEPT !.composed = @ \cup driver.call.composed,
                                 !.inventory = @ \cup DOMAIN driver.call.points
                                                 \cup Described(Loaded.described)]
<1>5. /\ DocumentOK(doc) /\ ProbesIn(doc.rows) = ProbesIn(disk.rows)
      /\ doc.described = disk.described
      /\ disk.inventory \subseteq doc.inventory /\ disk.composed \subseteq doc.composed
  BY <1>4 DEF DocumentOK
<1>6. CASE Answers(Loaded, driver.call)
  <2>1. driver'.pc = "answered" /\ driver'.call = driver.call
    BY <1>1, <1>6 DEF LoadCheckpoint
  <2>2. DriverOK(driver')
    BY <1>3, <2>1 DEF DriverOK, Holding, Streaming
  <2>3. KeysKnown(driver') /\ Evident(driver', disk') /\ Filing(driver', disk', sidecars')
    BY <1>1, <1>2, <2>1 DEF KeysKnown, Evident, Filing, Holding, Streaming
  <2> QED
    BY <1>1, <1>2, <2>2, <2>3 DEF StageInv
<1>7. CASE ~Answers(Loaded, driver.call)
  <2>1. driver' = [pc |-> "sidecars", call |-> driver.call, doc |-> doc]
    BY <1>1, <1>7 DEF LoadCheckpoint
  <2> HIDE DEF doc
  <2>2. driver'.pc = "sidecars" /\ driver'.call = driver.call /\ driver'.doc = doc
        /\ DOMAIN driver' = {"pc", "call", "doc"}
    BY <2>1
  <2>3. DriverOK(driver')
    BY <1>3, <1>5, <2>2 DEF DriverOK, Holding, Streaming
  <2>4. KeysKnown(driver') /\ Filing(driver', disk', sidecars')
    BY <1>1, <1>2, <2>2 DEF KeysKnown, Filing, Streaming
  <2>5. Evident(driver', disk')
    BY <1>1, <1>5, <2>2 DEF Evident
  <2> QED
    BY <1>1, <1>2, <2>3, <2>4, <2>5 DEF StageInv
<1> QED
  BY <1>6, <1>7

LEMMA SidecarStep ==
    ASSUME StageInv, WriteComposition \/ WriteInventory
    PROVE  StageInv'
<1> DEFINE next == IF driver.pc = "sidecars" THEN "inventory" ELSE "first"
<1>1. /\ driver.pc \in {"sidecars", "inventory"} /\ UNCHANGED <<disk, saved>>
      /\ driver' = [driver EXCEPT !.pc = next]
      /\ sidecars \subseteq sidecars'
      /\ driver.pc = "sidecars" => CompositionFile(driver.doc) \in sidecars'
      /\ driver.pc = "inventory" => InventoryFile(driver.doc) \in sidecars'
  BY DEF WriteComposition, WriteInventory, world, Doc
<1>2. /\ DOMAIN driver = {"pc", "call", "doc"} /\ DocumentOK(driver.doc) /\ driver.call \in Calls
      /\ Evident(driver, disk) /\ Filing(driver, disk, sidecars)
  BY <1>1 DEF StageInv, DriverOK, Holding
<1>3. /\ driver'.pc = next /\ driver'.call = driver.call /\ driver'.doc = driver.doc
      /\ DOMAIN driver' = {"pc", "call", "doc"}
      /\ next \in {"inventory", "first"}
  BY <1>1, <1>2
<1>4. DriverOK(driver')
  BY <1>2, <1>3 DEF DriverOK, Holding, Streaming
<1>5. KeysKnown(driver')
  BY <1>3 DEF KeysKnown
<1>6. Evident(driver', disk')
  BY <1>1, <1>2, <1>3 DEF Evident, Holding
<1>7. Filing(driver', disk', sidecars')
  <2>1. next = "first" => driver.pc = "inventory"
    BY <1>1
  <2> QED
    BY <1>1, <1>2, <1>3, <2>1 DEF Filing, FilesOf, Streaming
<1> QED
  BY <1>1, <1>4, <1>5, <1>6, <1>7 DEF StageInv

LEMMA FirstStep ==
    ASSUME StageInv, WriteFirst
    PROVE  StageInv' /\ Grown(disk, disk')
<1> DEFINE doc == [Doc EXCEPT !.candidates = Refiled(revision, @, Doc.described)]
           visits == [i \in DOMAIN doc.candidates |-> doc.candidates[i].key]
<1>1. /\ driver.pc = "first" /\ UNCHANGED <<sidecars, saved>> /\ disk' = Written(doc)
  BY DEF WriteFirst, world
<1>2. /\ DOMAIN driver = {"pc", "call", "doc"} /\ DocumentOK(Doc) /\ driver.call \in Calls
      /\ Evident(driver, disk) /\ Filing(driver, disk, sidecars) /\ DocumentOK(saved) /\ DocumentOK(disk)
  BY <1>1 DEF StageInv, DriverOK, Holding, Doc
<1>3. ConfigurationsOK(Refiled(revision, Doc.candidates, Doc.described))
  BY <1>2, RefiledOK DEF DocumentOK
<1>4. /\ DocumentOK(doc) /\ doc.rows = Doc.rows /\ doc.described = Doc.described
      /\ doc.inventory = Doc.inventory /\ doc.composed = Doc.composed
  BY <1>2, <1>3 DEF DocumentOK
<1>5. /\ driver'.pc = "stream" /\ driver'.call = driver.call /\ driver'.doc = doc
      /\ driver'.visits = visits /\ DOMAIN driver' = StreamFields
  BY DEF WriteFirst, StreamFields
<1> HIDE DEF doc
<1>6. visits = [i \in DOMAIN doc.candidates |-> visits[i]]
      /\ \A i \in DOMAIN doc.candidates : visits[i] = doc.candidates[i].key
  OBVIOUS
<1> HIDE DEF visits
<1>7. IsSequence(visits) /\ DOMAIN visits = DOMAIN doc.candidates
  BY <1>4, <1>6, SequenceMap DEF DocumentOK, ConfigurationsOK
<1>8. /\ DocumentOK(disk') /\ disk'.status = "running"
      /\ disk'.rows = doc.rows /\ disk'.described = doc.described
      /\ disk'.inventory = doc.inventory /\ disk'.composed = doc.composed
  BY <1>1, <1>4, WrittenOK DEF Written
<1>9. DriverOK(driver')
  BY <1>2, <1>4, <1>5, <1>7 DEF DriverOK, Holding, Streaming
<1>10. KeysKnown(driver')
  BY <1>5, <1>6, <1>7 DEF KeysKnown, KeyKnown
<1>11. Evident(driver', disk')
  BY <1>5, <1>8 DEF Evident
<1>12. Filing(driver', disk', sidecars')
  BY <1>1, <1>2, <1>4, <1>5, <1>8 DEF Filing, FilesOf, CompositionFile, InventoryFile, Doc, Streaming
<1>13. Grown(disk, disk')
  <2>1. /\ ProbesIn(disk.rows) \subseteq ProbesIn(Doc.rows) /\ Doc.described = disk.described
        /\ disk.inventory \subseteq Doc.inventory /\ disk.composed \subseteq Doc.composed
    BY <1>1, <1>2 DEF Evident, Holding, Doc
  <2> QED
    BY <1>2, <1>4, <1>8, <2>1, GrownReflexive
<1> QED
  BY <1>1, <1>2, <1>8, <1>9, <1>10, <1>11, <1>12, <1>13 DEF StageInv

\* The checkpoint is never closed as absent.
LEMMA StatusNotAbsent ==
    ASSUME NEW v, NEW doc, NEW pending, NEW call, NEW cap, NEW interrupted, NEW exhausted
    PROVE  OverallStatus(v, doc, pending, call, cap, interrupted, exhausted) # "absent"
  BY DEF OverallStatus

LEMMA FinishStep ==
    ASSUME StageInv, Finish
    PROVE  StageInv' /\ Grown(disk, disk')
<1> DEFINE status == OverallStatus(revision, Doc, Pending(Doc), driver.call, driver.cap,
                                   driver.interrupted, driver.exhausted)
           closed == IF status \in FinalStatuses THEN "complete" ELSE status
<1>1. /\ driver.pc = "finish" /\ UNCHANGED <<sidecars, saved>>
      /\ disk' = [Doc EXCEPT !.status = closed]
      /\ driver' = [pc |-> "answered", call |-> driver.call, doc |-> Doc, status |-> status]
  BY DEF Finish, world
<1>2. closed # "absent"
  BY StatusNotAbsent
<1> HIDE DEF status, closed
<1>3. /\ DocumentOK(Doc) /\ driver.call \in Calls /\ DocumentOK(disk) /\ DocumentOK(saved)
      /\ Evident(driver, disk) /\ Filing(driver, disk, sidecars)
  BY <1>1 DEF StageInv, DriverOK, Holding, Streaming, Doc
<1>4. driver'.pc = "answered" /\ driver'.call = driver.call
  BY <1>1
<1>5. /\ DocumentOK(disk') /\ disk'.status = closed /\ disk'.rows = Doc.rows
      /\ disk'.described = Doc.described
      /\ disk'.inventory = Doc.inventory /\ disk'.composed = Doc.composed
  BY <1>1, <1>3, WrittenOK
<1>6. DriverOK(driver')
  BY <1>3, <1>4 DEF DriverOK, Holding, Streaming
<1>7. KeysKnown(driver') /\ Evident(driver', disk')
  BY <1>4 DEF KeysKnown, Evident, Holding, Streaming
<1>8. Filing(driver', disk', sidecars')
  BY <1>1, <1>3, <1>4, <1>5 DEF Filing, FilesOf, CompositionFile, InventoryFile, Doc, Streaming
<1>9. Grown(disk, disk')
  <2>1. /\ ProbesIn(disk.rows) \subseteq ProbesIn(Doc.rows) /\ Doc.described = disk.described
        /\ disk.inventory \subseteq Doc.inventory /\ disk.composed \subseteq Doc.composed
    BY <1>1, <1>3 DEF Evident, Holding, Streaming, Doc
  <2> QED
    BY <1>3, <1>5, <2>1, GrownReflexive
<1> QED
  BY <1>1, <1>2, <1>3, <1>5, <1>6, <1>7, <1>8, <1>9 DEF StageInv

\* A return or a kill ends the call.
LEMMA IdleStep ==
    ASSUME StageInv, driver' = NoCall, UNCHANGED <<disk, saved, sidecars>>
    PROVE  StageInv'
<1>1. driver'.pc = "idle"
  BY DEF NoCall
<1>2. DriverOK(driver')
  BY <1>1 DEF DriverOK, Holding, Streaming
<1>3. KeysKnown(driver') /\ Evident(driver', disk') /\ Filing(driver', disk', sidecars')
  BY <1>1 DEF KeysKnown, Evident, Filing, Holding, Streaming, StageInv
<1> QED
  BY <1>2, <1>3 DEF StageInv

LEMMA EnvironmentStep ==
    ASSUME StageInv, SaveCopy \/ StartOver \/ Upgrade
    PROVE  StageInv'
<1>1. /\ driver.pc = "idle" /\ driver' = driver /\ sidecars' = sidecars
      /\ saved' \in {saved, disk} /\ disk' \in {disk, Blank}
  BY DEF SaveCopy, StartOver, Upgrade, world
<1>2. DocumentOK(disk') /\ DocumentOK(saved') /\ (disk'.status = "absent" => disk' = Blank)
  BY <1>1, BlankOK DEF StageInv
<1>3. Blank.status = "absent"
  BY DEF Blank
<1>4. Filing(driver', disk', sidecars')
  BY <1>1, <1>3 DEF StageInv, Filing, Streaming
<1>5. KeysKnown(driver') /\ Evident(driver', disk') /\ DriverOK(driver')
  BY <1>1 DEF StageInv, KeysKnown, Evident, Holding, Streaming
<1> QED
  BY <1>2, <1>4, <1>5 DEF StageInv

----------------------------------------------------------------------------
(* The stream of configurations.                                           *)

LEMMA SequenceTail ==
    ASSUME NEW s, IsSequence(s), s # <<>>
    PROVE  /\ IsSequence(Tail(s))
           /\ 1 \in DOMAIN s /\ Head(s) = s[1]
           /\ \A i \in DOMAIN Tail(s) : \E j \in DOMAIN s : Tail(s)[i] = s[j]
<1> DEFINE T == {s[i] : i \in DOMAIN s}
<1>1. s \in Seq(T)
  BY DEF IsSequence
<1> HIDE DEF T
<1>2. /\ Tail(s) \in Seq(T) /\ Len(Tail(s)) = Len(s) - 1 /\ Len(s) \in Nat \ {0}
      /\ DOMAIN s = 1 .. Len(s) /\ DOMAIN Tail(s) = 1 .. Len(s) - 1 /\ Head(s) = s[1]
      /\ \A i \in 1 .. Len(s) - 1 : Tail(s)[i] = s[i + 1]
  BY <1>1
<1>3. Tail(s) = [i \in 1 .. Len(s) - 1 |-> Tail(s)[i]]
  <2>1. ASSUME NEW t, NEW n \in Nat, t \in Seq(T), Len(t) = n
        PROVE  t = [i \in 1 .. n |-> t[i]]
    <3>1. t \in [1 .. n -> T]
      BY ONLY <2>1
    <3> QED
      BY ONLY <3>1
  <2>2. Len(s) - 1 \in Nat
    BY ONLY <1>2
  <2> QED
    BY ONLY <1>2, <2>1, <2>2
<1>4. Len(s) - 1 \in Nat /\ 1 \in DOMAIN s
  BY ONLY <1>2
<1>5. IsSequence(Tail(s))
  BY ONLY <1>3, <1>4, SequenceMake
<1>6. ASSUME NEW i \in DOMAIN Tail(s) PROVE \E j \in DOMAIN s : Tail(s)[i] = s[j]
  <2>1. i + 1 \in DOMAIN s /\ Tail(s)[i] = s[i + 1]
    BY ONLY <1>2, <1>6
  <2> QED
    BY ONLY <2>1
<1> QED
  BY ONLY <1>2, <1>4, <1>5, <1>6

\* What a step of the stream has to leave behind.
LEMMA StreamStep ==
    ASSUME StageInv, driver.pc \in {"stream", "measure"}, UNCHANGED <<saved, sidecars>>,
           driver'.pc \in Streaming, DOMAIN driver' = StreamFields, driver'.call = driver.call,
           IsSequence(driver'.visits), KeysKnown(driver'),
           DocumentOK(driver'.doc),
           driver'.doc.inventory = Doc.inventory, driver'.doc.composed = Doc.composed,
           \/ /\ disk' = disk /\ driver'.doc.described = Doc.described
              /\ \/ driver'.doc.rows = Doc.rows
                 \/ driver'.pc = "finish" /\ ProbesIn(Doc.rows) \subseteq ProbesIn(driver'.doc.rows)
           \/ /\ DocumentOK(disk') /\ disk'.status # "absent"
              /\ disk'.rows = driver'.doc.rows /\ disk'.described = driver'.doc.described
              /\ disk'.inventory = Doc.inventory /\ disk'.composed = Doc.composed
    PROVE  StageInv'
<1>1. /\ DriverOK(driver) /\ Evident(driver, disk) /\ Filing(driver, disk, sidecars)
      /\ DocumentOK(disk) /\ DocumentOK(saved) /\ (disk.status = "absent" => disk = Blank)
  BY DEF StageInv
<1>2. driver.call \in Calls
  BY <1>1 DEF DriverOK
<1>3. DriverOK(driver')
  BY <1>2 DEF DriverOK, Holding, Streaming
<1>4. /\ Doc.rows = disk.rows /\ Doc.described = disk.described
      /\ disk.inventory \subseteq Doc.inventory /\ disk.composed \subseteq Doc.composed
      /\ FilesOf(Doc) \subseteq sidecars
      /\ disk.status # "absent" => FilesOf(disk) \subseteq sidecars
  BY <1>1 DEF Evident, Filing, Holding, Streaming, Doc
<1>5. FilesOf(driver'.doc) = FilesOf(Doc)
  BY DEF FilesOf, CompositionFile, InventoryFile
<1>6. Filing(driver', disk', sidecars')
  <2>1. CASE disk' = disk
    BY <1>4, <1>5, <2>1 DEF Filing, Streaming
  <2>2. CASE disk'.inventory = Doc.inventory /\ disk'.composed = Doc.composed
    <3>1. FilesOf(disk') = FilesOf(Doc)
      BY <2>2 DEF FilesOf, CompositionFile, InventoryFile
    <3> QED
      BY <1>4, <1>5, <3>1 DEF Filing, Streaming
  <2> QED
    BY <2>1, <2>2
<1>7. Evident(driver', disk')
  <2>1. CASE disk' = disk /\ driver'.doc.described = Doc.described /\ driver'.doc.rows = Doc.rows
    BY <1>4, <2>1 DEF Evident
  <2>2. CASE /\ disk' = disk /\ driver'.doc.described = Doc.described /\ driver'.pc = "finish"
             /\ ProbesIn(Doc.rows) \subseteq ProbesIn(driver'.doc.rows)
    BY <1>4, <2>2 DEF Evident
  <2>3. CASE /\ disk'.rows = driver'.doc.rows /\ disk'.described = driver'.doc.described
             /\ disk'.inventory = Doc.inventory /\ disk'.composed = Doc.composed
    BY <2>3 DEF Evident
  <2> QED
    BY <2>1, <2>2, <2>3
<1>8. DocumentOK(disk') /\ DocumentOK(saved') /\ (disk'.status = "absent" => disk' = Blank)
  BY <1>1
<1> QED
  BY <1>3, <1>6, <1>7, <1>8 DEF StageInv

\* What is known while the stream runs.
LEMMA StreamFacts ==
    ASSUME StageInv, driver.pc \in {"stream", "measure"}
    PROVE  /\ DOMAIN driver = StreamFields /\ IsSequence(driver.visits) /\ DocumentOK(Doc)
           /\ driver.call \in Calls /\ DocumentOK(disk)
           /\ Doc.rows = disk.rows /\ Doc.described = disk.described
           /\ disk.inventory \subseteq Doc.inventory /\ disk.composed \subseteq Doc.composed
           /\ \A i \in DOMAIN driver.visits : KeyKnown(Doc, driver.visits[i])
           /\ driver.pc = "measure" => KeyKnown(Doc, driver.at)
  BY DEF StageInv, DriverOK, KeysKnown, Evident, Holding, Streaming, Doc

\* Steps that leave the document.
LEMMA IdleDocument ==
    ASSUME StageInv, driver.pc \in {"stream", "measure"}, UNCHANGED <<disk, saved, sidecars>>,
           driver'.pc \in {"stream", "finish"}, DOMAIN driver' = StreamFields,
           driver'.call = driver.call, driver'.visits = driver.visits, driver'.doc = driver.doc
    PROVE  StageInv'
<1>1. /\ IsSequence(driver.visits) /\ DocumentOK(Doc)
      /\ \A i \in DOMAIN driver.visits : KeyKnown(Doc, driver.visits[i])
  BY StreamFacts
<1>2. KeysKnown(driver')
  BY <1>1 DEF KeysKnown, Doc
<1>3. /\ driver'.pc \in Streaming /\ IsSequence(driver'.visits) /\ DocumentOK(driver'.doc)
      /\ driver'.doc.inventory = Doc.inventory /\ driver'.doc.composed = Doc.composed
      /\ driver'.doc.described = Doc.described /\ driver'.doc.rows = Doc.rows
  BY <1>1 DEF Doc, Streaming
<1> QED
  BY <1>2, <1>3, StreamStep

LEMMA SkipStep ==
    ASSUME StageInv, SkipKnown
    PROVE  StageInv'
<1>1. /\ driver.pc = "stream" /\ UNCHANGED <<disk, saved, sidecars>>
      /\ driver' = [driver EXCEPT !.statics = Tail(@)]
  BY DEF SkipKnown, world
<1>2. DOMAIN driver = StreamFields
  BY <1>1, StreamFacts
<1>3. /\ driver'.pc = "stream" /\ DOMAIN driver' = StreamFields /\ driver'.call = driver.call
      /\ driver'.visits = driver.visits /\ driver'.doc = driver.doc
  BY <1>1, <1>2 DEF StreamFields
<1> QED
  BY <1>1, <1>3, IdleDocument

LEMMA EndStep ==
    ASSUME StageInv, EndStream \/ EndCandidate \/ TimeOver
    PROVE  StageInv'
<1>1. /\ driver.pc \in {"stream", "measure"} /\ UNCHANGED <<disk, saved, sidecars>>
      /\ \/ driver' = [driver EXCEPT !.pc = "finish"]
         \/ driver' = [driver EXCEPT !.pc = "finish", !.exhausted = TRUE]
         \/ \E e : driver' = [driver EXCEPT !.pc = "stream", !.exhausted = e]
  BY DEF EndStream, EndCandidate, TimeOver, Measuring, LeaveCandidate, world
<1>2. DOMAIN driver = StreamFields
  BY <1>1, StreamFacts
<1>3. /\ driver'.pc \in {"stream", "finish"} /\ DOMAIN driver' = StreamFields
      /\ driver'.call = driver.call
      /\ driver'.visits = driver.visits /\ driver'.doc = driver.doc
  BY <1>1, <1>2 DEF StreamFields
<1> QED
  BY <1>1, <1>3, IdleDocument

\* The configuration of a known key.
LEMMA FoundConfiguration ==
    ASSUME NEW doc, DocumentOK(doc), NEW key, KeyKnown(doc, key)
    PROVE  ConfigurationOK(Candidates(doc, key)) /\ Candidates(doc, key).key = key
<1>1. \E i \in DOMAIN doc.candidates : doc.candidates[i].key = key
  BY DEF KeyKnown
<1>2. Candidates(doc, key) = doc.candidates[CHOOSE i \in DOMAIN doc.candidates :
                                               doc.candidates[i].key = key]
  BY DEF Candidates
<1> QED
  BY <1>1, <1>2 DEF DocumentOK, ConfigurationsOK

LEMMA OtherFieldsOK ==
    ASSUME NEW c, ConfigurationOK(c), NEW x
    PROVE  /\ ConfigurationOK([c EXCEPT !.omitted = x]) /\ [c EXCEPT !.omitted = x].key = c.key
           /\ ConfigurationOK([c EXCEPT !.reuse = x]) /\ [c EXCEPT !.reuse = x].key = c.key
           /\ ConfigurationOK([c EXCEPT !.intervals = x]) /\ [c EXCEPT !.intervals = x].key = c.key
  BY DEF ConfigurationOK

LEMMA VisitStep ==
    ASSUME StageInv, Visit
    PROVE  StageInv'
<1> DEFINE c == Candidates(Doc, Head(driver.visits))
           fresh == WithoutReuse(c)
<1>1. /\ driver.pc = "stream" /\ driver.visits # <<>> /\ UNCHANGED <<disk, saved, sidecars>>
      /\ \/ \E cap : driver' = [[driver EXCEPT !.visits = Tail(@), !.cap = cap] EXCEPT
                                  !.doc = Updated(@, [c EXCEPT !.omitted = @ \cup {"non-executable"}])]
         \/ \E cap, cited : driver' = [[driver EXCEPT !.visits = Tail(@), !.cap = cap] EXCEPT
                                         !.doc = Updated(@, [fresh EXCEPT !.reuse = cited])]
         \/ \E cap : driver' = [[driver EXCEPT !.visits = Tail(@), !.cap = cap] EXCEPT
                                  !.doc = Updated(@, fresh), !.pc = "measure", !.at = c.key,
                                  !.stuck = FALSE]
  BY DEF Visit, world
<1>2. /\ DOMAIN driver = StreamFields /\ IsSequence(driver.visits) /\ DocumentOK(Doc)
      /\ \A i \in DOMAIN driver.visits : KeyKnown(Doc, driver.visits[i])
  BY <1>1, StreamFacts
<1>3. /\ IsSequence(Tail(driver.visits))
      /\ 1 \in DOMAIN driver.visits /\ Head(driver.visits) = driver.visits[1]
      /\ \A i \in DOMAIN Tail(driver.visits) :
            \E j \in DOMAIN driver.visits : Tail(driver.visits)[i] = driver.visits[j]
  <2>1. driver.visits # <<>> /\ IsSequence(driver.visits)
    BY <1>1, <1>2
  <2> QED
    BY ONLY <2>1, SequenceTail
<1>4. ConfigurationOK(c) /\ KeyKnown(Doc, c.key)
  BY <1>2, <1>3, FoundConfiguration
<1>5. /\ ConfigurationOK(fresh)
      /\ ConfigurationOK([c EXCEPT !.omitted = @ \cup {"non-executable"}])
      /\ \A cited : ConfigurationOK([fresh EXCEPT !.reuse = cited])
  BY <1>4, OtherFieldsOK DEF WithoutReuse
<1> HIDE DEF c, fresh
<1>6. PICK u : /\ ConfigurationOK(u) /\ driver'.doc = Updated(Doc, u)
               /\ driver'.visits = Tail(driver.visits) /\ driver'.call = driver.call
               /\ DOMAIN driver' = StreamFields
               /\ driver'.pc = "stream" \/ (driver'.pc = "measure" /\ driver'.at = c.key)
  <2>1. ASSUME NEW u, NEW cap,
               driver' = [[driver EXCEPT !.visits = Tail(@), !.cap = cap] EXCEPT !.doc = Updated(@, u)]
        PROVE  /\ driver'.doc = Updated(Doc, u)
               /\ driver'.visits = Tail(driver.visits) /\ driver'.call = driver.call
               /\ DOMAIN driver' = StreamFields /\ driver'.pc = "stream"
    BY <1>1, <1>2, <2>1 DEF StreamFields, Doc
  <2>2. ASSUME NEW cap,
               driver' = [[driver EXCEPT !.visits = Tail(@), !.cap = cap] EXCEPT
                             !.doc = Updated(@, fresh), !.pc = "measure", !.at = c.key,
                             !.stuck = FALSE]
        PROVE  /\ driver'.doc = Updated(Doc, fresh)
               /\ driver'.visits = Tail(driver.visits) /\ driver'.call = driver.call
               /\ DOMAIN driver' = StreamFields /\ driver'.pc = "measure" /\ driver'.at = c.key
    BY <1>1, <1>2, <2>2 DEF StreamFields, Doc
  <2>3. CASE \E cap : driver' = [[driver EXCEPT !.visits = Tail(@), !.cap = cap] EXCEPT
                                    !.doc = Updated(@, [c EXCEPT !.omitted = @ \cup {"non-executable"}])]
    BY <1>5, <2>1, <2>3
  <2>4. CASE \E cap, cited : driver' = [[driver EXCEPT !.visits = Tail(@), !.cap = cap] EXCEPT
                                           !.doc = Updated(@, [fresh EXCEPT !.reuse = cited])]
    BY <1>5, <2>1, <2>4
  <2>5. CASE \E cap : driver' = [[driver EXCEPT !.visits = Tail(@), !.cap = cap] EXCEPT
                                    !.doc = Updated(@, fresh), !.pc = "measure", !.at = c.key,
                                    !.stuck = FALSE]
    BY <1>5, <2>2, <2>5
  <2> QED
    BY <1>1, <2>3, <2>4, <2>5
<1>7. /\ DocumentOK(driver'.doc) /\ driver'.doc.rows = Doc.rows
      /\ driver'.doc.described = Doc.described
      /\ driver'.doc.inventory = Doc.inventory /\ driver'.doc.composed = Doc.composed
      /\ DOMAIN driver'.doc.candidates = DOMAIN Doc.candidates
      /\ \A i \in DOMAIN Doc.candidates : driver'.doc.candidates[i].key = Doc.candidates[i].key
  BY <1>2, <1>6, OtherConfigurationOK
<1>8. \A key : KeyKnown(Doc, key) => KeyKnown(driver'.doc, key)
  BY <1>7 DEF KeyKnown
<1>9. KeysKnown(driver')
  BY <1>2, <1>3, <1>4, <1>6, <1>8 DEF KeysKnown
<1>10. driver'.pc \in Streaming /\ IsSequence(driver'.visits)
  BY <1>3, <1>6 DEF Streaming
<1> QED
  BY <1>1, <1>6, <1>7, <1>9, <1>10, StreamStep

LEMMA ReuseStep ==
    ASSUME StageInv, ReuseVerdict
    PROVE  StageInv'
<1>1. /\ driver.pc = "measure" /\ UNCHANGED <<disk, saved, sidecars>>
      /\ \E intervals, stuck, turn :
            driver' = [driver EXCEPT !.doc = Updated(@, [At EXCEPT !.intervals = intervals]),
                                     !.stuck = stuck, !.turn = turn]
  BY DEF ReuseVerdict, Measuring, world
<1>2. /\ DOMAIN driver = StreamFields /\ IsSequence(driver.visits) /\ DocumentOK(Doc)
      /\ \A i \in DOMAIN driver.visits : KeyKnown(Doc, driver.visits[i])
      /\ KeyKnown(Doc, driver.at)
  BY <1>1, StreamFacts
<1>3. ConfigurationOK(At)
  BY <1>2, FoundConfiguration DEF At
<1>4. PICK intervals, stuck, turn :
          driver' = [driver EXCEPT !.doc = Updated(@, [At EXCEPT !.intervals = intervals]),
                                   !.stuck = stuck, !.turn = turn]
  BY <1>1
<1> DEFINE u == [At EXCEPT !.intervals = intervals]
<1>5. ConfigurationOK(u)
  BY <1>3, OtherFieldsOK
<1> HIDE DEF u
<1>6. /\ driver'.doc = Updated(Doc, u)
      /\ driver'.visits = driver.visits /\ driver'.call = driver.call /\ driver'.at = driver.at
      /\ DOMAIN driver' = StreamFields /\ driver'.pc = "measure"
  BY <1>1, <1>2, <1>4 DEF StreamFields, Doc, u
<1>7. /\ DocumentOK(driver'.doc) /\ driver'.doc.rows = Doc.rows
      /\ driver'.doc.described = Doc.described
      /\ driver'.doc.inventory = Doc.inventory /\ driver'.doc.composed = Doc.composed
      /\ DOMAIN driver'.doc.candidates = DOMAIN Doc.candidates
      /\ \A i \in DOMAIN Doc.candidates : driver'.doc.candidates[i].key = Doc.candidates[i].key
  BY <1>2, <1>5, <1>6, OtherConfigurationOK
<1>8. \A key : KeyKnown(Doc, key) => KeyKnown(driver'.doc, key)
  BY <1>7 DEF KeyKnown
<1>9. KeysKnown(driver')
  BY <1>2, <1>6, <1>8 DEF KeysKnown
<1>10. driver'.pc \in Streaming /\ IsSequence(driver'.visits)
  BY <1>2, <1>6 DEF Streaming
<1> QED
  BY <1>1, <1>6, <1>7, <1>9, <1>10, StreamStep

----------------------------------------------------------------------------
(* The steps that time something.                                          *)

\* No row of a load that has a result, in a step that times something.
NoRerun ==
    Len(disk'.rows) = Len(disk.rows) + 1 /\ probes' # probes =>
        LET new == disk'.rows[Len(disk'.rows)]
        IN  \A r \in RowsOf(disk.rows, new.candidate) :
                disk.rows[r].batch = new.batch => disk.rows[r].status = "contaminated"

LEMMA NothingTimed ==
    ASSUME StageInv, disk' = disk \/ probes' = probes
    PROVE  NoRerun
<1>1. Len(disk.rows) \in Nat
  BY SequenceAppend DEF StageInv, DocumentOK, RowsOK
<1>2. ~(Len(disk'.rows) = Len(disk.rows) + 1 /\ probes' # probes)
  <2>1. CASE disk' = disk
    <3>1. Len(disk'.rows) = Len(disk.rows)
      BY <2>1
    <3> QED
      BY ONLY <1>1, <3>1
  <2>2. CASE probes' = probes
    BY <2>2
  <2> QED
    BY <2>1, <2>2
<1> QED
  BY <1>2 DEF NoRerun

LEMMA MinIsElement ==
    ASSUME NEW S \in SUBSET Nat, S # {}
    PROVE  Min(S) \in S
<1> DEFINE Less == OpToRel(<, Nat)
<1>1. \A a, b \in Nat : a < b => <<a, b>> \in Less
  BY DEF OpToRel
<1>2. IsWellFoundedOn(Less, Nat)
  BY NatLessThanWellFounded
<1> HIDE DEF Less
<1>3. PICK x \in S : \A y \in S : <<y, x>> \notin Less
  BY <1>2, WFMin
<1>4. \A y \in S : x <= y
  <2> SUFFICES ASSUME NEW y \in S PROVE x <= y
    OBVIOUS
  <2>1. x \in Nat /\ y \in Nat /\ ~(y < x)
    BY <1>1, <1>3
  <2> QED
    BY ONLY <2>1
<1> QED
  BY <1>3, <1>4 DEF Min

LEMMA NewRowOK ==
    ASSUME NEW p, NEW key, NEW batch, NEW role, NEW outcome
    PROVE  /\ RowOK(Row(p, key, batch, role, outcome))
           /\ Row(p, key, batch, role, outcome).candidate = key
           /\ Row(p, key, batch, role, outcome).batch = batch
  BY DEF RowOK, Row

\* The journal after another row.
LEMMA LongerJournal ==
    ASSUME NEW rows, NEW row, RowsOK(rows), RowOK(row)
    PROVE  /\ RowsOK(Append(rows, row)) /\ ProbesIn(rows) \subseteq ProbesIn(Append(rows, row))
           /\ Len(rows) \in Nat /\ Len(rows) + 1 \in DOMAIN Append(rows, row)
           /\ Len(Append(rows, row)) = Len(rows) + 1
           /\ Append(rows, row)[Len(rows) + 1] = row
<1>1. /\ DOMAIN rows = 1 .. Len(rows) /\ Len(rows) \in Nat
      /\ DOMAIN Append(rows, row) = 1 .. Len(rows) + 1
      /\ Len(Append(rows, row)) = Len(rows) + 1
      /\ \A i \in DOMAIN rows : Append(rows, row)[i] = rows[i]
      /\ Append(rows, row)[Len(rows) + 1] = row
  BY SequenceAppend DEF RowsOK
<1>2. /\ \A i \in DOMAIN rows : i \in DOMAIN Append(rows, row)
      /\ Len(rows) + 1 \in DOMAIN Append(rows, row)
  BY ONLY <1>1
<1>3. ProbesIn(rows) \subseteq ProbesIn(Append(rows, row))
  BY <1>1, <1>2 DEF ProbesIn
<1>4. RowsOK(Append(rows, row))
  BY RowsAppend
<1> QED
  BY ONLY <1>1, <1>2, <1>3, <1>4

LEMMA InterruptStep ==
    ASSUME StageInv, driver.pc \in {"stream", "measure"}, NEW doc, driver' = Interrupt(doc)
    PROVE  /\ driver'.pc = "finish" /\ driver'.doc = doc /\ driver'.call = driver.call
           /\ driver'.visits = driver.visits /\ DOMAIN driver' = StreamFields
<1>1. DOMAIN driver = StreamFields
  BY StreamFacts
<1> QED
  BY <1>1 DEF Interrupt, StreamFields

LEMMA BusyStep ==
    ASSUME StageInv, driver.pc \in {"stream", "measure"}, Busy, UNCHANGED <<disk, saved, sidecars>>
    PROVE  StageInv'
<1>1. driver' = Interrupt(Doc)
  BY DEF Busy
<1>2. /\ driver'.pc = "finish" /\ driver'.doc = Doc /\ driver'.call = driver.call
      /\ driver'.visits = driver.visits /\ DOMAIN driver' = StreamFields
  BY <1>1, InterruptStep
<1>3. driver'.doc = driver.doc
  BY <1>2 DEF Doc
<1> QED
  BY <1>2, <1>3, IdleDocument

LEMMA ContaminatedStep ==
    ASSUME StageInv, driver.pc = "stream", NEW p, DescribeContaminated(p), UNCHANGED <<saved, sidecars>>
    PROVE  StageInv' /\ disk' = disk
<1> DEFINE row == Row(p, {p}, driver.call.points[p], "train", "contaminated")
           rows == Append(Doc.rows, row)
           doc == [Doc EXCEPT !.rows = rows]
<1>1. driver' = Interrupt(doc) /\ disk' = disk
  BY DEF DescribeContaminated
<1>2. DocumentOK(Doc) /\ IsSequence(driver.visits)
  BY StreamFacts
<1>3. RowOK(row) /\ RowsOK(Doc.rows)
  BY <1>2, NewRowOK DEF DocumentOK
<1> HIDE DEF row
<1>4. RowsOK(rows) /\ ProbesIn(Doc.rows) \subseteq ProbesIn(rows)
  BY <1>3, LongerJournal
<1> HIDE DEF rows
<1>5. /\ DocumentOK(doc) /\ doc.rows = rows /\ doc.described = Doc.described
      /\ doc.inventory = Doc.inventory /\ doc.composed = Doc.composed
  BY <1>2, <1>4, OtherRowsOK
<1> HIDE DEF doc
<1>6. /\ driver'.pc = "finish" /\ driver'.doc = doc /\ driver'.call = driver.call
      /\ driver'.visits = driver.visits /\ DOMAIN driver' = StreamFields
  BY <1>1, InterruptStep
<1>7. KeysKnown(driver') /\ driver'.pc \in Streaming
  BY <1>6 DEF KeysKnown, Streaming
<1>8. StageInv'
  BY <1>1, <1>2, <1>4, <1>5, <1>6, <1>7, StreamStep
<1> QED
  BY <1>1, <1>8

\* A filed configuration is found under its key.
LEMMA FiledIsKnown ==
    ASSUME NEW s, NEW c, ConfigurationsOK(s), ConfigurationOK(c)
    PROVE  \E i \in DOMAIN Filed(s, c) : Filed(s, c)[i].key = c.key
<1>1. CASE \E i \in DOMAIN s : s[i].key = c.key
  <2> DEFINE t == [i \in DOMAIN s |-> IF s[i].key = c.key THEN MergeCandidate(s[i], c) ELSE s[i]]
  <2>1. Filed(s, c) = t
    BY <1>1 DEF Filed
  <2>2. PICK i \in DOMAIN s : s[i].key = c.key
    BY <1>1
  <2>3. MergeCandidate(s[i], c).key = s[i].key
    BY <2>2 DEF MergeCandidate, ConfigurationsOK, ConfigurationOK
  <2>4. i \in DOMAIN t /\ t[i].key = c.key
    BY <2>2, <2>3
  <2> QED
    BY <2>1, <2>4
<1>2. CASE ~ \E i \in DOMAIN s : s[i].key = c.key
  <2>1. Filed(s, c) = Append(s, c)
    BY <1>2 DEF Filed
  <2>2. IsSequence(s)
    BY DEF ConfigurationsOK
  <2>3. /\ Len(s) \in Nat /\ DOMAIN Append(s, c) = 1 .. Len(s) + 1
        /\ Append(s, c)[Len(s) + 1] = c
    BY <2>2, SequenceAppend
  <2>4. Len(s) + 1 \in DOMAIN Append(s, c)
    BY ONLY <2>3
  <2> QED
    BY <2>1, <2>3, <2>4
<1> QED
  BY <1>1, <1>2

LEMMA DescribeStep ==
    ASSUME StageInv, driver.pc = "stream", UNCHANGED <<saved, sidecars>>,
           NEW p \in DOMAIN driver.call.points, ~Known(Doc, driver.call, p),
           NEW status \in {"resolved", "rejected"}, NEW room \in Memory, Describe(p, status, room)
    PROVE  StageInv' /\ Grown(disk, disk') /\ probes' = probes
<1> DEFINE d == [status |-> status, batch |-> driver.call.points[p], room |-> room]
           c == Candidate(revision, p, d)
           filed == Filed(Doc.candidates, c)
           doc == [Doc EXCEPT !.described[p] = d, !.candidates = filed]
<1>1. /\ disk' = Written(doc)
      /\ driver' = [driver EXCEPT !.doc = doc, !.visits = <<c.key>>, !.statics = Tail(@)]
      /\ probes' = probes
  BY DEF Describe
<1>2. /\ DOMAIN driver = StreamFields /\ DocumentOK(Doc) /\ driver.call \in Calls /\ DocumentOK(disk)
      /\ Doc.rows = disk.rows /\ Doc.described = disk.described
      /\ disk.inventory \subseteq Doc.inventory /\ disk.composed \subseteq Doc.composed
  BY StreamFacts
<1>3. p \in Points /\ driver.call.points[p] \in Nat /\ room \in Nat
  BY <1>2, CalibrationAssumption
<1>4. d \in Description
  BY <1>3 DEF Description
<1>5. d.batch = driver.call.points[p]
  OBVIOUS
<1> HIDE DEF d
<1>6. ConfigurationOK(c)
  BY <1>3, <1>4, CandidateOK
<1> HIDE DEF c
<1>7. ConfigurationsOK(filed) /\ \E i \in DOMAIN filed : filed[i].key = c.key
  BY <1>2, <1>6, FiledOK, FiledIsKnown DEF DocumentOK
<1> HIDE DEF filed
<1>8. /\ DOMAIN doc = DOMAIN Doc /\ doc.rows = Doc.rows /\ doc.candidates = filed
      /\ doc.inventory = Doc.inventory /\ doc.composed = Doc.composed
      /\ doc.described = [Doc.described EXCEPT ![p] = d]
  BY <1>2 DEF DocumentOK
<1> HIDE DEF doc
<1>9. /\ DescriptionsOK(doc.described) /\ doc.described[p] = d
      /\ \A q \in Points : q # p => doc.described[q] = Doc.described[q]
  BY <1>2, <1>3, <1>4, <1>8 DEF DocumentOK, DescriptionsOK
<1>10. DocumentOK(doc)
  BY <1>2, <1>7, <1>8, <1>9 DEF DocumentOK
<1>11. /\ DocumentOK(disk') /\ disk'.status = "running"
       /\ disk'.rows = doc.rows /\ disk'.described = doc.described
       /\ disk'.inventory = doc.inventory /\ disk'.composed = doc.composed
  BY <1>1, <1>10, WrittenOK DEF Written
<1>12. /\ driver'.doc = doc /\ driver'.visits = <<c.key>> /\ driver'.call = driver.call
       /\ DOMAIN driver' = StreamFields /\ driver'.pc = "stream"
  BY <1>1, <1>2 DEF StreamFields
<1>13. IsSequence(driver'.visits) /\ \A i \in DOMAIN driver'.visits : driver'.visits[i] = c.key
  <2>1. ASSUME NEW k, NEW s, s = <<k>> PROVE IsSequence(s) /\ \A i \in DOMAIN s : s[i] = k
    <3>1. DOMAIN s = {1} /\ s[1] = k
      BY <2>1
    <3>2. s \in Seq({k}) /\ {s[i] : i \in DOMAIN s} = {k}
      BY <2>1, <3>1
    <3> QED
      BY <3>1, <3>2 DEF IsSequence
  <2> QED
    BY <1>12, <2>1
<1>14. KeysKnown(driver') /\ driver'.pc \in Streaming
  BY <1>7, <1>8, <1>12, <1>13 DEF KeysKnown, KeyKnown, Streaming
<1>15. StageInv'
  BY <1>8, <1>10, <1>11, <1>12, <1>13, <1>14, StreamStep
<1>16. \A q \in ResolvedPoints(disk) : disk.described[q].batch <= disk'.described[q].batch
  <2> SUFFICES ASSUME NEW q \in Points, disk.described[q].status = "resolved"
               PROVE  disk.described[q].batch <= disk'.described[q].batch
    BY DEF ResolvedPoints
  <2>1. disk.described[q].batch \in Nat
    BY <1>2 DEF DocumentOK, DescriptionsOK, Description
  <2>2. CASE q = p
    BY <1>2, <1>3, <1>5, <1>9, <1>11, <2>1, <2>2 DEF Known
  <2>3. CASE q # p
    BY <1>2, <1>9, <1>11, <2>1, <2>3
  <2> QED
    BY <2>2, <2>3
<1>17. Grown(disk, disk')
  BY <1>2, <1>8, <1>11, <1>16 DEF Grown
<1> QED
  BY <1>1, <1>15, <1>17

LEMMA DescribeNextStep ==
    ASSUME StageInv, DescribeNext
    PROVE  StageInv' /\ (disk' = disk \/ Grown(disk, disk')) /\ (disk' = disk \/ probes' = probes)
<1>1. driver.pc = "stream" /\ UNCHANGED <<saved, sidecars>>
  BY DEF DescribeNext, world
<1>2. PICK p \in DOMAIN driver.call.points :
         /\ ~Known(Doc, driver.call, p)
         /\ \/ Busy /\ UNCHANGED <<disk, probes>>
            \/ DescribeContaminated(p)
            \/ \E status \in {"resolved", "rejected"}, room \in Memory : Describe(p, status, room)
  BY DEF DescribeNext
<1>3. CASE Busy /\ UNCHANGED <<disk, probes>>
  BY <1>1, <1>3, BusyStep
<1>4. CASE DescribeContaminated(p)
  BY <1>1, <1>4, ContaminatedStep
<1>5. CASE \E status \in {"resolved", "rejected"}, room \in Memory : Describe(p, status, room)
  BY <1>1, <1>2, <1>5, DescribeStep
<1> QED
  BY <1>2, <1>3, <1>4, <1>5

\* A seed load is timed.
LEMMA LoadMeasured ==
    ASSUME StageInv, driver.pc = "measure", LoadsLeft # {}, UNCHANGED <<saved, sidecars>>,
           NEW outcome, MeasureLoad(outcome)
    PROVE  StageInv' /\ Grown(disk, disk') /\ NoRerun
<1> DEFINE batch == Min(LoadsLeft)
           row == Row(At.point, driver.at, batch, "train", outcome)
           rows == Append(Doc.rows, row)
           doc == [Doc EXCEPT !.rows = rows]
           u == [At EXCEPT !.omitted = @ \cup {"batch-unavailable"}]
<1>1. /\ disk' = Written(doc)
      /\ \/ driver' = [driver EXCEPT !.doc = doc]
         \/ driver' = Interrupt(doc)
         \/ driver' = [driver EXCEPT !.doc = Updated(doc, u), !.stuck = TRUE]
  BY DEF MeasureLoad
<1>2. /\ DOMAIN driver = StreamFields /\ DocumentOK(Doc) /\ DocumentOK(disk)
      /\ IsSequence(driver.visits)
      /\ Doc.rows = disk.rows /\ Doc.described = disk.described
      /\ disk.inventory \subseteq Doc.inventory /\ disk.composed \subseteq Doc.composed
      /\ \A i \in DOMAIN driver.visits : KeyKnown(Doc, driver.visits[i])
      /\ KeyKnown(Doc, driver.at)
  BY StreamFacts
<1>3. ConfigurationOK(At) /\ ConfigurationOK(u)
  BY <1>2, FoundConfiguration, OtherFieldsOK DEF At
<1>4. batch \in LoadsLeft
  BY <1>3, MinIsElement DEF LoadsLeft, ConfigurationOK
<1>5. batch \notin Seen(Doc, driver.at)
  BY <1>4 DEF LoadsLeft, SeenHere
<1>6. RowOK(row) /\ row.candidate = driver.at /\ row.batch = batch /\ RowsOK(Doc.rows)
  BY <1>2, NewRowOK DEF DocumentOK
<1> HIDE DEF row, batch, u
<1>7. /\ RowsOK(rows) /\ ProbesIn(Doc.rows) \subseteq ProbesIn(rows)
      /\ Len(rows) = Len(Doc.rows) + 1 /\ rows[Len(Doc.rows) + 1] = row
  BY <1>6, LongerJournal
<1> HIDE DEF rows
<1>8. /\ DocumentOK(doc) /\ doc.rows = rows /\ doc.described = Doc.described
      /\ doc.inventory = Doc.inventory /\ doc.composed = Doc.composed
      /\ doc.candidates = Doc.candidates
  BY <1>2, <1>7, OtherRowsOK
<1> HIDE DEF doc
<1>9. /\ DocumentOK(disk') /\ disk'.status = "running"
      /\ disk'.rows = rows /\ disk'.described = Doc.described
      /\ disk'.inventory = Doc.inventory /\ disk'.composed = Doc.composed
  BY <1>1, <1>8, WrittenOK DEF Written
<1>10. Grown(disk, disk')
  BY <1>2, <1>7, <1>9, GrownReflexive
<1>11. NoRerun
  <2>1. Len(disk'.rows) = Len(Doc.rows) + 1 /\ disk'.rows[Len(disk'.rows)] = row
    BY <1>7, <1>9
  <2>2. \A r \in RowsOf(disk.rows, driver.at) :
           disk.rows[r].batch = batch => disk.rows[r].status = "contaminated"
    BY <1>2, <1>5 DEF Seen
  <2> QED
    BY <1>6, <2>1, <2>2 DEF NoRerun
<1>12. \A key : KeyKnown(Doc, key) => KeyKnown(doc, key)
  BY <1>8 DEF KeyKnown
<1>13. CASE driver' = [driver EXCEPT !.doc = doc]
  <2>1. /\ driver'.doc = doc /\ driver'.visits = driver.visits /\ driver'.call = driver.call
        /\ driver'.at = driver.at /\ DOMAIN driver' = StreamFields /\ driver'.pc = "measure"
    BY <1>2, <1>13 DEF StreamFields
  <2>2. KeysKnown(driver') /\ driver'.pc \in Streaming
    BY <1>2, <1>12, <2>1 DEF KeysKnown, Streaming
  <2> QED
    BY <1>2, <1>8, <1>9, <1>10, <1>11, <2>1, <2>2, StreamStep
<1>14. CASE driver' = Interrupt(doc)
  <2>1. /\ driver'.pc = "finish" /\ driver'.doc = doc /\ driver'.call = driver.call
        /\ driver'.visits = driver.visits /\ DOMAIN driver' = StreamFields
    BY <1>14, InterruptStep
  <2>2. KeysKnown(driver') /\ driver'.pc \in Streaming
    BY <2>1 DEF KeysKnown, Streaming
  <2> QED
    BY <1>2, <1>8, <1>9, <1>10, <1>11, <2>1, <2>2, StreamStep
<1>15. CASE driver' = [driver EXCEPT !.doc = Updated(doc, u), !.stuck = TRUE]
  <2>1. /\ driver'.doc = Updated(doc, u) /\ driver'.visits = driver.visits
        /\ driver'.call = driver.call
        /\ driver'.at = driver.at /\ DOMAIN driver' = StreamFields /\ driver'.pc = "measure"
    BY <1>2, <1>15 DEF StreamFields
  <2>2. /\ DocumentOK(driver'.doc) /\ driver'.doc.rows = rows
        /\ driver'.doc.described = Doc.described
        /\ driver'.doc.inventory = Doc.inventory /\ driver'.doc.composed = Doc.composed
        /\ DOMAIN driver'.doc.candidates = DOMAIN doc.candidates
        /\ \A i \in DOMAIN doc.candidates : driver'.doc.candidates[i].key = doc.candidates[i].key
    BY <1>3, <1>8, <2>1, OtherConfigurationOK
  <2>3. \A key : KeyKnown(Doc, key) => KeyKnown(driver'.doc, key)
    BY <1>12, <2>2 DEF KeyKnown
  <2>4. KeysKnown(driver') /\ driver'.pc \in Streaming
    BY <1>2, <2>1, <2>3 DEF KeysKnown, Streaming
  <2> QED
    BY <1>2, <1>9, <1>10, <1>11, <2>1, <2>2, <2>4, StreamStep
<1> QED
  BY <1>1, <1>13, <1>14, <1>15

\* The midpoint of an interval is timed and checked.
LEMMA HoldoutMeasured ==
    ASSUME StageInv, driver.pc = "measure", UNCHANGED <<saved, sidecars>>,
           Midpoint(NextInterval(Doc.rows, At)) \notin SeenHere,
           NEW outcome, MeasureHoldout(outcome)
    PROVE  StageInv' /\ Grown(disk, disk') /\ NoRerun
<1> DEFINE iv == NextInterval(Doc.rows, At)
           batch == Midpoint(iv)
           row == Row(At.point, driver.at, batch, "validation", outcome)
           longer == Append(Doc.rows, row)
           rows == AdaptiveValidation(revision, longer, Len(Doc.rows) + 1)
           state == IntervalState(rows[Len(rows)].checks)
           u == [At EXCEPT !.intervals = (iv :> state) @@ @]
           with == [Doc EXCEPT !.rows = rows]
           doc == Updated(with, u)
<1>1. /\ disk' = Written(doc)
      /\ \/ \E stuck : driver' = [driver EXCEPT !.doc = doc, !.stuck = stuck]
         \/ driver' = Interrupt(doc)
  BY DEF MeasureHoldout
<1>2. /\ DOMAIN driver = StreamFields /\ DocumentOK(Doc) /\ DocumentOK(disk)
      /\ IsSequence(driver.visits)
      /\ Doc.rows = disk.rows /\ Doc.described = disk.described
      /\ disk.inventory \subseteq Doc.inventory /\ disk.composed \subseteq Doc.composed
      /\ \A i \in DOMAIN driver.visits : KeyKnown(Doc, driver.visits[i])
      /\ KeyKnown(Doc, driver.at)
  BY StreamFacts
<1>3. ConfigurationOK(At)
  BY <1>2, FoundConfiguration DEF At
<1>4. batch \notin Seen(Doc, driver.at)
  BY DEF SeenHere
<1> HIDE DEF batch, state, iv
<1>5. ConfigurationOK(u)
  BY <1>3, OtherFieldsOK
<1>6. RowOK(row) /\ row.candidate = driver.at /\ row.batch = batch /\ RowsOK(Doc.rows)
  BY <1>2, NewRowOK DEF DocumentOK
<1> HIDE DEF row, u
<1>7. /\ RowsOK(longer) /\ ProbesIn(Doc.rows) \subseteq ProbesIn(longer)
      /\ Len(Doc.rows) + 1 \in DOMAIN longer
      /\ Len(longer) = Len(Doc.rows) + 1 /\ longer[Len(Doc.rows) + 1] = row
  BY <1>6, LongerJournal
<1> HIDE DEF longer
<1>8. RowsOK(rows) /\ SameProbes(longer, rows)
  BY <1>7, AdaptiveKeeps
<1> HIDE DEF rows
<1>9. /\ ProbesIn(Doc.rows) \subseteq ProbesIn(rows) /\ Len(rows) = Len(Doc.rows) + 1
      /\ rows[Len(Doc.rows) + 1].candidate = driver.at
      /\ rows[Len(Doc.rows) + 1].batch = batch
  <2>1. ProbesIn(rows) = ProbesIn(longer)
    BY <1>8 DEF ProbesIn, SameProbes, SameProbe
  <2>2. /\ DOMAIN rows = 1 .. Len(rows) /\ Len(rows) \in Nat
        /\ DOMAIN longer = 1 .. Len(longer) /\ Len(longer) \in Nat
    BY <1>7, <1>8, SequenceAppend DEF RowsOK
  <2>3. DOMAIN rows = DOMAIN longer
    BY <1>8 DEF SameProbes
  <2>4. Len(rows) = Len(longer)
    <3>1. ASSUME NEW a \in Nat, NEW b \in Nat, a < b PROVE 1 .. a # 1 .. b
      <4>1. b \in 1 .. b /\ b \notin 1 .. a
        BY ONLY <3>1
      <4> QED
        BY ONLY <4>1
    <3>2. ASSUME NEW a \in Nat, NEW b \in Nat, 1 .. a = 1 .. b PROVE a = b
      <4>1. ~(a < b) /\ ~(b < a)
        BY <3>1, <3>2
      <4> QED
        BY ONLY <3>2, <4>1
    <3>3. 1 .. Len(rows) = 1 .. Len(longer)
      BY ONLY <2>2, <2>3
    <3>4. Len(rows) \in Nat /\ Len(longer) \in Nat
      BY ONLY <2>2
    <3> QED
      BY ONLY <3>2, <3>3, <3>4
  <2>5. SameProbe(longer[Len(Doc.rows) + 1], rows[Len(Doc.rows) + 1])
    BY <1>7, <1>8 DEF SameProbes
  <2> QED
    BY <1>6, <1>7, <2>1, <2>4, <2>5 DEF SameProbe
<1>10. /\ DocumentOK(with) /\ with.rows = rows /\ with.described = Doc.described
       /\ with.inventory = Doc.inventory /\ with.composed = Doc.composed
       /\ with.candidates = Doc.candidates
  BY <1>2, <1>8, OtherRowsOK
<1> HIDE DEF with
<1>11. /\ DocumentOK(doc) /\ doc.rows = rows /\ doc.described = Doc.described
       /\ doc.inventory = Doc.inventory /\ doc.composed = Doc.composed
       /\ DOMAIN doc.candidates = DOMAIN Doc.candidates
       /\ \A i \in DOMAIN Doc.candidates : doc.candidates[i].key = Doc.candidates[i].key
  BY <1>5, <1>10, OtherConfigurationOK
<1> HIDE DEF doc
<1>12. /\ DocumentOK(disk') /\ disk'.status = "running"
       /\ disk'.rows = rows /\ disk'.described = Doc.described
       /\ disk'.inventory = Doc.inventory /\ disk'.composed = Doc.composed
  <2>1. disk' = [doc EXCEPT !.status = "running"] /\ DocumentOK(doc)
    BY <1>1, <1>11 DEF Written
  <2> QED
    BY <1>11, <2>1, WrittenOK
<1>13. Grown(disk, disk')
  BY <1>2, <1>9, <1>12, GrownReflexive
<1>14. NoRerun
  <2>1. /\ Len(disk'.rows) = Len(Doc.rows) + 1
        /\ disk'.rows[Len(disk'.rows)].candidate = driver.at
        /\ disk'.rows[Len(disk'.rows)].batch = batch
    BY <1>9, <1>12
  <2>2. \A r \in RowsOf(disk.rows, driver.at) :
           disk.rows[r].batch = batch => disk.rows[r].status = "contaminated"
    BY <1>2, <1>4 DEF Seen
  <2> QED
    BY <2>1, <2>2 DEF NoRerun
<1>15. \A key : KeyKnown(Doc, key) => KeyKnown(doc, key)
  BY <1>11 DEF KeyKnown
<1>16. CASE \E stuck : driver' = [driver EXCEPT !.doc = doc, !.stuck = stuck]
  <2>1. /\ driver'.doc = doc /\ driver'.visits = driver.visits /\ driver'.call = driver.call
        /\ driver'.at = driver.at /\ DOMAIN driver' = StreamFields /\ driver'.pc = "measure"
    BY <1>2, <1>16 DEF StreamFields
  <2>2. KeysKnown(driver') /\ driver'.pc \in Streaming
    BY <1>2, <1>15, <2>1 DEF KeysKnown, Streaming
  <2> QED
    BY <1>2, <1>11, <1>12, <1>13, <1>14, <2>1, <2>2, StreamStep
<1>17. CASE driver' = Interrupt(doc)
  <2>1. /\ driver'.pc = "finish" /\ driver'.doc = doc /\ driver'.call = driver.call
        /\ driver'.visits = driver.visits /\ DOMAIN driver' = StreamFields
    BY <1>17, InterruptStep
  <2>2. KeysKnown(driver') /\ driver'.pc \in Streaming
    BY <2>1 DEF KeysKnown, Streaming
  <2> QED
    BY <1>2, <1>11, <1>12, <1>13, <1>14, <2>1, <2>2, StreamStep
<1> QED
  BY <1>1, <1>16, <1>17

LEMMA MeasureStep ==
    ASSUME StageInv, Measure
    PROVE  StageInv' /\ (disk' = disk \/ Grown(disk, disk')) /\ NoRerun
<1>1. /\ driver.pc = "measure" /\ UNCHANGED <<saved, sidecars>>
      /\ \/ Busy /\ UNCHANGED <<disk, probes>>
         \/ \E outcome : \/ LoadsLeft # {} /\ MeasureLoad(outcome)
                         \/ /\ Midpoint(NextInterval(Doc.rows, At)) \notin SeenHere
                            /\ MeasureHoldout(outcome)
  BY DEF Measure, Measuring, world
<1>2. CASE Busy /\ UNCHANGED <<disk, probes>>
  BY <1>1, <1>2, BusyStep, NothingTimed
<1>3. CASE \E outcome : LoadsLeft # {} /\ MeasureLoad(outcome)
  BY <1>1, <1>3, LoadMeasured
<1>4. CASE \E outcome : /\ Midpoint(NextInterval(Doc.rows, At)) \notin SeenHere
                        /\ MeasureHoldout(outcome)
  BY <1>1, <1>4, HoldoutMeasured
<1> QED
  BY <1>1, <1>2, <1>3, <1>4

----------------------------------------------------------------------------
(* The theorems.                                                           *)

LEMMA EveryStep ==
    ASSUME StageInv, Next
    PROVE  /\ StageInv' /\ NoRerun
           /\ ~StartOver => Grown(disk, disk')
           /\ ImportCheckpoint => ProbesIn(saved.rows) \subseteq ProbesIn(disk'.rows)
<1>1. ImportCheckpoint => ProbesIn(saved.rows) \subseteq ProbesIn(disk'.rows)
  BY ImportStep
<1>2. disk' = disk => Grown(disk, disk')
  BY GrownReflexive DEF StageInv
<1>3. ASSUME NEW call \in Calls, BeginCall(call)
      PROVE  StageInv' /\ NoRerun /\ Grown(disk, disk')
  <2>1. disk' = disk
    BY <1>3 DEF BeginCall
  <2> QED
    BY <1>2, <1>3, <2>1, BeginStep, NothingTimed
<1>4. CASE ImportCheckpoint
  <2>1. probes' = probes
    BY <1>4 DEF ImportCheckpoint
  <2> QED
    BY <1>4, <2>1, ImportStep, NothingTimed
<1>5. CASE LoadCheckpoint
  <2>1. disk' = disk
    BY <1>5 DEF LoadCheckpoint
  <2> QED
    BY <1>1, <1>2, <1>5, <2>1, LoadStep, NothingTimed
<1>6. CASE WriteComposition \/ WriteInventory
  <2>1. disk' = disk
    BY <1>6 DEF WriteComposition, WriteInventory
  <2> QED
    BY <1>1, <1>2, <1>6, <2>1, SidecarStep, NothingTimed
<1>7. CASE WriteFirst
  <2>1. probes' = probes
    BY <1>7 DEF WriteFirst
  <2> QED
    BY <1>1, <1>7, <2>1, FirstStep, NothingTimed
<1>8. CASE Visit
  <2>1. disk' = disk
    BY <1>8 DEF Visit
  <2> QED
    BY <1>1, <1>2, <1>8, <2>1, VisitStep, NothingTimed
<1>9. CASE SkipKnown
  <2>1. disk' = disk
    BY <1>9 DEF SkipKnown
  <2> QED
    BY <1>1, <1>2, <1>9, <2>1, SkipStep, NothingTimed
<1>10. CASE DescribeNext
  BY <1>1, <1>2, <1>10, DescribeNextStep, NothingTimed
<1>11. CASE EndStream \/ EndCandidate \/ TimeOver
  <2>1. disk' = disk
    BY <1>11 DEF EndStream, EndCandidate, TimeOver
  <2> QED
    BY <1>1, <1>2, <1>11, <2>1, EndStep, NothingTimed
<1>12. CASE Measure
  BY <1>1, <1>2, <1>12, MeasureStep
<1>13. CASE ReuseVerdict
  <2>1. disk' = disk
    BY <1>13 DEF ReuseVerdict
  <2> QED
    BY <1>1, <1>2, <1>13, <2>1, ReuseStep, NothingTimed
<1>14. CASE Finish
  <2>1. probes' = probes
    BY <1>14 DEF Finish
  <2> QED
    BY <1>1, <1>14, <2>1, FinishStep, NothingTimed
<1>15. CASE Return \/ Kill
  <2>1. driver' = NoCall /\ UNCHANGED <<disk, saved, sidecars>>
    BY <1>15 DEF Return, Kill, world
  <2> QED
    BY <1>1, <1>2, <2>1, IdleStep, NothingTimed
<1>16. CASE SaveCopy \/ Upgrade
  <2>1. disk' = disk
    BY <1>16 DEF SaveCopy, Upgrade
  <2> QED
    BY <1>1, <1>2, <1>16, <2>1, EnvironmentStep, NothingTimed
<1>17. CASE StartOver
  <2>1. probes' = probes
    BY <1>17 DEF StartOver
  <2> QED
    BY <1>1, <1>17, <2>1, EnvironmentStep, NothingTimed
<1> QED
  BY <1>1, <1>3, <1>4, <1>5, <1>6, <1>7, <1>8, <1>9, <1>10, <1>11, <1>12, <1>13, <1>14, <1>15,
     <1>16, <1>17 DEF Next, Working

LEMMA Invariance == Spec => []StageInv
<1>1. StageInit => StageInv
  BY InitInv
<1>2. StageInv /\ [Next]_vars => StageInv'
  <2>1. ASSUME StageInv, UNCHANGED vars PROVE StageInv'
    BY <2>1 DEF vars, StageInv
  <2> QED
    BY <2>1, EveryStep
<1> QED
  BY <1>1, <1>2, PTL DEF Spec

\* The audit files a checkpoint names are there whenever the checkpoint is, after
\* a kill between any two writes and after an import.
THEOREM SidecarsAlwaysResolve == Spec => []SidecarsResolve
<1>1. StageInv => SidecarsResolve
  BY DEF StageInv, Filing, FilesOf, SidecarsResolve
<1> QED
  BY <1>1, Invariance, PTL

\* No probe, request or description is lost, and no configuration is timed again
\* at a load whose result is in the checkpoint: for any number of calls, kills,
\* imports, copies and changes of the curve model.
THEOREM EvidenceIsKept == Spec => EvidenceKept
<1> DEFINE Stays ==
              ~StartOver =>
                /\ ProbesOf(disk) \subseteq ProbesOf(disk')
                /\ ImportCheckpoint => ProbesOf(saved) \subseteq ProbesOf(disk')
                /\ disk.inventory \subseteq disk'.inventory
                /\ disk.composed \subseteq disk'.composed
                /\ \A p \in ResolvedPoints(disk) : disk.described[p].batch <= disk'.described[p].batch
<1>1. StageInv /\ [Next]_vars => [Stays]_vars
  BY EveryStep DEF Grown, ProbesOf, ProbesIn
<1>2. StageInv /\ [Next]_vars => [NoRerun]_vars
  BY EveryStep
<1>3. Spec => ProbesStay
  BY <1>1, Invariance, PTL DEF Spec, ProbesStay
<1>4. Spec => NothingRerun
  BY <1>2, Invariance, PTL DEF Spec, NothingRerun, NoRerun
<1> QED
  BY <1>3, <1>4 DEF EvidenceKept
=============================================================================
