------------------------------ MODULE FoldProofs ------------------------------
(***************************************************************************)
(* The slot handshake of the two kernels whose warps pass tokens of a fold *)
(* to each other, hybrid_dataflow_kernel and appt_pipeline_kernel, for all *)
(* sets of valid launches: every size of a fold, of a packet, of a role    *)
(* and of a ring, every number of replicas, blocks and threads of a warp,  *)
(* both handoffs, and whatever the flags held when the kernel began.       *)
(*                                                                         *)
(* One ring is one producer, one consumer and a flag per slot.  What its   *)
(* flags say is stated once, by Ring, in terms of how many packets have    *)
(* been put in and given back; the invariant of each kernel ties those     *)
(* two numbers to its warps' counters and program counters.                *)
(***************************************************************************)
EXTENDS MCFolds, TLAPS

----------------------------------------------------------------------------
(* Arithmetic.                                                             *)

LEMMA DivMod ==
    ASSUME NEW a \in Nat, NEW m \in Nat \ {0}
    PROVE  /\ a \div m \in Nat
           /\ a % m \in 0 .. m - 1
           /\ a = (a \div m) * m + (a % m)
  BY SMT

(* The next multiple.                                                     *)
LEMMA ProductStep ==
    ASSUME NEW x \in Nat, NEW y \in Nat, NEW m \in Nat \ {0}, x < y
    PROVE  x * m + m <= y * m
  BY SMT

(* A quotient and a remainder determine, and are determined by, the number. *)
LEMMA DivModUnique ==
    ASSUME NEW m \in Nat \ {0}, NEW q \in Nat, NEW r \in 0 .. m - 1
    PROVE  /\ (q * m + r) \div m = q
           /\ (q * m + r) % m = r
<1> DEFINE a == q * m + r
           x == a \div m
           y == a % m
<1>1. a \in Nat
  BY SMT
<1>2. x \in Nat /\ y \in 0 .. m - 1 /\ a = x * m + y
  BY <1>1, DivMod
<1>3. q * m + r = x * m + y
  BY <1>2
<1>4. x = q /\ y = r
  <2> HIDE DEF x, y, a
  <2>1. CASE x < q
    <3>1. x * m + m <= q * m
      BY <2>1, <1>2, ProductStep
    <3> QED
      BY <3>1, <1>2, <1>3, SMT
  <2>2. CASE q < x
    <3>1. q * m + m <= x * m
      BY <2>2, <1>2, ProductStep
    <3> QED
      BY <3>1, <1>2, <1>3, SMT
  <2>3. CASE x = q
    BY <2>3, <1>2, <1>3, SMT
  <2> QED
    BY <2>1, <2>2, <2>3, <1>2
<1> QED
  BY <1>4

(* Numbers with the same residue are at least the modulus apart.           *)
LEMMA SameResidue ==
    ASSUME NEW m \in Nat \ {0}, NEW a \in Nat, NEW b \in Nat,
           (a % m) = (b % m), a < b
    PROVE  a + m <= b
<1> DEFINE x == a \div m
           y == b \div m
           r == a % m
<1>1. x \in Nat /\ y \in Nat /\ r \in 0 .. m - 1 /\ a = x * m + r /\ b = y * m + r
  BY DivMod
<1> HIDE DEF x, y, r
<1>2. x < y
  <2>1. CASE y <= x
    <3>1. y * m <= x * m
      BY <1>1, <2>1, SMT
    <3>2. y * m \in Nat /\ x * m \in Nat
      BY <1>1, SMT
    <3> QED
      BY <1>1, <3>1, <3>2, SMT
  <2> QED
    BY <1>1, <2>1, SMT
<1>3. x * m + m <= y * m
  BY <1>1, <1>2, ProductStep
<1>4. y * m \in Nat /\ x * m \in Nat
  BY <1>1, SMT
<1> QED
  BY <1>1, <1>3, <1>4, SMT

(* A packet and the one a whole ring later have the same slot.             *)
LEMMA ResidueStep ==
    ASSUME NEW m \in Nat \ {0}, NEW a \in Nat
    PROVE  ((a + m) % m) = (a % m)
<1> DEFINE x == a \div m
           r == a % m
<1>1. x \in Nat /\ r \in 0 .. m - 1 /\ a = x * m + r
  BY DivMod
<1> HIDE DEF x, r
<1>2. a + m = (x + 1) * m + r
  BY <1>1, SMT
<1>3. ((x + 1) * m + r) % m = r
  BY <1>1, DivModUnique
<1> QED
  BY <1>2, <1>3 DEF r

(* A number below a product has a quotient below the other factor.         *)
LEMMA QuotientBound ==
    ASSUME NEW a \in Nat, NEW b \in Nat, NEW m \in Nat \ {0}, a < b * m
    PROVE  a \div m < b
  BY SMT

(* The warps of a block are numbered row by row: every number is a warp's ... *)
LEMMA NumbersCovered ==
    ASSUME NEW rows \in Nat \ {0}, NEW k \in Nat \ {0}, NEW i \in Nat
    PROVE  \E r \in 0 .. rows - 1, q \in 0 .. k - 1 : i % (rows * k) = r * k + q
<1> DEFINE j == i % (rows * k)
<1>1. rows * k \in Nat \ {0}
  BY SMT
<1>2. j \in Nat /\ j < rows * k
  <2>1. j \in 0 .. rows * k - 1
    BY <1>1, DivMod
  <2> QED
    BY <2>1, <1>1, SMT
<1> HIDE DEF j
<1>3. j \div k \in Nat /\ j % k \in 0 .. k - 1 /\ j = (j \div k) * k + (j % k)
  BY <1>2, DivMod
<1>4. j \div k < rows
  BY <1>2, QuotientBound
<1>5. j \div k \in 0 .. rows - 1
  BY <1>3, <1>4, SMT
<1>6. j = (j \div k) * k + (j % k)
  BY <1>3
<1>7. \E r \in 0 .. rows - 1, q \in 0 .. k - 1 : j = r * k + q
  BY <1>3, <1>5, <1>6
<1> QED
  BY <1>7 DEF j

(* ... and of one warp only.                                               *)
LEMMA NumbersDistinct ==
    ASSUME NEW k \in Nat \ {0}, NEW r \in Nat, NEW s \in Nat,
           NEW q \in 0 .. k - 1, NEW t \in 0 .. k - 1,
           r * k + q = s * k + t
    PROVE  r = s /\ q = t
<1>1. (r * k + q) \div k = r /\ (r * k + q) % k = q
  BY DivModUnique
<1>2. (s * k + t) \div k = s /\ (s * k + t) % k = t
  BY DivModUnique
<1> QED
  BY <1>1, <1>2

(* A fold of some stages has a role.                                       *)
LEMMA RolesPositive ==
    ASSUME NEW stages \in Nat \ {0}, NEW r \in Nat \ {0}
    PROVE  (stages + r - 1) \div r \in Nat \ {0}
<1> DEFINE a == stages + r - 1
<1>1. a \in Nat /\ r <= a
  BY SMT
<1> HIDE DEF a
<1>2. a \div r \in Nat /\ a % r \in 0 .. r - 1 /\ a = (a \div r) * r + (a % r)
  BY <1>1, DivMod
<1>3. a \div r # 0
  <2> SUFFICES ASSUME a \div r = 0 PROVE FALSE
    OBVIOUS
  <2>1. (a \div r) * r = 0
    BY SMT
  <2> QED
    BY <2>1, <1>1, <1>2, SMT
<1>4. a \div r \in Nat \ {0}
  BY <1>2, <1>3
<1> QED
  BY <1>4 DEF a

(* The slot ring that both kernels hand packets over with: `published` have *)
(* been put in, `taken` have been given back, and full[s] is 1 for the slots *)
(* of those in between.                                                     *)
Ring(published, taken, buffers, full) ==
    /\ taken <= published
    /\ published <= taken + buffers
    /\ \A s \in 0 .. buffers - 1 :
           full[s] = 1 <=> \E n \in taken .. published - 1 : n % buffers = s

(* A ring is empty when every flag is 0 ...                               *)
LEMMA RingEmpty ==
    ASSUME NEW n \in Nat, NEW b \in Nat \ {0}, NEW full,
           \A s \in 0 .. b - 1 : full[s] = 0
    PROVE  Ring(n, n, b, full)
  BY SMT DEF Ring

(* ... and conversely.                                                    *)
LEMMA RingEmptied ==
    ASSUME NEW n \in Nat, NEW b \in Nat \ {0}, NEW full \in [0 .. b - 1 -> {0, 1}],
           Ring(n, n, b, full)
    PROVE  \A s \in 0 .. b - 1 : full[s] = 0
  BY SMT DEF Ring

(* A packet's slot is one of the ring's.                                   *)
LEMMA SlotInRange ==
    ASSUME NEW n \in Nat, NEW b \in Nat \ {0}
    PROVE  n % b \in 0 .. b - 1
  BY DivMod

(* Packets of the ring that differ have different slots.                   *)
LEMMA SlotsDiffer ==
    ASSUME NEW b \in Nat \ {0}, NEW c \in Nat, NEW m \in Nat, NEW n \in Nat,
           c <= m, m < n, n < c + b
    PROVE  n % b # m % b
<1> SUFFICES ASSUME n % b = m % b PROVE FALSE
  OBVIOUS
<1>1. m + b <= n
  BY SameResidue
<1> QED
  BY <1>1, SMT

(* A producer that finds its slot free, or has not used it yet, may fill it. *)
LEMMA RingFree ==
    ASSUME NEW p \in Nat, NEW c \in Nat, NEW b \in Nat \ {0}, NEW full,
           Ring(p, c, b, full), p < b \/ full[p % b] = 0
    PROVE  p < c + b
<1> SUFFICES ASSUME p = c + b PROVE FALSE
  BY SMT DEF Ring
<1>1. c + b >= b
  BY SMT
<1>2. (c + b) % b = c % b
  BY ResidueStep
<1>3. c \in c .. p - 1
  BY SMT
<1>4. full[p % b] = 1
  BY <1>2, <1>3, SlotInRange DEF Ring
<1> QED
  BY <1>1, <1>4, SMT

(* Filling the next slot puts one packet in ...                            *)
LEMMA RingPublish ==
    ASSUME NEW p \in Nat, NEW c \in Nat, NEW b \in Nat \ {0}, NEW full, NEW after,
           Ring(p, c, b, full), p < c + b,
           after[p % b] = 1,
           \A s \in 0 .. b - 1 : s # p % b => after[s] = full[s]
    PROVE  Ring(p + 1, c, b, after)
<1>1. c <= p + 1 /\ p + 1 <= c + b
  BY SMT DEF Ring
<1>2. ASSUME NEW s \in 0 .. b - 1
      PROVE  after[s] = 1 <=> \E n \in c .. p + 1 - 1 : n % b = s
  <2>1. CASE s = p % b
    <3>1. p \in c .. p + 1 - 1
      BY SMT DEF Ring
    <3> QED
      BY <2>1, <3>1
  <2>2. CASE s # p % b
    <3>1. after[s] = full[s]
      BY <2>2
    <3>2. \A n \in c .. p + 1 - 1 : n % b = s => n \in c .. p - 1
      <4> SUFFICES ASSUME NEW n \in c .. p + 1 - 1, n % b = s PROVE n \in c .. p - 1
        OBVIOUS
      <4>1. n # p
        BY <2>2
      <4> QED
        BY <4>1, SMT
    <3>3. \A n \in c .. p - 1 : n \in c .. p + 1 - 1
      BY SMT
    <3> QED
      BY <3>1, <3>2, <3>3 DEF Ring
  <2> QED
    BY <2>1, <2>2
<1> QED
  BY <1>1, <1>2 DEF Ring

(* ... and freeing the oldest gives one back.                              *)
LEMMA RingRelease ==
    ASSUME NEW p \in Nat, NEW c \in Nat, NEW b \in Nat \ {0}, NEW full, NEW after,
           Ring(p, c, b, full), c < p,
           after[c % b] = 0,
           \A s \in 0 .. b - 1 : s # c % b => after[s] = full[s]
    PROVE  Ring(p, c + 1, b, after)
<1>1. c + 1 <= p /\ p <= c + 1 + b
  BY SMT DEF Ring
<1>2. ASSUME NEW s \in 0 .. b - 1
      PROVE  after[s] = 1 <=> \E n \in c + 1 .. p - 1 : n % b = s
  <2>1. CASE s = c % b
    <3>1. ASSUME NEW n \in c + 1 .. p - 1 PROVE n % b # s
      <4>1. n \in Nat /\ c < n /\ n < c + b
        BY SMT DEF Ring
      <4>2. c <= c
        BY SMT
      <4>3. n % b # c % b
        BY <4>1, <4>2, SlotsDiffer
      <4> QED
        BY <4>3, <2>1
    <3>2. after[s] # 1
      BY <2>1
    <3> QED
      BY <3>2, <3>1
  <2>2. CASE s # c % b
    <3>1. after[s] = full[s]
      BY <2>2
    <3>2. \A n \in c .. p - 1 : n % b = s => n \in c + 1 .. p - 1
      <4> SUFFICES ASSUME NEW n \in c .. p - 1, n % b = s PROVE n \in c + 1 .. p - 1
        OBVIOUS
      <4>1. n # c
        BY <2>2
      <4> QED
        BY <4>1, SMT
    <3>3. \A n \in c + 1 .. p - 1 : n \in c .. p - 1
      BY SMT
    <3> QED
      BY <3>1, <3>2, <3>3 DEF Ring
  <2> QED
    BY <2>1, <2>2
<1> QED
  BY <1>1, <1>2 DEF Ring

(* A consumer that finds its slot full has a packet to take.               *)
LEMMA RingFull ==
    ASSUME NEW p \in Nat, NEW c \in Nat, NEW b \in Nat \ {0}, NEW full,
           Ring(p, c, b, full), full[c % b] = 1
    PROVE  c < p
<1>1. PICK n \in c .. p - 1 : n % b = c % b
  BY SlotInRange DEF Ring
<1> QED
  BY <1>1, SMT

----------------------------------------------------------------------------
(* The one-CTA pipeline.                                                   *)

FlagSet == Edge \X (0 .. launch.buffers - 1) \X (0 .. RoleStages - 1)

PacketLoop == {"ready", "free", "take", "store", "announce", "release", "folded"}

HybridTypes ==
    /\ launch \in Launches
    /\ pc \in [Warp -> {"load", "loaded", "output", "done"} \cup PacketLoop]
    /\ packet \in [Warp -> Nat]
    /\ flags \in [FlagSet -> {0, 1}]

\* The warp that takes what v puts into its channel.
Follows(v, w) == Role(w) = Role(v) + 1 /\ Replica(w) = Replica(v)

\* The packets a warp has announced to the next role in this fold.
Published(v) ==
    IF ~HasNext(v) THEN 0
    ELSE IF pc[v] \in {"announce", "release"} THEN packet[v] + 1 ELSE packet[v]

\* The flags of the ring that v fills.
RingFlags(v) == [s \in 0 .. launch.buffers - 1 |-> flags[<<Role(v), s, Replica(v)>>]]

\* A warp between the wait for its source packet and the release of it.
Holding == {"free", "take", "store", "announce", "release"}

\* The named barriers that producer and consumer have passed in this fold.
Announced(v) == IF pc[v] = "release" THEN packet[v] + 1 ELSE packet[v]
Received(w) == IF pc[w] \in Holding THEN packet[w] + 1 ELSE packet[w]

Handshake(v, w) ==
    /\ Ring(Published(v), packet[w], launch.buffers, RingFlags(v))
    /\ pc[w] \in Holding => packet[w] < Published(v)
    /\ HasNext(v) /\ pc[v] \in {"take", "store"} => packet[v] < packet[w] + launch.buffers
    /\ HasNext(v) /\ launch.handoff = "barrier" => Announced(v) = Received(w)

\* A warp of a role that this fold has works through all packets, one of
\* another role through none.
WarpFolding(w) ==
    /\ pc[w] \in PacketLoop
    /\ ~(Role(w) < ActiveRoles) => pc[w] = "folded" /\ packet[w] = 0
    /\ Role(w) < ActiveRoles => (pc[w] = "folded" <=> ~(packet[w] < PacketCount))
    /\ \A n \in 0 .. packet[w] - 1 : n < PacketCount
    /\ pc[w] = "announce" => HasNext(w) /\ launch.handoff = "barrier"

Loading ==
    /\ \A w \in Warp : pc[w] \in {"load", "loaded"} /\ packet[w] = 0
    /\ \A w \in Warp, x \in FlagSet :
           pc[w] = "loaded" /\ Share(w, FlagIndex(x)) => flags[x] = 0

Folding ==
    /\ \A w \in Warp : WarpFolding(w)
    /\ \A v, w \in Warp : Follows(v, w) => Handshake(v, w)

Finishing ==
    /\ \A w \in Warp : pc[w] \in {"output", "done"}
    /\ \A x \in FlagSet : flags[x] = 0

HybridInv == HybridTypes /\ (Loading \/ Folding \/ Finishing)

(* What a valid launch fixes.                                             *)
LEMMA LaunchFacts ==
    ASSUME launch \in Launches
    PROVE  /\ RoleStages \in Nat \ {0}
           /\ launch.buffers \in Nat \ {0}
           /\ MaxRoles \in Nat \ {0}
           /\ WarpSize \in Nat \ {0}
           /\ launch.handoff \in {"barrier", "atomic"}
<1>1. /\ launch.roleStages \in Nat \ {0} /\ launch.stageSpace \in Nat \ {0}
      /\ launch.buffers \in Nat \ {0}
      /\ WarpSize \in Nat \ {0}
      /\ launch.handoff \in {"barrier", "atomic"}
  BY LaunchAssumption
<1>2. MaxRoles \in Nat \ {0}
  BY <1>1, RolesPositive DEF MaxRoles, CeilDiv, StageSpace, RoleStages
<1> QED
  BY <1>1, <1>2 DEF RoleStages

(* A launch has a warp.                                                    *)
LEMMA WarpExists ==
    ASSUME launch \in Launches
    PROVE  Warp # {}
<1>1. 0 \in 0 .. MaxRoles - 1 /\ 0 \in 0 .. RoleStages - 1
  BY LaunchFacts, SMT
<1>2. <<0, 0>> \in Warp
  BY <1>1 DEF Warp
<1> QED
  BY <1>2

(* The warps and the flags of a launch do not change ...                   *)
LEMMA SameLaunch ==
    ASSUME launch' = launch
    PROVE  /\ Warp' = Warp
           /\ FlagSet' = FlagSet
           /\ \A w, i : Share(w, i)' = Share(w, i)
           /\ \A x : FlagIndex(x)' = FlagIndex(x)
  BY DEF Warp, MaxRoles, StageSpace, RoleStages, FlagSet, Edge, Share, WarpNumber, FlagIndex

(* ... nor does the work of a fold, within it.                             *)
LEMMA SameFold ==
    ASSUME UNCHANGED <<launch, round, fold>>
    PROVE  /\ ActiveRoles' = ActiveRoles
           /\ PacketCount' = PacketCount
           /\ \A w : HasNext(w)' <=> HasNext(w)
  BY DEF ActiveRoles, ActiveStages, RoundStages, PacketCount, TokenCount, TokenPoints, N,
         LogN, FlowTileLogN, StageSpace, RoleStages, DataTime, HasNext

\* A pair of warps, and where their flags are.
LEMMA PairFacts ==
    ASSUME HybridTypes, NEW v \in Warp, NEW w \in Warp, Follows(v, w)
    PROVE  /\ v # w
           /\ Role(v) \in Edge
           /\ Role(v) \in Nat /\ Role(w) # 0 /\ Role(w) - 1 = Role(v)
           /\ Replica(v) \in 0 .. RoleStages - 1
           /\ \A s \in 0 .. launch.buffers - 1 : <<Role(v), s, Replica(v)>> \in FlagSet
           /\ RingFlags(v) \in [0 .. launch.buffers - 1 -> {0, 1}]
           /\ packet[v] \in Nat /\ packet[w] \in Nat
           /\ Published(v) \in Nat
           /\ launch.buffers \in Nat \ {0}
<1>1. /\ Role(v) \in 0 .. MaxRoles - 1 /\ Role(w) \in 0 .. MaxRoles - 1
      /\ Replica(v) \in 0 .. RoleStages - 1
  BY DEF Warp, Role, Replica
<1>2. MaxRoles \in Nat \ {0} /\ launch.buffers \in Nat \ {0}
  BY LaunchFacts DEF HybridTypes
<1>3. /\ Role(v) \in 0 .. MaxRoles - 2 /\ Role(v) \in Nat /\ Role(w) # 0
      /\ Role(w) - 1 = Role(v) /\ Role(v) # Role(w)
  BY <1>1, <1>2, SMT DEF Follows
<1>4. \A s \in 0 .. launch.buffers - 1 : <<Role(v), s, Replica(v)>> \in FlagSet
  BY <1>1, <1>3 DEF FlagSet, Edge
<1>5. RingFlags(v) \in [0 .. launch.buffers - 1 -> {0, 1}]
  BY <1>4 DEF RingFlags, HybridTypes
<1>6. packet[v] \in Nat /\ packet[w] \in Nat
  BY DEF HybridTypes
<1>7. Published(v) \in Nat
  BY <1>6, SMT DEF Published
<1> QED
  BY <1>1, <1>2, <1>3, <1>4, <1>5, <1>6, <1>7 DEF Edge

\* A pair whose producer has filled and consumer has emptied nothing.
LEMMA SamePair ==
    ASSUME UNCHANGED <<launch, flags>>, NEW v
    PROVE  RingFlags(v)' = RingFlags(v)
  BY DEF RingFlags

(* A step that moves one warp u on, in the part of its packet in which it  *)
(* neither publishes nor releases a slot.                                  *)
LEMMA QuietStep ==
    ASSUME HybridTypes, Folding, NEW u \in Warp, NEW q,
           UNCHANGED <<launch, round, fold, packet, flags>>,
           pc' = [pc EXCEPT ![u] = q],
           q \in {"free", "take", "store"},
           pc[u] \in {"ready", "free", "take", "store"},
           pc[u] = "ready" =>
               \A v \in Warp : Follows(v, u) =>
                   packet[u] < Published(v) /\ launch.handoff # "barrier",
           (q \in {"take", "store"} /\ pc[u] \notin {"take", "store"}) =>
               \A w \in Warp : Follows(u, w) /\ HasNext(u) =>
                   packet[u] < packet[w] + launch.buffers
    PROVE  HybridTypes' /\ Folding'
<1>1. Warp' = Warp /\ launch' = launch /\ packet' = packet /\ flags' = flags
  BY SameLaunch
<1>2. \A w \in Warp : pc'[w] = IF w = u THEN q ELSE pc[w]
  BY DEF HybridTypes
<1>3. HybridTypes'
  BY SameLaunch DEF HybridTypes, PacketLoop
<1>4. /\ ActiveRoles' = ActiveRoles /\ PacketCount' = PacketCount
      /\ \A w : HasNext(w)' <=> HasNext(w)
  BY SameFold
<1>5. ASSUME NEW w \in Warp PROVE WarpFolding(w)'
  <2>1. WarpFolding(w)
    BY DEF Folding
  <2>2. CASE w = u
    BY <2>1, <2>2, <1>1, <1>2, <1>4 DEF WarpFolding, PacketLoop
  <2>3. CASE w # u
    BY <2>1, <2>3, <1>1, <1>2, <1>4 DEF WarpFolding
  <2> QED
    BY <2>2, <2>3
<1>6. ASSUME NEW v \in Warp, NEW w \in Warp, Follows(v, w) PROVE Handshake(v, w)'
  <2>1. Handshake(v, w) /\ v # w
    BY <1>6, PairFacts DEF Folding
  <2>2. pc'[v] \in {"announce", "release"} <=> pc[v] \in {"announce", "release"}
    BY <1>2
  <2>3. Published(v)' = Published(v)
    BY <2>2, <1>1, <1>4 DEF Published
  <2>4. Ring(Published(v), packet[w], launch.buffers, RingFlags(v))'
    BY <2>1, <2>3, <1>1 DEF Handshake, RingFlags, Ring
  <2>5. pc'[w] \in Holding => packet[w] < Published(v)
    <3>1. CASE w = u /\ pc[u] = "ready"
      BY <3>1, <1>6
    <3>2. CASE ~(w = u /\ pc[u] = "ready")
      BY <3>2, <2>1, <1>2 DEF Handshake, Holding
    <3> QED
      BY <3>1, <3>2
  <2>6. HasNext(v) /\ pc'[v] \in {"take", "store"} => packet[v] < packet[w] + launch.buffers
    <3>1. CASE v = u /\ pc[u] \notin {"take", "store"}
      BY <3>1, <1>6, <1>2
    <3>2. CASE ~(v = u /\ pc[u] \notin {"take", "store"})
      BY <3>2, <2>1, <1>2 DEF Handshake
    <3> QED
      BY <3>1, <3>2
  <2>7. HasNext(v) /\ launch.handoff = "barrier" => Announced(v)' = Received(w)'
    <3> SUFFICES ASSUME HasNext(v), launch.handoff = "barrier"
                 PROVE  Announced(v)' = Received(w)'
      OBVIOUS
    <3>1. Announced(v)' = Announced(v)
      BY <1>1, <1>2 DEF Announced
    <3>2. pc'[w] \in Holding <=> pc[w] \in Holding
      BY <1>2, <1>6 DEF Holding
    <3>3. Received(w)' = Received(w)
      BY <3>2, <1>1 DEF Received
    <3> QED
      BY <3>1, <3>3, <2>1 DEF Handshake
  <2> QED
    BY <2>3, <2>4, <2>5, <2>6, <2>7, <1>1, <1>4 DEF Handshake, Holding
<1>7. \A v, w : Follows(v, w)' <=> Follows(v, w)
  BY DEF Follows, Role, Replica
<1> QED
  BY <1>1, <1>3, <1>5, <1>6, <1>7 DEF Folding

(* The barrier number identifies the edge and the replica of those who meet. *)
LEMMA BarrierDistinct ==
    ASSUME HybridTypes, NEW v \in Warp, NEW w \in Warp,
           v # w, Arrived(v) # 0, Arrived(v) = Arrived(w)
    PROVE  \/ Announcing(v) /\ Expecting(w) /\ Follows(v, w)
           \/ Announcing(w) /\ Expecting(v) /\ Follows(w, v)
<1> DEFINE Place(x) == IF Announcing(x) THEN Role(x) ELSE Role(x) - 1
<1>0. /\ RoleStages \in Nat \ {0} /\ MaxRoles \in Nat \ {0}
      /\ Role(v) \in 0 .. MaxRoles - 1 /\ Replica(v) \in 0 .. RoleStages - 1
      /\ Role(w) \in 0 .. MaxRoles - 1 /\ Replica(w) \in 0 .. RoleStages - 1
      /\ v = <<Role(v), Replica(v)>> /\ w = <<Role(w), Replica(w)>>
  BY LaunchFacts DEF HybridTypes, Warp, Role, Replica
<1>1. (Announcing(v) \/ Expecting(v)) /\ (Announcing(w) \/ Expecting(w))
  BY DEF Arrived
<1>2. ~(Announcing(v) /\ Expecting(v)) /\ ~(Announcing(w) /\ Expecting(w))
  BY DEF Announcing, Expecting
<1>3. Expecting(v) => Role(v) # 0
  BY DEF Expecting
<1>4. Expecting(w) => Role(w) # 0
  BY DEF Expecting
<1>5. Place(v) \in Nat /\ Place(w) \in Nat
  BY <1>0, <1>1, <1>3, <1>4, SMT
<1>6. /\ Arrived(v) = Place(v) * RoleStages + Replica(v) + 1
      /\ Arrived(w) = Place(w) * RoleStages + Replica(w) + 1
  BY <1>1 DEF Arrived, Barrier
<1> HIDE DEF Place
<1>7. Place(v) * RoleStages + Replica(v) = Place(w) * RoleStages + Replica(w)
  <2> DEFINE a == Place(v) * RoleStages
             b == Place(w) * RoleStages
  <2>1. a \in Nat /\ b \in Nat
    BY <1>5, <1>0, SMT
  <2>2. a + Replica(v) + 1 = b + Replica(w) + 1
    BY <1>6
  <2> HIDE DEF a, b
  <2>3. a + Replica(v) = b + Replica(w)
    BY <2>1, <2>2, <1>0, SMT
  <2> QED
    BY <2>3 DEF a, b
<1>8. Place(v) = Place(w) /\ Replica(v) = Replica(w)
  BY <1>7, <1>5, <1>0, NumbersDistinct
<1>9. CASE Announcing(v) /\ Announcing(w)
  BY <1>9, <1>8, <1>0 DEF Place
<1>10. CASE Expecting(v) /\ Expecting(w)
  <2>1. Role(v) - 1 = Role(w) - 1
    BY <1>10, <1>2, <1>8 DEF Place
  <2>2. Role(v) = Role(w)
    BY <2>1, <1>0, SMT
  <2> QED
    BY <2>2, <1>8, <1>0
<1>11. CASE Announcing(v) /\ Expecting(w)
  <2>1. Role(v) = Role(w) - 1
    BY <1>11, <1>2, <1>8 DEF Place
  <2>2. Role(w) = Role(v) + 1
    BY <2>1, <1>0, SMT
  <2> QED
    BY <2>2, <1>8, <1>11 DEF Follows
<1>12. CASE Announcing(w) /\ Expecting(v)
  <2>1. Role(w) = Role(v) - 1
    BY <1>12, <1>2, <1>8 DEF Place
  <2>2. Role(v) = Role(w) + 1
    BY <2>1, <1>0, SMT
  <2> QED
    BY <2>2, <1>8, <1>12 DEF Follows
<1> QED
  BY <1>1, <1>9, <1>10, <1>11, <1>12

(* The steps of the packet loop, one by one.  A consumer goes past its flag *)
(* only when a packet is there.                                            *)
LEMMA SourceReadyKeeps ==
    ASSUME HybridTypes, Folding, NEW u \in Warp, SourceReady(u)
    PROVE  HybridTypes' /\ Folding'
<1>1. /\ pc[u] = "ready" /\ pc' = [pc EXCEPT ![u] = "free"]
      /\ UNCHANGED <<launch, round, fold, packet, flags>>
  BY DEF SourceReady, Goto
<1>2. ASSUME NEW v \in Warp, Follows(v, u)
      PROVE  packet[u] < Published(v) /\ launch.handoff # "barrier"
  <2>1. Role(u) # 0 /\ Role(u) - 1 = Role(v) /\ Replica(u) = Replica(v)
    BY <1>2, PairFacts DEF Follows
  <2>2. launch.handoff = "atomic" /\ flags[<<Role(v), Slot(u), Replica(v)>>] = 1
    BY <2>1 DEF SourceReady, SourceFlag
  <2>3. /\ Published(v) \in Nat /\ packet[u] \in Nat /\ launch.buffers \in Nat \ {0}
        /\ Ring(Published(v), packet[u], launch.buffers, RingFlags(v))
    BY <1>2, PairFacts DEF Folding, Handshake
  <2>4. RingFlags(v)[packet[u] % launch.buffers] = 1
    BY <2>2, <2>3, SlotInRange DEF RingFlags, Slot
  <2> QED
    BY <2>2, <2>3, <2>4, RingFull
<1> QED
  BY <1>1, <1>2, QuietStep

(* A producer goes past the check of its target only when the slot is free. *)
LEMMA TargetFreeKeeps ==
    ASSUME HybridTypes, Folding, NEW u \in Warp, TargetFree(u)
    PROVE  HybridTypes' /\ Folding'
<1>1. /\ pc[u] = "free" /\ pc' = [pc EXCEPT ![u] = "take"]
      /\ UNCHANGED <<launch, round, fold, packet, flags>>
  BY DEF TargetFree, Goto
<1>2. ASSUME NEW w \in Warp, Follows(u, w), HasNext(u)
      PROVE  packet[u] < packet[w] + launch.buffers
  <2>1. /\ packet[u] \in Nat /\ packet[w] \in Nat /\ launch.buffers \in Nat \ {0}
        /\ Ring(Published(u), packet[w], launch.buffers, RingFlags(u))
    BY <1>2, PairFacts DEF Folding, Handshake
  <2>2. Published(u) = packet[u]
    BY <1>1, <1>2 DEF Published
  <2>3. packet[u] < launch.buffers \/ RingFlags(u)[packet[u] % launch.buffers] = 0
    BY <1>2, <2>1, SlotInRange DEF TargetFree, FirstUse, TargetFlag, Slot, RingFlags
  <2> QED
    BY <2>1, <2>2, <2>3, RingFree
<1> QED
  BY <1>1, <1>2, QuietStep

(* The loads of a packet leave the handshake alone.          *)
LEMMA TakeKeeps ==
    ASSUME HybridTypes, Folding, NEW u \in Warp, Take(u)
    PROVE  HybridTypes' /\ Folding'
<1>1. /\ pc[u] = "take" /\ pc' = [pc EXCEPT ![u] = "store"]
      /\ UNCHANGED <<launch, round, fold, packet, flags>>
  BY DEF Take, Goto
<1> QED
  BY <1>1, QuietStep

(* The stores of a packet leave the handshake alone too.                   *)
LEMMA StoreKeeps ==
    ASSUME HybridTypes, Folding, NEW u \in Warp, Store(u)
    PROVE  HybridTypes' /\ Folding'
<1>1. /\ pc[u] = "store" /\ pc' = [pc EXCEPT ![u] = "take"]
      /\ UNCHANGED <<launch, round, fold, packet, flags>>
  BY DEF Store, Goto
<1> QED
  BY <1>1, QuietStep

(* Two warps meet at a barrier: the producer of a packet and its consumer.  *)
LEMMA MeetKeeps ==
    ASSUME HybridTypes, Folding, NEW x \in Warp, NEW y \in Warp, Meet(x, y)
    PROVE  HybridTypes' /\ Folding'
<1>1. PICK p \in Warp, c \in Warp :
          /\ Announcing(p) /\ Expecting(c) /\ Follows(p, c)
          /\ pc' = [u \in Warp |-> IF u = p THEN "release" ELSE IF u = c THEN "free" ELSE pc[u]]
  <2>1. /\ x # y /\ Arrived(x) # 0 /\ Arrived(x) = Arrived(y)
        /\ pc' = [u \in Warp |-> IF u \notin {x, y} THEN pc[u]
                                 ELSE IF Announcing(u) THEN "release" ELSE "free"]
    BY DEF Meet
  <2>2. \A u : ~(Announcing(u) /\ Expecting(u))
    BY DEF Announcing, Expecting
  <2>3. CASE Announcing(x) /\ Expecting(y) /\ Follows(x, y)
    <3>1. ~Announcing(y)
      BY <2>2, <2>3
    <3>2. pc' = [u \in Warp |-> IF u = x THEN "release" ELSE IF u = y THEN "free" ELSE pc[u]]
      BY <2>1, <2>3, <3>1
    <3> QED
      BY <2>3, <3>2
  <2>4. CASE Announcing(y) /\ Expecting(x) /\ Follows(y, x)
    <3>1. ~Announcing(x)
      BY <2>2, <2>4
    <3>2. pc' = [u \in Warp |-> IF u = y THEN "release" ELSE IF u = x THEN "free" ELSE pc[u]]
      BY <2>1, <2>4, <3>1
    <3> QED
      BY <2>4, <3>2
  <2> QED
    BY <2>1, <2>3, <2>4, BarrierDistinct
<1>2. /\ pc[p] = "announce" /\ pc[c] = "ready" /\ launch.handoff = "barrier"
      /\ p # c
  BY <1>1, PairFacts DEF Announcing, Expecting
<1>3. UNCHANGED <<launch, round, fold, packet, flags>>
  BY DEF Meet
<1>4. Warp' = Warp /\ launch' = launch /\ packet' = packet /\ flags' = flags
  BY <1>3, SameLaunch
<1>5. \A w \in Warp : pc'[w] = IF w = p THEN "release" ELSE IF w = c THEN "free" ELSE pc[w]
  BY <1>1
<1>6. HybridTypes'
  BY <1>1, <1>3, SameLaunch DEF HybridTypes, PacketLoop
<1>7. /\ ActiveRoles' = ActiveRoles /\ PacketCount' = PacketCount
      /\ \A w : HasNext(w)' <=> HasNext(w)
  BY <1>3, SameFold
<1>8. ASSUME NEW w \in Warp PROVE WarpFolding(w)'
  <2>1. WarpFolding(w)
    BY DEF Folding
  <2>2. CASE w = p \/ w = c
    <3>1. pc'[w] \in {"release", "free"} /\ pc[w] \in {"announce", "ready"}
      BY <2>2, <1>2, <1>5
    <3> QED
      BY <3>1, <2>1, <1>4, <1>7 DEF WarpFolding, PacketLoop
  <2>3. CASE w # p /\ w # c
    BY <2>1, <2>3, <1>4, <1>5, <1>7 DEF WarpFolding
  <2> QED
    BY <2>2, <2>3
\* Both have met as often, so they are at the same packet.
<1>9. HasNext(p) /\ packet[c] = packet[p] /\ Published(p) = packet[p] + 1
  <2>1. WarpFolding(p) /\ Handshake(p, c)
    BY <1>1 DEF Folding
  <2>2. HasNext(p)
    BY <2>1, <1>2 DEF WarpFolding
  <2>3. Announced(p) = packet[p] /\ Received(c) = packet[c]
    BY <1>2 DEF Announced, Received, Holding
  <2> QED
    BY <2>1, <2>2, <2>3, <1>2 DEF Handshake, Published
<1>10. ASSUME NEW v \in Warp, NEW w \in Warp, Follows(v, w) PROVE Handshake(v, w)'
  <2>1. Handshake(v, w) /\ v # w
    BY <1>10, PairFacts DEF Folding
  <2>2. pc'[v] \in {"announce", "release"} <=> pc[v] \in {"announce", "release"}
    BY <1>2, <1>5
  <2>3. Published(v)' = Published(v)
    BY <2>2, <1>4, <1>7 DEF Published
  <2>4. Ring(Published(v), packet[w], launch.buffers, RingFlags(v))'
    BY <2>1, <2>3, <1>4 DEF Handshake, RingFlags, Ring
  <2>5. (v = p) <=> (w = c)
    <3>1. /\ v = <<Role(v), Replica(v)>> /\ w = <<Role(w), Replica(w)>>
          /\ p = <<Role(p), Replica(p)>> /\ c = <<Role(c), Replica(c)>>
      BY DEF Warp, Role, Replica
    <3>2. /\ Role(w) = Role(v) + 1 /\ Role(c) = Role(p) + 1
          /\ Replica(w) = Replica(v) /\ Replica(c) = Replica(p)
          /\ Role(v) \in Nat /\ Role(p) \in Nat
      BY <1>1, <1>10, PairFacts DEF Follows
    <3>3. Role(v) = Role(p) <=> Role(w) = Role(c)
      BY <3>2, SMT
    <3> QED
      BY <3>1, <3>2, <3>3
  <2>6. pc'[w] \in Holding => packet[w] < Published(v)
    <3>1. CASE w = c
      <4>1. packet[p] \in Nat
        BY DEF HybridTypes
      <4> QED
        BY <4>1, <3>1, <2>5, <1>9, SMT
    <3>2. CASE w # c
      BY <3>2, <2>1, <1>2, <1>5 DEF Handshake, Holding
    <3> QED
      BY <3>1, <3>2
  <2>7. HasNext(v) /\ pc'[v] \in {"take", "store"} => packet[v] < packet[w] + launch.buffers
    BY <2>1, <1>5 DEF Handshake
  <2>8. HasNext(v) /\ launch.handoff = "barrier" => Announced(v)' = Received(w)'
    <3>1. CASE v = p /\ w = c
      BY <3>1, <1>2, <1>4, <1>5, <1>9 DEF Announced, Received, Holding
    <3>2. CASE v # p /\ w # c
      <4>1. pc'[v] = "release" <=> pc[v] = "release"
        BY <3>2, <1>2, <1>5
      <4>2. pc'[w] \in Holding <=> pc[w] \in Holding
        BY <3>2, <1>2, <1>5 DEF Holding
      <4>3. Announced(v)' = Announced(v) /\ Received(w)' = Received(w)
        BY <4>1, <4>2, <1>4 DEF Announced, Received
      <4> QED
        BY <4>3, <2>1 DEF Handshake
    <3> QED
      BY <3>1, <3>2, <2>5
  <2> QED
    BY <2>3, <2>4, <2>6, <2>7, <2>8, <1>4, <1>7 DEF Handshake, Holding
<1>11. \A v, w : Follows(v, w)' <=> Follows(v, w)
  BY DEF Follows, Role, Replica
<1> QED
  BY <1>4, <1>6, <1>8, <1>10, <1>11 DEF Folding

(* Publishing hands one packet over: the slot was free.                    *)
LEMMA PublishKeeps ==
    ASSUME HybridTypes, Folding, NEW u \in Warp, Publish(u)
    PROVE  HybridTypes' /\ Folding'
<1>1. /\ pc[u] = "take"
      /\ UNCHANGED <<launch, round, fold, packet>>
  BY DEF Publish
<1> DEFINE q == IF HasNext(u) /\ launch.handoff = "barrier" THEN "announce" ELSE "release"
<1>2. pc' = [pc EXCEPT ![u] = q]
  BY DEF Publish, Goto
<1>3. flags' = IF HasNext(u) THEN [flags EXCEPT ![TargetFlag(u)] = 1] ELSE flags
  BY DEF Publish
<1>4. Warp' = Warp /\ FlagSet' = FlagSet /\ launch' = launch /\ packet' = packet
  BY <1>1, SameLaunch
<1>5. \A w \in Warp : pc'[w] = IF w = u THEN q ELSE pc[w]
  BY <1>2 DEF HybridTypes
<1>6. q \in {"announce", "release"} /\ (q = "announce" => HasNext(u) /\ launch.handoff = "barrier")
  OBVIOUS
<1>7. launch.handoff = "barrier" /\ HasNext(u) => q = "announce"
  OBVIOUS
<1> HIDE DEF q
<1>8. HybridTypes'
  <2>1. flags' \in [FlagSet -> {0, 1}]
    BY <1>3 DEF HybridTypes
  <2>2. pc' \in [Warp -> {"load", "loaded", "output", "done"} \cup PacketLoop]
    BY <1>2, <1>6 DEF HybridTypes, PacketLoop
  <2> QED
    BY <1>4, <2>1, <2>2 DEF HybridTypes
<1>9. /\ ActiveRoles' = ActiveRoles /\ PacketCount' = PacketCount
      /\ \A w : HasNext(w)' <=> HasNext(w)
  BY <1>1, SameFold
<1>10. ASSUME NEW w \in Warp PROVE WarpFolding(w)'
  <2>1. WarpFolding(w)
    BY DEF Folding
  <2>2. CASE w = u
    <3>1. /\ pc'[u] \in {"announce", "release"}
          /\ pc'[u] = "announce" => HasNext(u) /\ launch.handoff = "barrier"
      BY <1>5, <1>6
    <3> QED
      BY <2>1, <2>2, <3>1, <1>1, <1>4, <1>9 DEF WarpFolding, PacketLoop
  <2>3. CASE w # u
    BY <2>1, <2>3, <1>4, <1>5, <1>9 DEF WarpFolding
  <2> QED
    BY <2>2, <2>3
<1>11. ASSUME NEW v \in Warp, NEW w \in Warp, Follows(v, w) PROVE Handshake(v, w)'
  <2>1. /\ Handshake(v, w) /\ v # w
        /\ Role(v) \in Nat /\ Replica(v) \in 0 .. RoleStages - 1
        /\ \A s \in 0 .. launch.buffers - 1 : <<Role(v), s, Replica(v)>> \in FlagSet
        /\ packet[v] \in Nat /\ packet[w] \in Nat /\ Published(v) \in Nat
        /\ launch.buffers \in Nat \ {0}
    BY <1>11, PairFacts DEF Folding
  <2>2. pc'[w] \in Holding => pc[w] \in Holding
    BY <1>1, <1>5, <1>6 DEF Holding
  <2>3. HasNext(v) /\ pc'[v] \in {"take", "store"} => packet[v] < packet[w] + launch.buffers
    BY <2>1, <1>5, <1>6 DEF Handshake
  <2>4. CASE v = u /\ HasNext(v)
    <3>1. /\ Published(v) = packet[v] /\ Published(v)' = packet[v] + 1
          /\ packet[v] < packet[w] + launch.buffers
      BY <2>1, <2>4, <1>1, <1>4, <1>5, <1>6, <1>9 DEF Published, Handshake
    <3>2. RingFlags(v)' = [s \in 0 .. launch.buffers - 1 |->
                              IF s = packet[v] % launch.buffers THEN 1 ELSE RingFlags(v)[s]]
      <4>1. TargetFlag(u) = <<Role(v), packet[v] % launch.buffers, Replica(v)>>
        BY <2>4 DEF TargetFlag, Slot
      <4>2. \A s \in 0 .. launch.buffers - 1 :
                flags'[<<Role(v), s, Replica(v)>>] =
                    IF s = packet[v] % launch.buffers THEN 1 ELSE flags[<<Role(v), s, Replica(v)>>]
        BY <4>1, <2>1, <2>4, <1>3 DEF HybridTypes
      <4> QED
        BY <4>2, <1>4 DEF RingFlags
    <3>3. Ring(packet[v] + 1, packet[w], launch.buffers, RingFlags(v)')
      <4>1. packet[v] % launch.buffers \in 0 .. launch.buffers - 1
        BY <2>1, SlotInRange
      <4>2. RingFlags(v)'[packet[v] % launch.buffers] = 1
        BY <3>2, <4>1
      <4>3. \A s \in 0 .. launch.buffers - 1 :
                s # packet[v] % launch.buffers => RingFlags(v)'[s] = RingFlags(v)[s]
        BY <3>2
      <4>4. Ring(packet[v], packet[w], launch.buffers, RingFlags(v))
        BY <3>1, <2>1 DEF Handshake
      <4> HIDE DEF Published
      <4> QED
        BY <4>2, <4>3, <4>4, <3>1, <2>1, RingPublish
    <3>4. pc'[w] \in Holding => packet[w] < packet[v] + 1
      <4>1. pc[w] \in Holding => packet[w] < packet[v]
        BY <3>1, <2>1 DEF Handshake
      <4> QED
        BY <4>1, <2>2, <2>1, SMT
    <3>5. launch.handoff = "barrier" => Announced(v)' = Received(w)'
      <4> SUFFICES ASSUME launch.handoff = "barrier" PROVE Announced(v)' = Received(w)'
        OBVIOUS
      <4>1. Announced(v)' = Announced(v)
        BY <2>4, <1>1, <1>4, <1>5, <1>7 DEF Announced
      <4>2. Received(w)' = Received(w)
        BY <2>1, <2>4, <1>4, <1>5 DEF Received
      <4> QED
        BY <4>1, <4>2, <2>1, <2>4 DEF Handshake
    <3> QED
      BY <3>1, <3>3, <3>4, <3>5, <2>3, <1>4, <1>9 DEF Handshake, Ring, Holding
  <2>5. CASE ~(v = u /\ HasNext(v))
    <3>1. Published(v)' = Published(v)
      BY <2>5, <1>4, <1>5, <1>9 DEF Published
    <3>2. \A s \in 0 .. launch.buffers - 1 :
              flags'[<<Role(v), s, Replica(v)>>] = flags[<<Role(v), s, Replica(v)>>]
      <4>1. CASE ~HasNext(u)
        BY <4>1, <1>3
      <4>2. CASE HasNext(u)
        <5>1. v # u
          BY <2>5, <4>2
        <5>2. Role(v) # Role(u) \/ Replica(v) # Replica(u)
          BY <5>1 DEF Warp, Role, Replica
        <5>3. \A s : <<Role(v), s, Replica(v)>> # TargetFlag(u)
          BY <5>2 DEF TargetFlag
        <5> QED
          BY <5>3, <4>2, <2>1, <1>3 DEF HybridTypes
      <4> QED
        BY <4>1, <4>2
    <3>3. RingFlags(v)' = RingFlags(v)
      BY <3>2, <1>4 DEF RingFlags
    <3>4. pc'[w] \in Holding => packet[w] < Published(v)
      BY <2>1, <2>2 DEF Handshake
    <3>5. HasNext(v) /\ launch.handoff = "barrier" => Announced(v)' = Received(w)'
      <4> SUFFICES ASSUME HasNext(v), launch.handoff = "barrier"
                   PROVE  Announced(v)' = Received(w)'
        OBVIOUS
      <4>1. Announced(v)' = Announced(v)
        BY <2>5, <1>4, <1>5 DEF Announced
      <4>2. pc'[w] \in Holding <=> pc[w] \in Holding
        BY <1>1, <1>5, <1>6 DEF Holding
      <4>3. Received(w)' = Received(w)
        BY <4>2, <1>4 DEF Received
      <4> QED
        BY <4>1, <4>3, <2>1 DEF Handshake
    <3> QED
      BY <3>1, <3>3, <3>4, <3>5, <2>1, <2>3, <1>4, <1>9 DEF Handshake, Ring, Holding
  <2> QED
    BY <2>4, <2>5
<1>12. \A v, w : Follows(v, w)' <=> Follows(v, w)
  BY DEF Follows, Role, Replica
<1> QED
  BY <1>4, <1>8, <1>10, <1>11, <1>12 DEF Folding

(* Releasing gives the oldest packet of the source ring back.              *)
LEMMA ReleaseKeeps ==
    ASSUME HybridTypes, Folding, NEW u \in Warp, Release(u)
    PROVE  HybridTypes' /\ Folding'
<1>1. /\ pc[u] = "release"
      /\ UNCHANGED <<launch, round, fold>>
      /\ packet' = [packet EXCEPT ![u] = packet[u] + 1]
      /\ flags' = IF Role(u) # 0 THEN [flags EXCEPT ![SourceFlag(u)] = 0] ELSE flags
  BY DEF Release, Released
<1> DEFINE q == IF Role(u) < ActiveRoles /\ packet[u] + 1 < PacketCount THEN "ready" ELSE "folded"
<1>2. pc' = [pc EXCEPT ![u] = q]
  BY DEF Release, Goto, HeadOf
<1>3. /\ q \in {"ready", "folded"}
      /\ q = "folded" <=> ~(Role(u) < ActiveRoles /\ packet[u] + 1 < PacketCount)
  OBVIOUS
<1> HIDE DEF q
<1>4. Warp' = Warp /\ FlagSet' = FlagSet /\ launch' = launch
  BY <1>1, SameLaunch
<1>5. /\ \A w \in Warp : pc'[w] = IF w = u THEN q ELSE pc[w]
      /\ \A w \in Warp : packet'[w] = IF w = u THEN packet[u] + 1 ELSE packet[w]
      /\ packet[u] \in Nat
  BY <1>1, <1>2 DEF HybridTypes
<1>6. HybridTypes'
  <2>1. flags' \in [FlagSet -> {0, 1}]
    BY <1>1 DEF HybridTypes
  <2>2. pc' \in [Warp -> {"load", "loaded", "output", "done"} \cup PacketLoop]
    BY <1>2, <1>3 DEF HybridTypes, PacketLoop
  <2>3. packet[u] + 1 \in Nat
    BY <1>5, SMT
  <2>4. packet' \in [Warp -> Nat]
    BY <1>1, <2>3 DEF HybridTypes
  <2> QED
    BY <1>4, <2>1, <2>2, <2>4, <1>1 DEF HybridTypes
<1>7. /\ ActiveRoles' = ActiveRoles /\ PacketCount' = PacketCount
      /\ \A w : HasNext(w)' <=> HasNext(w)
  BY <1>1, SameFold
<1>8. ASSUME NEW w \in Warp PROVE WarpFolding(w)'
  <2>1. WarpFolding(w)
    BY DEF Folding
  <2>2. CASE w = u
    <3>1. Role(u) < ActiveRoles /\ packet[u] < PacketCount
      BY <2>1, <2>2, <1>1 DEF WarpFolding
    <3>2. pc'[u] = "folded" <=> ~(packet[u] + 1 < PacketCount)
      BY <3>1, <1>3, <1>5
    <3>3. \A n \in 0 .. packet[u] + 1 - 1 : n < PacketCount
      <4> SUFFICES ASSUME NEW n \in 0 .. packet[u] + 1 - 1 PROVE n < PacketCount
        OBVIOUS
      <4>1. n = packet[u] \/ n \in 0 .. packet[u] - 1
        BY <1>5, SMT
      <4> QED
        BY <4>1, <3>1, <2>1, <2>2 DEF WarpFolding
    <3> QED
      BY <2>2, <3>1, <3>2, <3>3, <1>3, <1>5, <1>7 DEF WarpFolding, PacketLoop
  <2>3. CASE w # u
    BY <2>1, <2>3, <1>4, <1>5, <1>7 DEF WarpFolding
  <2> QED
    BY <2>2, <2>3
<1>9. ASSUME NEW v \in Warp, NEW w \in Warp, Follows(v, w) PROVE Handshake(v, w)'
  <2>1. /\ Handshake(v, w) /\ v # w
        /\ Role(v) \in Nat /\ Replica(v) \in 0 .. RoleStages - 1
        /\ Role(w) # 0 /\ Role(w) - 1 = Role(v) /\ Replica(w) = Replica(v)
        /\ \A s \in 0 .. launch.buffers - 1 : <<Role(v), s, Replica(v)>> \in FlagSet
        /\ packet[v] \in Nat /\ packet[w] \in Nat /\ Published(v) \in Nat
        /\ launch.buffers \in Nat \ {0}
    BY <1>9, PairFacts DEF Folding, Follows
  <2>2. Published(v)' = Published(v)
    <3>1. CASE v = u
      <4>1. pc'[v] \notin {"announce", "release"} /\ packet'[v] = packet[v] + 1
        BY <3>1, <1>3, <1>5
      <4> QED
        BY <4>1, <3>1, <1>1, <1>7 DEF Published
    <3>2. CASE v # u
      BY <3>2, <1>5, <1>7 DEF Published
    <3> QED
      BY <3>1, <3>2
  <2>3. Announced(v)' = Announced(v)
    <3>1. CASE v = u
      <4>1. pc'[v] # "release" /\ packet'[v] = packet[v] + 1
        BY <3>1, <1>3, <1>5
      <4> QED
        BY <4>1, <3>1, <1>1 DEF Announced
    <3>2. CASE v # u
      BY <3>2, <1>5 DEF Announced
    <3> QED
      BY <3>1, <3>2
  <2>4. Received(w)' = Received(w)
    <3>1. CASE w = u
      <4>1. pc'[w] \notin Holding /\ packet'[w] = packet[w] + 1 /\ pc[w] \in Holding
        BY <3>1, <1>1, <1>3, <1>5 DEF Holding
      <4>2. Received(w)' = packet[w] + 1
        BY <4>1 DEF Received, Holding
      <4> QED
        BY <4>1, <4>2 DEF Received
    <3>2. CASE w # u
      BY <3>2, <1>5 DEF Received, Holding
    <3> QED
      BY <3>1, <3>2
  <2>5. /\ Ring(Published(v), packet'[w], launch.buffers, RingFlags(v)')
        /\ pc'[w] \in Holding => packet'[w] < Published(v)
    <3>1. CASE w = u
      <4>1. pc[w] \in Holding /\ pc'[w] \notin Holding /\ packet'[w] = packet[w] + 1
        BY <3>1, <1>1, <1>3, <1>5 DEF Holding
      <4>2. packet[w] < Published(v)
        BY <4>1, <2>1 DEF Handshake
      <4>3. packet[w] % launch.buffers \in 0 .. launch.buffers - 1
        BY <2>1, SlotInRange
      <4>4. SourceFlag(u) = <<Role(v), packet[w] % launch.buffers, Replica(v)>>
        BY <2>1, <3>1 DEF SourceFlag, Slot
      <4>5. \A s \in 0 .. launch.buffers - 1 :
                flags'[<<Role(v), s, Replica(v)>>] =
                    IF s = packet[w] % launch.buffers THEN 0 ELSE flags[<<Role(v), s, Replica(v)>>]
        BY <4>4, <2>1, <3>1, <1>1 DEF HybridTypes
      <4>6. RingFlags(v)' = [s \in 0 .. launch.buffers - 1 |->
                                IF s = packet[w] % launch.buffers THEN 0 ELSE RingFlags(v)[s]]
        BY <4>5, <1>4 DEF RingFlags
      <4>7. /\ RingFlags(v)'[packet[w] % launch.buffers] = 0
            /\ \A s \in 0 .. launch.buffers - 1 :
                   s # packet[w] % launch.buffers => RingFlags(v)'[s] = RingFlags(v)[s]
        BY <4>3, <4>6
      <4>8. Ring(Published(v), packet[w], launch.buffers, RingFlags(v))
        BY <2>1 DEF Handshake
      <4>9. Ring(Published(v), packet[w] + 1, launch.buffers, RingFlags(v)')
        BY <4>2, <4>7, <4>8, <2>1, RingRelease
      <4> QED
        BY <4>1, <4>9
    <3>2. CASE w # u
      <4>1. \A s \in 0 .. launch.buffers - 1 :
                flags'[<<Role(v), s, Replica(v)>>] = flags[<<Role(v), s, Replica(v)>>]
        <5>1. CASE Role(u) = 0
          BY <5>1, <1>1
        <5>2. CASE Role(u) # 0
          <6>1. Role(w) # Role(u) \/ Replica(w) # Replica(u)
            BY <3>2 DEF Warp, Role, Replica
          <6>2. Role(u) \in Int /\ Role(w) \in Int
            BY LaunchFacts DEF Warp, Role, HybridTypes
          <6>3. Role(v) # Role(u) - 1 \/ Replica(v) # Replica(u)
            BY <6>1, <6>2, <2>1, SMT
          <6>4. \A s : <<Role(v), s, Replica(v)>> # SourceFlag(u)
            BY <6>3 DEF SourceFlag
          <6> QED
            BY <6>4, <5>2, <2>1, <1>1 DEF HybridTypes
        <5> QED
          BY <5>1, <5>2
      <4>2. RingFlags(v)' = RingFlags(v)
        BY <4>1, <1>4 DEF RingFlags
      <4> QED
        BY <4>2, <3>2, <2>1, <1>5 DEF Handshake
    <3> QED
      BY <3>1, <3>2
  <2>6. HasNext(v) /\ pc'[v] \in {"take", "store"} => packet'[v] < packet'[w] + launch.buffers
    <3> SUFFICES ASSUME HasNext(v), pc'[v] \in {"take", "store"}
                 PROVE  packet'[v] < packet'[w] + launch.buffers
      OBVIOUS
    <3>1. v # u /\ packet'[v] = packet[v] /\ pc'[v] = pc[v]
      BY <1>3, <1>5
    <3>2. packet[v] < packet[w] + launch.buffers
      BY <3>1, <2>1 DEF Handshake
    <3>3. packet'[w] = packet[w] \/ packet'[w] = packet[w] + 1
      BY <1>5
    <3> QED
      BY <3>1, <3>2, <3>3, <2>1, SMT
  <2>7. HasNext(v) /\ launch.handoff = "barrier" => Announced(v) = Received(w)
    BY <2>1 DEF Handshake
  <2> QED
    BY <2>2, <2>3, <2>4, <2>5, <2>6, <2>7, <1>4, <1>7 DEF Handshake, Ring, Holding
<1>10. \A v, w : Follows(v, w)' <=> Follows(v, w)
  BY DEF Follows, Role, Replica
<1> QED
  BY <1>4, <1>6, <1>8, <1>9, <1>10 DEF Folding

(* At the start of a fold nothing has been published and every flag is 0.   *)
FoldHead ==
    /\ HybridTypes
    /\ \A w \in Warp : packet[w] = 0
    /\ \A w \in Warp : pc[w] = HeadOf(w, 0, ActiveRoles, PacketCount)
    /\ \A x \in FlagSet : flags[x] = 0

(* At the head of a fold, with every flag clear, the fold part holds.       *)
LEMMA FoldStarts == FoldHead => Folding
<1> SUFFICES ASSUME FoldHead PROVE Folding
  OBVIOUS
<1> USE DEF FoldHead
<1>1. ASSUME NEW w \in Warp PROVE WarpFolding(w)
  <2>1. pc[w] = IF Role(w) < ActiveRoles /\ 0 < PacketCount THEN "ready" ELSE "folded"
    BY DEF HeadOf
  <2>2. \A n \in 0 .. 0 - 1 : n < PacketCount
    BY SMT
  <2> QED
    BY <2>1, <2>2 DEF WarpFolding, PacketLoop
<1>2. ASSUME NEW v \in Warp, NEW w \in Warp, Follows(v, w) PROVE Handshake(v, w)
  <2>1. pc[v] \in {"ready", "folded"} /\ pc[w] \in {"ready", "folded"}
    BY DEF HeadOf
  <2>2. packet[v] = 0 /\ packet[w] = 0 /\ Published(v) = 0
    BY <2>1 DEF Published
  <2>3. \A s \in 0 .. launch.buffers - 1 : RingFlags(v)[s] = 0
    BY <1>2, PairFacts DEF RingFlags
  <2>4. Ring(0, 0, launch.buffers, RingFlags(v))
    BY <2>3, <1>2, PairFacts, RingEmpty
  <2>5. Announced(v) = Received(w)
    BY <2>1, <2>2 DEF Announced, Received, Holding
  <2> QED
    BY <2>1, <2>2, <2>4, <2>5 DEF Handshake, Holding
<1> QED
  BY <1>1, <1>2 DEF Folding

(* When every warp has reached the end of a fold every flag is 0: what was  *)
(* announced was taken, since both ends of an edge work through all packets. *)
LEMMA FoldEnds ==
    ASSUME HybridTypes, Folding, \A w \in Warp : pc[w] = "folded", NEW x \in FlagSet
    PROVE  flags[x] = 0
<1>1. PICK r \in Edge, s \in 0 .. launch.buffers - 1, k \in 0 .. RoleStages - 1 : x = <<r, s, k>>
  BY DEF FlagSet
<1> DEFINE v == <<r, k>>
           w == <<r + 1, k>>
<1>2. v \in Warp /\ w \in Warp /\ Follows(v, w) /\ Role(v) = r /\ Replica(v) = k
  <2>1. r \in 0 .. MaxRoles - 1 /\ r + 1 \in 0 .. MaxRoles - 1
    BY LaunchFacts, SMT DEF HybridTypes, Edge
  <2> QED
    BY <2>1 DEF Warp, Follows, Role, Replica
<1> HIDE DEF v, w
<1>3. Handshake(v, w) /\ WarpFolding(v) /\ WarpFolding(w)
  BY <1>2 DEF Folding
<1>4. /\ packet[v] \in Nat /\ packet[w] \in Nat /\ launch.buffers \in Nat \ {0}
      /\ RingFlags(v) \in [0 .. launch.buffers - 1 -> {0, 1}]
  BY <1>2, PairFacts
<1>5. Published(v) = packet[w]
  <2>1. packet[w] <= Published(v)
    BY <1>3 DEF Handshake, Ring
  <2>2. CASE ~HasNext(v)
    <3>1. Published(v) = 0
      BY <2>2 DEF Published
    <3> QED
      BY <3>1, <2>1, <1>4, SMT
  <2>3. CASE HasNext(v)
    <3>1. Published(v) = packet[v]
      BY <2>3, <1>2 DEF Published
    <3>2. Role(w) < ActiveRoles
      BY <2>3, <1>2 DEF HasNext, Follows
    <3>3. ~(packet[w] < PacketCount)
      BY <3>2, <1>2, <1>3 DEF WarpFolding
    <3>4. packet[w] \notin 0 .. packet[v] - 1
      BY <3>3, <1>3 DEF WarpFolding
    <3> QED
      BY <3>1, <3>4, <2>1, <1>4, SMT
  <2> QED
    BY <2>2, <2>3
<1>6. RingFlags(v)[s] = 0
  BY <1>3, <1>4, <1>5, RingEmptied DEF Handshake
<1> QED
  BY <1>1, <1>2, <1>6 DEF RingFlags

(* At the entry each warp clears its share of the flags.                   *)
LEMMA LoadKeeps ==
    ASSUME HybridTypes, Loading, NEW u \in Warp, Load(u)
    PROVE  HybridTypes' /\ Loading'
<1>1. /\ UNCHANGED <<launch, packet>> /\ pc' = [pc EXCEPT ![u] = "loaded"]
      /\ flags' = Cleared(u)
  BY DEF Load, Goto
<1>2. Warp' = Warp /\ FlagSet' = FlagSet /\ launch' = launch
  BY <1>1, SameLaunch
<1>3. flags' = [x \in FlagSet |-> IF Share(u, FlagIndex(x)) THEN 0 ELSE flags[x]]
  BY <1>1 DEF Cleared, HybridTypes
<1>4. HybridTypes'
  BY <1>1, <1>2, <1>3 DEF HybridTypes
<1>5. \A w \in Warp : pc'[w] \in {"load", "loaded"} /\ packet'[w] = 0
  BY <1>1 DEF Loading, HybridTypes
<1>6. ASSUME NEW w \in Warp, NEW x \in FlagSet, pc'[w] = "loaded", Share(w, FlagIndex(x))
      PROVE  flags'[x] = 0
  <2>1. CASE w = u
    BY <2>1, <1>3, <1>6
  <2>2. CASE w # u
    <3>1. flags[x] = 0
      BY <2>2, <1>1, <1>6 DEF Loading, HybridTypes
    <3> QED
      BY <3>1, <1>3
  <2> QED
    BY <2>1, <2>2
<1>7. \A w, i : Share(w, i)' = Share(w, i)
  BY <1>1, SameLaunch
<1>8. \A x : FlagIndex(x)' = FlagIndex(x)
  BY <1>1, SameLaunch
<1>9. \A w, x : Share(w, FlagIndex(x))' = Share(w, FlagIndex(x))
  BY <1>2 DEF Share, FlagIndex, WarpNumber, RoleStages, MaxRoles, StageSpace
<1> QED
  BY <1>2, <1>4, <1>5, <1>6, <1>9 DEF Loading

(* Once all warps have loaded, every flag has been cleared by one of them.  *)
LEMMA FlagsCleared ==
    ASSUME HybridTypes, Loading, \A w \in Warp : pc[w] = "loaded", NEW x \in FlagSet
    PROVE  flags[x] = 0
<1>1. /\ RoleStages \in Nat \ {0} /\ launch.buffers \in Nat \ {0}
      /\ MaxRoles \in Nat \ {0} /\ WarpSize \in Nat \ {0}
  BY LaunchFacts DEF HybridTypes
<1>2. FlagIndex(x) \in Nat
  <2>1. x[1] \in Nat /\ x[2] \in Nat /\ x[3] \in Nat
    BY <1>1, SMT DEF FlagSet, Edge
  <2>2. x[1] * launch.buffers + x[2] \in Nat
    BY <1>1, <2>1, SMT
  <2>3. (x[1] * launch.buffers + x[2]) * RoleStages \in Nat
    BY <1>1, <2>2, SMT
  <2> QED
    BY <2>1, <2>3, SMT DEF FlagIndex
<1>3. FlagIndex(x) \div WarpSize \in Nat
  BY <1>1, <1>2, DivMod
<1>4. PICK r \in 0 .. MaxRoles - 1, k \in 0 .. RoleStages - 1 :
          (FlagIndex(x) \div WarpSize) % (MaxRoles * RoleStages) = r * RoleStages + k
  BY <1>1, <1>3, NumbersCovered
<1>5. <<r, k>> \in Warp /\ Share(<<r, k>>, FlagIndex(x))
  BY <1>4 DEF Warp, Share, WarpNumber, Role, Replica
<1> QED
  BY <1>5 DEF Loading

(* The first fold starts with every flag clear.                            *)
LEMMA StartFoldsKeeps ==
    ASSUME HybridTypes, Loading, StartFolds
    PROVE  HybridTypes' /\ Folding'
<1>1. /\ \A w \in Warp : pc[w] = "loaded"
      /\ pc' = [w \in Warp |-> HeadOf(w, 0, ActiveRoles, PacketCount)]
      /\ UNCHANGED <<launch, round, fold, packet, flags>>
  BY DEF StartFolds
<1>2. /\ Warp' = Warp /\ FlagSet' = FlagSet
      /\ ActiveRoles' = ActiveRoles /\ PacketCount' = PacketCount
  BY <1>1, SameLaunch, SameFold
<1>3. HybridTypes'
  BY <1>1, <1>2 DEF HybridTypes, PacketLoop, HeadOf
<1>4. \A x \in FlagSet : flags[x] = 0
  BY <1>1, FlagsCleared
<1>5. \A w \in Warp : packet[w] = 0
  BY DEF Loading
<1>6. \A w \in Warp' : pc'[w] = HeadOf(w, 0, ActiveRoles', PacketCount')
  BY <1>1, <1>2
<1>7. FoldHead'
  BY <1>1, <1>2, <1>3, <1>4, <1>5, <1>6 DEF FoldHead
<1>8. FoldHead' => Folding'
  BY FoldStarts, PTL
<1> QED
  BY <1>3, <1>7, <1>8

(* The next fold starts with every flag clear, and so does the output.      *)
LEMMA EndFoldKeeps ==
    ASSUME HybridTypes, Folding, EndFold
    PROVE  HybridTypes' /\ (Folding' \/ Finishing')
<1>1. /\ \A w \in Warp : pc[w] = "folded"
      /\ packet' = [w \in Warp |-> 0]
      /\ UNCHANGED <<launch, flags>>
  BY DEF EndFold
<1>2. Warp' = Warp /\ FlagSet' = FlagSet
  BY <1>1, SameLaunch
<1>3. \A x \in FlagSet : flags[x] = 0
  BY <1>1, FoldEnds
<1>4. \/ pc' = [w \in Warp |-> HeadOf(w, 0, ActiveRoles', PacketCount')]
      \/ pc' = [w \in Warp |-> "output"]
  <2> DEFINE next_round == IF fold + StageSpace < RoundStages THEN round ELSE round + FlowTileLogN
  <2>1. pc' = [w \in Warp |->
                IF next_round < LogN THEN HeadOf(w, 0, ActiveRoles', PacketCount') ELSE "output"]
    BY DEF EndFold
  <2> HIDE DEF next_round
  <2>2. CASE next_round < LogN
    BY <2>1, <2>2
  <2>3. CASE ~(next_round < LogN)
    BY <2>1, <2>3
  <2> QED
    BY <2>2, <2>3
<1>5. CASE pc' = [w \in Warp |-> HeadOf(w, 0, ActiveRoles', PacketCount')]
  <2>1. HybridTypes'
    BY <1>1, <1>2, <1>5 DEF HybridTypes, PacketLoop, HeadOf
  <2>2. \A w \in Warp' : pc'[w] = HeadOf(w, 0, ActiveRoles', PacketCount')
    BY <1>2, <1>5
  <2>3. FoldHead'
    BY <1>1, <1>2, <1>3, <2>1, <2>2 DEF FoldHead
  <2>4. FoldHead' => Folding'
    BY FoldStarts, PTL
  <2> QED
    BY <2>1, <2>3, <2>4
<1>6. CASE pc' = [w \in Warp |-> "output"]
  <2>1. HybridTypes'
    BY <1>1, <1>2, <1>6 DEF HybridTypes
  <2> QED
    BY <1>1, <1>2, <1>3, <1>6, <2>1 DEF Finishing
<1> QED
  BY <1>4, <1>5, <1>6

(* The output loop touches no flag.                                        *)
LEMMA OutputKeeps ==
    ASSUME HybridTypes, Finishing, NEW u \in Warp, Output(u)
    PROVE  HybridTypes' /\ Finishing'
<1>1. UNCHANGED <<launch, packet, flags>> /\ pc' = [pc EXCEPT ![u] = "done"]
  BY DEF Output, Goto
<1>2. Warp' = Warp /\ FlagSet' = FlagSet
  BY <1>1, SameLaunch
<1> QED
  BY <1>1, <1>2 DEF HybridTypes, Finishing

(* The invariant holds at first, and every step of the kernel keeps it.     *)
LEMMA HybridInit == Init => HybridInv
<1> SUFFICES ASSUME Init PROVE HybridInv
  OBVIOUS
<1>1. /\ launch \in Launches /\ pc = [w \in Warp |-> "load"] /\ packet = [w \in Warp |-> 0]
      /\ \E stale \in {0, 1} : flags = [x \in FlagSet |-> stale]
  BY DEF Init, FlagSet
<1>2. HybridTypes
  BY <1>1 DEF HybridTypes
<1>3. Loading
  BY <1>1 DEF Loading
<1> QED
  BY <1>2, <1>3 DEF HybridInv

(* Every step of the one-CTA kernel keeps its invariant.                   *)
LEMMA HybridStep == HybridInv /\ [Next]_hvars => HybridInv'
<1> SUFFICES ASSUME HybridInv, [Next]_hvars PROVE HybridInv'
  OBVIOUS
<1> USE DEF HybridInv
<1>0. PICK a \in Warp : TRUE
  BY WarpExists DEF HybridTypes
<1>1. ASSUME NEW u \in Warp, Load(u) PROVE HybridInv'
  <2>1. pc[u] = "load"
    BY <1>1 DEF Load
  <2>2. Loading
    BY <2>1 DEF Folding, Finishing, WarpFolding, PacketLoop
  <2> QED
    BY <1>1, <2>2, LoadKeeps
<1>2. ASSUME NEW u \in Warp, pc[u] \in PacketLoop PROVE Folding
  BY <1>2 DEF Loading, Finishing, PacketLoop
<1>3. ASSUME NEW u \in Warp, SourceReady(u) PROVE HybridInv'
  <2>1. Folding
    BY <1>2, <1>3 DEF SourceReady, PacketLoop
  <2> QED
    BY <1>3, <2>1, SourceReadyKeeps
<1>4. ASSUME NEW u \in Warp, TargetFree(u) PROVE HybridInv'
  <2>1. Folding
    BY <1>2, <1>4 DEF TargetFree, PacketLoop
  <2> QED
    BY <1>4, <2>1, TargetFreeKeeps
<1>5. ASSUME NEW u \in Warp, Take(u) PROVE HybridInv'
  <2>1. Folding
    BY <1>2, <1>5 DEF Take, PacketLoop
  <2> QED
    BY <1>5, <2>1, TakeKeeps
<1>6. ASSUME NEW u \in Warp, Store(u) PROVE HybridInv'
  <2>1. Folding
    BY <1>2, <1>6 DEF Store, PacketLoop
  <2> QED
    BY <1>6, <2>1, StoreKeeps
<1>7. ASSUME NEW u \in Warp, Publish(u) PROVE HybridInv'
  <2>1. Folding
    BY <1>2, <1>7 DEF Publish, PacketLoop
  <2> QED
    BY <1>7, <2>1, PublishKeeps
<1>8. ASSUME NEW u \in Warp, Release(u) PROVE HybridInv'
  <2>1. Folding
    BY <1>2, <1>8 DEF Release, PacketLoop
  <2> QED
    BY <1>8, <2>1, ReleaseKeeps
<1>9. ASSUME NEW x \in Warp, NEW y \in Warp, Meet(x, y) PROVE HybridInv'
  <2>1. pc[x] \in {"announce", "ready"}
    BY <1>9 DEF Meet, Arrived, Announcing, Expecting
  <2>2. Folding
    BY <1>2, <2>1 DEF PacketLoop
  <2> QED
    BY <1>9, <2>2, MeetKeeps
<1>10. ASSUME NEW u \in Warp, Output(u) PROVE HybridInv'
  <2>1. pc[u] = "output"
    BY <1>10 DEF Output
  <2>2. Finishing
    BY <2>1 DEF Folding, Loading, WarpFolding, PacketLoop
  <2> QED
    BY <1>10, <2>2, OutputKeeps
<1>11. CASE StartFolds
  <2>1. pc[a] = "loaded"
    BY <1>11 DEF StartFolds
  <2>2. Loading
    BY <2>1 DEF Folding, Finishing, WarpFolding, PacketLoop
  <2> QED
    BY <1>11, <2>2, StartFoldsKeeps
<1>12. CASE EndFold
  <2>1. pc[a] = "folded"
    BY <1>12 DEF EndFold
  <2>2. Folding
    BY <1>2, <2>1 DEF PacketLoop
  <2> QED
    BY <1>12, <2>2, EndFoldKeeps
<1>13. CASE UNCHANGED hvars
  <2>1. UNCHANGED <<launch, round, fold, pc, packet, flags>>
    BY <1>13 DEF hvars
  <2>2. /\ Warp' = Warp /\ FlagSet' = FlagSet /\ ActiveRoles' = ActiveRoles
        /\ PacketCount' = PacketCount /\ \A w : HasNext(w)' <=> HasNext(w)
    BY <2>1, SameLaunch, SameFold
  <2>3. HybridTypes'
    BY <2>1, <2>2 DEF HybridTypes
  <2>4. CASE Loading
    <3>1. \A w, x : Share(w, FlagIndex(x))' = Share(w, FlagIndex(x))
      BY <2>1 DEF Share, FlagIndex, WarpNumber, RoleStages, MaxRoles, StageSpace
    <3> QED
      BY <2>1, <2>2, <2>3, <2>4, <3>1 DEF Loading
  <2>5. CASE Folding
    <3>1. ASSUME NEW v, NEW w PROVE Handshake(v, w)' <=> Handshake(v, w)
      <4>1. Published(v)' = Published(v)
        BY <2>1, <2>2 DEF Published
      <4>2. RingFlags(v)' = RingFlags(v)
        BY <2>1 DEF RingFlags
      <4>3. Announced(v)' = Announced(v) /\ Received(w)' = Received(w)
        BY <2>1 DEF Announced, Received, Holding
      <4> QED
        BY <2>1, <2>2, <4>1, <4>2, <4>3 DEF Handshake, Ring, Holding
    <3>2. \A w : WarpFolding(w)' <=> WarpFolding(w)
      BY <2>1, <2>2 DEF WarpFolding
    <3> QED
      BY <2>2, <2>3, <2>5, <3>1, <3>2 DEF Folding, Follows, Role, Replica
  <2>6. CASE Finishing
    BY <2>1, <2>2, <2>3, <2>6 DEF Finishing
  <2> QED
    BY <2>4, <2>5, <2>6
<1> QED
  BY <1>1, <1>3, <1>4, <1>5, <1>6, <1>7, <1>8, <1>9, <1>10, <1>11, <1>12, <1>13
     DEF Next, Step

(* It implies the properties: slots of the ring differ, the rings are empty *)
(* between folds, and who meets at a barrier is at one packet.              *)
LEMMA HybridExclusive ==
    HybridInv => SlotExclusive /\ FoldBoundaryClean /\ BarrierMatched
<1> SUFFICES ASSUME HybridInv PROVE SlotExclusive /\ FoldBoundaryClean /\ BarrierMatched
  OBVIOUS
<1> USE DEF HybridInv
<1>0. PICK a \in Warp : TRUE
  BY WarpExists DEF HybridTypes
<1>1. ASSUME NEW v \in Warp, NEW w \in Warp, Role(w) = Role(v) + 1, Replica(v) = Replica(w),
             pc[v] \in {"take", "store"}, HasNext(v),
             pc[w] \in {"free", "take", "store", "announce", "release"}
      PROVE  Slot(v) # Slot(w)
  <2>1. Follows(v, w)
    BY <1>1 DEF Follows
  <2>2. Folding
    BY <1>1 DEF Loading, Finishing
  <2>3. Handshake(v, w)
    BY <2>1, <2>2 DEF Folding
  <2>4. Published(v) = packet[v]
    BY <1>1 DEF Published
  <2>5. packet[w] < packet[v] /\ packet[v] < packet[w] + launch.buffers
    BY <1>1, <2>3, <2>4 DEF Handshake, Holding
  <2>6. packet[v] \in Nat /\ packet[w] \in Nat /\ launch.buffers \in Nat \ {0}
    BY <2>1, PairFacts
  <2>7. packet[w] <= packet[w]
    BY <2>6, SMT
  <2> QED
    BY <2>5, <2>6, <2>7, SlotsDiffer DEF Slot
<1>2. SlotExclusive
  BY <1>1 DEF SlotExclusive
<1>3. FoldBoundaryClean
  <2> SUFFICES ASSUME \A w \in Warp : pc[w] \in {"folded", "output", "done"}, NEW x \in FlagSet
               PROVE  flags[x] = 0
    BY DEF FoldBoundaryClean, HybridTypes
  <2>1. CASE Folding
    <3>1. \A w \in Warp : pc[w] = "folded"
      BY <2>1 DEF Folding, WarpFolding, PacketLoop
    <3> QED
      BY <2>1, <3>1, FoldEnds
  <2>2. CASE Finishing
    BY <2>2 DEF Finishing
  <2>3. CASE Loading
    BY <2>3, <1>0 DEF Loading
  <2> QED
    BY <2>1, <2>2, <2>3
<1>4. ASSUME NEW v \in Warp, NEW w \in Warp, Announcing(v), Expecting(w), Follows(v, w)
      PROVE  packet[v] = packet[w] /\ Replica(v) = Replica(w) /\ Role(v) \in Edge
  <2>1. pc[v] = "announce" /\ pc[w] = "ready" /\ launch.handoff = "barrier"
    BY <1>4 DEF Announcing, Expecting
  <2>2. Folding
    BY <2>1 DEF Loading, Finishing
  <2>3. Handshake(v, w) /\ HasNext(v)
    BY <1>4, <2>1, <2>2 DEF Folding, WarpFolding
  <2>4. packet[v] = packet[w]
    BY <2>1, <2>3 DEF Handshake, Announced, Received, Holding
  <2> QED
    BY <1>4, <2>4, PairFacts DEF Follows
<1>5. ASSUME NEW v \in Warp, NEW w \in Warp, v # w, Arrived(v) # 0, Arrived(v) = Arrived(w)
      PROVE  /\ packet[v] = packet[w]
             /\ Replica(v) = Replica(w)
             /\ {Role(v), Role(w)} \in { {r, r + 1} : r \in Edge }
  <2>1. CASE Announcing(v) /\ Expecting(w) /\ Follows(v, w)
    BY <2>1, <1>4 DEF Follows
  <2>2. CASE Announcing(w) /\ Expecting(v) /\ Follows(w, v)
    <3>1. {Role(v), Role(w)} = {Role(w), Role(w) + 1}
      BY <2>2 DEF Follows
    <3> QED
      BY <2>2, <3>1, <1>4
  <2> QED
    BY <1>5, <2>1, <2>2, BarrierDistinct
<1>6. BarrierMatched
  BY <1>5 DEF BarrierMatched
<1> QED
  BY <1>2, <1>3, <1>6

----------------------------------------------------------------------------
(* The cooperative launch.                                                 *)

GroupLoop == {"acquire", "free", "take", "store", "publish", "release", "drained"}
BetweenFolds == {"load", "loaded", "write", "written", "transposed", "done"}

ApptTypes ==
    /\ launch \in Pipelines
    /\ pc \in [Appt!Warp -> {"clear", "cleared"} \cup GroupLoop \cup BetweenFolds]
    /\ processed \in [Appt!Warp -> Nat]
    /\ flags \in [Appt!Cta -> [Appt!Flag -> {0, 1}]]

\* The warp that takes what v puts into its ring.
ApptFollows(v, w) ==
    /\ Appt!Block(w) = Appt!Block(v)
    /\ Appt!Role(w) = Appt!Role(v) + 1
    /\ Appt!Replica(w) = Appt!Replica(v)

\* The token groups a warp has handed over in this fold.
ApptPublished(v) ==
    IF ~Appt!HasNext(v) THEN 0
    ELSE IF pc[v] = "release" THEN processed[v] + 1 ELSE processed[v]

\* The flags of the ring that v fills.
ApptRing(v) ==
    [s \in 0 .. launch.buffers - 1 |->
        flags[Appt!Block(v)][<<Appt!Role(v), Appt!Replica(v), s>>]]

\* A warp between the wait for its source group and the release of it.
ApptHolding == {"free", "take", "store", "publish", "release"}

ApptHandshake(v, w) ==
    /\ Ring(ApptPublished(v), processed[w], launch.buffers, ApptRing(v))
    /\ pc[w] \in ApptHolding => processed[w] < ApptPublished(v)
    /\ Appt!HasNext(v) /\ pc[v] \in {"take", "store", "publish"} =>
           processed[v] < processed[w] + launch.buffers

Clearing(c) ==
    \A w \in Appt!Warp : Appt!Block(w) = c =>
        /\ pc[w] \in {"clear", "cleared"}
        /\ pc[w] = "cleared" => \A f \in Appt!Flag : Appt!Cleared(w, f) => flags[c][f] = 0

BlockFolding(c) ==
    /\ \A w \in Appt!Warp : Appt!Block(w) = c =>
           /\ pc[w] \in GroupLoop
           /\ ~(Appt!Role(w) < Appt!ActiveRoles) => pc[w] = "drained" /\ processed[w] = 0
    /\ \A v, w \in Appt!Warp :
           Appt!Block(v) = c /\ ApptFollows(v, w) => ApptHandshake(v, w)

Between(c) == \A w \in Appt!Warp : Appt!Block(w) = c => pc[w] \in BetweenFolds

BlockInv(c) == Clearing(c) \/ BlockFolding(c) \/ Between(c)

ApptInv == ApptTypes /\ \A c \in Appt!Cta : BlockInv(c)

(* What a valid cooperative launch fixes.                                 *)
LEMMA PipelineFacts ==
    ASSUME launch \in Pipelines
    PROVE  /\ launch.buffers \in Nat \ {0}
           /\ Appt!PipelineBuffers = launch.buffers
           /\ Appt!PipelineReplicas \in Nat \ {0}
           /\ Appt!Roles \in Nat \ {0}
           /\ PipelineWarp \in Nat \ {0}
<1>1. /\ launch.buffers \in Nat \ {0} /\ launch.stageSpace \in Nat \ {0}
      /\ launch.roleStages \in {1, 2} /\ launch.replicas \in {1, 2}
      /\ PipelineWarp \in Nat \ {0}
  BY PipelinesAssumption DEF Appt!ValidLaunches
<1>2. launch.roleStages \in Nat \ {0} /\ launch.replicas \in Nat \ {0}
  BY <1>1, SMT
<1>3. Appt!Roles \in Nat \ {0}
  BY <1>1, <1>2, RolesPositive DEF Appt!Roles, Appt!CeilDiv, Appt!StageSpace, Appt!RoleStages
<1> QED
  BY <1>1, <1>2, <1>3 DEF Appt!PipelineBuffers, Appt!PipelineReplicas

(* The warps and the flags of a launch do not change ...                   *)
LEMMA ApptSameLaunch ==
    ASSUME launch' = launch
    PROVE  /\ Appt!Warp' = Appt!Warp
           /\ Appt!Cta' = Appt!Cta
           /\ Appt!Flag' = Appt!Flag
           /\ \A w, f : Appt!Cleared(w, f)' <=> Appt!Cleared(w, f)
  BY DEF Appt!Warp, Appt!Cta, Appt!Ctas, Appt!Roles, Appt!PipelineReplicas, Appt!StageSpace,
         Appt!RoleStages, Appt!Flag, Appt!Edge, Appt!PipelineBuffers, Appt!Cleared,
         Appt!Share, Appt!WarpNumber, Appt!Warps, Appt!FlagIndex

(* ... nor do the roles of a fold, within it.                             *)
LEMMA ApptSameFold ==
    ASSUME UNCHANGED <<launch, fold>>
    PROVE  /\ Appt!ActiveRoles' = Appt!ActiveRoles
           /\ \A w : Appt!HasNext(w)' <=> Appt!HasNext(w)
  BY DEF Appt!ActiveRoles, Appt!ActiveStages, Appt!StageBase, Appt!LogN, Appt!StageSpace,
         Appt!RoleStages, Appt!HasNext

(* A pair of warps, and where their flags are.                             *)
LEMMA ApptPairFacts ==
    ASSUME ApptTypes, NEW v \in Appt!Warp, NEW w \in Appt!Warp, ApptFollows(v, w)
    PROVE  /\ v # w
           /\ Appt!Block(v) \in Appt!Cta
           /\ Appt!Role(v) \in Nat /\ Appt!Role(w) # 0 /\ Appt!Role(w) - 1 = Appt!Role(v)
           /\ \A s \in 0 .. launch.buffers - 1 :
                  <<Appt!Role(v), Appt!Replica(v), s>> \in Appt!Flag
           /\ processed[v] \in Nat /\ processed[w] \in Nat
           /\ ApptPublished(v) \in Nat
           /\ launch.buffers \in Nat \ {0}
<1>1. /\ Appt!Role(v) \in 0 .. Appt!Roles - 1 /\ Appt!Role(w) \in 0 .. Appt!Roles - 1
      /\ Appt!Replica(v) \in 0 .. Appt!PipelineReplicas - 1
      /\ Appt!Block(v) \in Appt!Cta
  BY DEF Appt!Warp, Appt!Role, Appt!Replica, Appt!Block
<1>2. /\ Appt!Roles \in Nat \ {0} /\ launch.buffers \in Nat \ {0}
      /\ Appt!PipelineBuffers = launch.buffers
  BY PipelineFacts DEF ApptTypes
<1>3. /\ Appt!Role(v) \in 0 .. Appt!Roles - 2 /\ Appt!Role(v) \in Nat /\ Appt!Role(w) # 0
      /\ Appt!Role(w) - 1 = Appt!Role(v) /\ Appt!Role(v) # Appt!Role(w)
  BY <1>1, <1>2, SMT DEF ApptFollows
<1>4. \A s \in 0 .. launch.buffers - 1 : <<Appt!Role(v), Appt!Replica(v), s>> \in Appt!Flag
  BY <1>1, <1>2, <1>3 DEF Appt!Flag, Appt!Edge
<1>5. processed[v] \in Nat /\ processed[w] \in Nat
  BY DEF ApptTypes
<1>6. ApptPublished(v) \in Nat
  BY <1>5, SMT DEF ApptPublished
<1> QED
  BY <1>1, <1>2, <1>3, <1>4, <1>5, <1>6

(* A warp is its block, role and replica.                                  *)
LEMMA ApptPlace ==
    ASSUME NEW w \in Appt!Warp
    PROVE  /\ w = <<Appt!Block(w), Appt!Role(w), Appt!Replica(w)>>
           /\ Appt!Block(w) \in Appt!Cta
           /\ Appt!Role(w) \in Nat
  BY SMT DEF Appt!Warp, Appt!Block, Appt!Role, Appt!Replica

(* A block has a warp.                                                    *)
LEMMA BlockHasWarp ==
    ASSUME launch \in Pipelines, NEW c \in Appt!Cta
    PROVE  \E w \in Appt!Warp : Appt!Block(w) = c
<1>1. 0 \in 0 .. Appt!Roles - 1 /\ 0 \in 0 .. Appt!PipelineReplicas - 1
  BY PipelineFacts, SMT
<1>2. <<c, 0, 0>> \in Appt!Warp
  BY <1>1 DEF Appt!Warp
<1> QED
  BY <1>2 DEF Appt!Block

\* A step of one block leaves what holds of another.
LEMMA OtherBlock ==
    ASSUME NEW c \in Appt!Cta, BlockInv(c), UNCHANGED <<launch, fold>>,
           flags'[c] = flags[c],
           \A w \in Appt!Warp : Appt!Block(w) = c =>
               pc'[w] = pc[w] /\ processed'[w] = processed[w]
    PROVE  BlockInv(c)'
<1>1. /\ Appt!Warp' = Appt!Warp /\ Appt!Flag' = Appt!Flag
      /\ \A w, f : Appt!Cleared(w, f)' <=> Appt!Cleared(w, f)
  BY ApptSameLaunch
<1>2. Appt!ActiveRoles' = Appt!ActiveRoles /\ \A w : Appt!HasNext(w)' <=> Appt!HasNext(w)
  BY ApptSameFold
<1>3. \A w : Appt!Block(w)' = Appt!Block(w) /\ Appt!Role(w)' = Appt!Role(w)
  BY DEF Appt!Block, Appt!Role
<1>4. CASE Clearing(c)
  <2>1. Clearing(c)'
    BY <1>1, <1>3, <1>4 DEF Clearing
  <2> QED
    BY <2>1 DEF BlockInv
<1>5. CASE Between(c)
  <2>1. Between(c)'
    BY <1>1, <1>3, <1>5 DEF Between
  <2> QED
    BY <2>1 DEF BlockInv
<1>6. CASE BlockFolding(c)
  <2>1. ASSUME NEW v \in Appt!Warp, NEW w \in Appt!Warp, Appt!Block(v) = c, ApptFollows(v, w)
        PROVE  ApptHandshake(v, w)'
    <3>1. ApptHandshake(v, w) /\ Appt!Block(w) = c
      BY <1>6, <2>1 DEF BlockFolding, ApptFollows
    <3>2. /\ pc'[v] = pc[v] /\ processed'[v] = processed[v]
          /\ pc'[w] = pc[w] /\ processed'[w] = processed[w]
      BY <2>1, <3>1
    <3>3. ApptPublished(v)' = ApptPublished(v)
      BY <1>2, <3>2 DEF ApptPublished
    <3>4. ApptRing(v)' = ApptRing(v)
      BY <2>1 DEF ApptRing, Appt!Block, Appt!Role, Appt!Replica
    <3> QED
      BY <3>1, <3>2, <3>3, <3>4, <1>2 DEF ApptHandshake, Ring, ApptHolding
  <2>2. \A v, w : ApptFollows(v, w)' <=> ApptFollows(v, w)
    BY DEF ApptFollows, Appt!Block, Appt!Role, Appt!Replica
  <2>3. BlockFolding(c)'
    BY <1>1, <1>2, <1>3, <1>6, <2>1, <2>2 DEF BlockFolding, GroupLoop
  <2> QED
    BY <2>3 DEF BlockInv
<1> QED
  BY <1>4, <1>5, <1>6 DEF BlockInv

(* A block of which one warp is in the packet loop has all of them there.   *)
LEMMA InItsFold ==
    ASSUME ApptInv, NEW u \in Appt!Warp, pc[u] \in GroupLoop
    PROVE  BlockFolding(Appt!Block(u))
<1>1. Appt!Block(u) \in Appt!Cta
  BY ApptPlace
<1>2. BlockInv(Appt!Block(u))
  BY <1>1 DEF ApptInv
<1>3. ~Clearing(Appt!Block(u)) /\ ~Between(Appt!Block(u))
  BY DEF Clearing, Between, GroupLoop, BetweenFolds
<1> QED
  BY <1>2, <1>3 DEF BlockInv

(* A step that moves one warp u on, in the part of its group in which it   *)
(* neither publishes nor releases a slot.                                  *)
LEMMA ApptQuietStep ==
    ASSUME ApptInv, NEW u \in Appt!Warp, NEW q,
           UNCHANGED <<launch, fold, processed, flags>>,
           pc' = [pc EXCEPT ![u] = q],
           q \in {"free", "take", "store", "publish"},
           pc[u] \in {"acquire", "free", "take", "store"},
           pc[u] = "acquire" =>
               \A v \in Appt!Warp : ApptFollows(v, u) => processed[u] < ApptPublished(v),
           (q # "free" /\ pc[u] \notin {"take", "store"}) =>
               \A w \in Appt!Warp : ApptFollows(u, w) /\ Appt!HasNext(u) =>
                   processed[u] < processed[w] + launch.buffers
    PROVE  ApptInv'
<1> DEFINE b == Appt!Block(u)
<1>1. /\ Appt!Warp' = Appt!Warp /\ Appt!Cta' = Appt!Cta /\ Appt!Flag' = Appt!Flag
      /\ launch' = launch /\ processed' = processed /\ flags' = flags
  BY ApptSameLaunch
<1>2. ApptTypes /\ BlockFolding(b) /\ b \in Appt!Cta
  BY InItsFold, ApptPlace DEF ApptInv, GroupLoop
<1>3. \A w \in Appt!Warp : pc'[w] = IF w = u THEN q ELSE pc[w]
  BY <1>2 DEF ApptTypes
<1>4. ApptTypes'
  BY <1>1, <1>2 DEF ApptTypes, GroupLoop
<1>5. Appt!ActiveRoles' = Appt!ActiveRoles /\ \A w : Appt!HasNext(w)' <=> Appt!HasNext(w)
  BY ApptSameFold
<1>6. \A w \in Appt!Warp : Appt!Block(w) = b =>
          /\ pc'[w] \in GroupLoop
          /\ ~(Appt!Role(w) < Appt!ActiveRoles) => pc'[w] = "drained" /\ processed[w] = 0
  BY <1>2, <1>3 DEF BlockFolding, GroupLoop
<1>7. ASSUME NEW v \in Appt!Warp, NEW w \in Appt!Warp, Appt!Block(v) = b, ApptFollows(v, w)
      PROVE  ApptHandshake(v, w)'
  <2>1. ApptHandshake(v, w)
    BY <1>2, <1>7 DEF BlockFolding
  <2>2. pc'[v] = "release" <=> pc[v] = "release"
    BY <1>3
  <2>3. ApptPublished(v)' = ApptPublished(v)
    BY <2>2, <1>1, <1>5 DEF ApptPublished
  <2>4. ApptRing(v)' = ApptRing(v)
    BY <1>1 DEF ApptRing, Appt!Block, Appt!Role, Appt!Replica
  <2>5. pc'[w] \in ApptHolding => processed[w] < ApptPublished(v)
    <3>1. CASE w = u /\ pc[u] = "acquire"
      BY <3>1, <1>7
    <3>2. CASE ~(w = u /\ pc[u] = "acquire")
      BY <3>2, <2>1, <1>3 DEF ApptHandshake, ApptHolding
    <3> QED
      BY <3>1, <3>2
  <2>6. Appt!HasNext(v) /\ pc'[v] \in {"take", "store", "publish"} =>
            processed[v] < processed[w] + launch.buffers
    <3>1. CASE v = u /\ pc[u] \notin {"take", "store"}
      BY <3>1, <1>3, <1>7
    <3>2. CASE ~(v = u /\ pc[u] \notin {"take", "store"})
      BY <3>2, <2>1, <1>3 DEF ApptHandshake
    <3> QED
      BY <3>1, <3>2
  <2> QED
    BY <2>1, <2>3, <2>4, <2>5, <2>6, <1>1, <1>5 DEF ApptHandshake, Ring, ApptHolding
<1>8. /\ \A v, w : ApptFollows(v, w)' <=> ApptFollows(v, w)
      /\ \A w : Appt!Block(w)' = Appt!Block(w) /\ Appt!Role(w)' = Appt!Role(w)
  BY DEF ApptFollows, Appt!Block, Appt!Role, Appt!Replica
<1> HIDE DEF b
<1>9. BlockFolding(b)'
  <2>1. b' = b
    BY DEF b, Appt!Block
  <2> QED
    BY <2>1, <1>1, <1>5, <1>6, <1>7, <1>8 DEF BlockFolding, GroupLoop
<1>10. ASSUME NEW c \in Appt!Cta, c # b PROVE BlockInv(c)'
  <2>1. \A w \in Appt!Warp : Appt!Block(w) = c => pc'[w] = pc[w] /\ processed'[w] = processed[w]
    BY <1>1, <1>3, <1>10 DEF b
  <2>2. BlockInv(c)
    BY DEF ApptInv
  <2> QED
    BY <2>1, <2>2, <1>1, OtherBlock
<1>11. BlockInv(b)'
  BY <1>9 DEF BlockInv
<1>12. \A c \in Appt!Cta : BlockInv(c)'
  <2>1. b' = b
    BY DEF b, Appt!Block
  <2> TAKE c \in Appt!Cta
  <2>2. CASE c = b
    BY <2>1, <2>2, <1>11
  <2>3. CASE c # b
    BY <2>3, <1>10
  <2> QED
    BY <2>2, <2>3
<1> QED
  BY <1>1, <1>4, <1>12 DEF ApptInv

(* The consumer goes past its flag only when a token group is there.        *)
LEMMA AcquireKeeps ==
    ASSUME ApptInv, NEW u \in Appt!Warp, Appt!Acquire(u)
    PROVE  ApptInv'
<1>1. /\ pc[u] = "acquire" /\ pc' = [pc EXCEPT ![u] = "free"]
      /\ UNCHANGED <<launch, fold, processed, flags>>
  BY DEF Appt!Acquire, Appt!Goto
<1>2. ASSUME NEW v \in Appt!Warp, ApptFollows(v, u)
      PROVE  processed[u] < ApptPublished(v)
  <2>1. BlockFolding(Appt!Block(u)) /\ ApptTypes
    BY <1>1, InItsFold DEF GroupLoop, ApptInv
  <2>2. /\ Appt!Role(u) # 0 /\ Appt!Role(u) - 1 = Appt!Role(v)
        /\ Appt!Replica(u) = Appt!Replica(v) /\ Appt!Block(u) = Appt!Block(v)
        /\ ApptPublished(v) \in Nat /\ processed[u] \in Nat /\ launch.buffers \in Nat \ {0}
        /\ Ring(ApptPublished(v), processed[u], launch.buffers, ApptRing(v))
    BY <1>2, <2>1, ApptPairFacts DEF ApptFollows, BlockFolding, ApptHandshake
  <2>3. flags[Appt!Block(v)][<<Appt!Role(v), Appt!Replica(v), processed[u] % launch.buffers>>] = 1
    BY <2>2 DEF Appt!Acquire, Appt!PreviousFlag, Appt!RingSlot, Appt!PipelineBuffers
  <2>4. ApptRing(v)[processed[u] % launch.buffers] = 1
    BY <2>2, <2>3, SlotInRange DEF ApptRing
  <2> QED
    BY <2>2, <2>4, RingFull
<1> QED
  BY <1>1, <1>2, ApptQuietStep

(* The producer goes on only when the target slot is free.                 *)
LEMMA ApptTargetFreeKeeps ==
    ASSUME ApptInv, NEW u \in Appt!Warp, Appt!TargetFree(u)
    PROVE  ApptInv'
<1>1. /\ pc[u] = "free" /\ pc' = [pc EXCEPT ![u] = "take"]
      /\ UNCHANGED <<launch, fold, processed, flags>>
  BY DEF Appt!TargetFree, Appt!Goto
<1>2. ASSUME NEW w \in Appt!Warp, ApptFollows(u, w), Appt!HasNext(u)
      PROVE  processed[u] < processed[w] + launch.buffers
  <2>1. BlockFolding(Appt!Block(u)) /\ ApptTypes
    BY <1>1, InItsFold DEF GroupLoop, ApptInv
  <2>2. /\ processed[u] \in Nat /\ processed[w] \in Nat /\ launch.buffers \in Nat \ {0}
        /\ Ring(ApptPublished(u), processed[w], launch.buffers, ApptRing(u))
    BY <1>2, <2>1, ApptPairFacts DEF BlockFolding, ApptHandshake
  <2>3. ApptPublished(u) = processed[u]
    BY <1>1, <1>2 DEF ApptPublished
  <2>4. processed[u] < launch.buffers \/ ApptRing(u)[processed[u] % launch.buffers] = 0
    <3>1. \/ processed[u] < launch.buffers
          \/ flags[Appt!Block(u)][<<Appt!Role(u), Appt!Replica(u), processed[u] % launch.buffers>>] = 0
      BY <1>2 DEF Appt!TargetFree, Appt!FirstUse, Appt!NextFlag, Appt!RingSlot, Appt!PipelineBuffers
    <3> QED
      BY <3>1, <2>2, SlotInRange DEF ApptRing
  <2> QED
    BY <2>2, <2>3, <2>4, RingFree
<1> QED
  BY <1>1, <1>2, ApptQuietStep

(* Taking, skipping and storing a token leave the handshake alone.          *)
LEMMA TokenKeeps ==
    ASSUME ApptInv, NEW u \in Appt!Warp, Appt!Take(u) \/ Appt!Skip(u) \/ Appt!Store(u)
    PROVE  ApptInv'
<1>1. /\ pc[u] \in {"take", "store"}
      /\ UNCHANGED <<launch, fold, processed, flags>>
      /\ \/ pc' = [pc EXCEPT ![u] = "take"]
         \/ pc' = [pc EXCEPT ![u] = "store"]
         \/ pc' = [pc EXCEPT ![u] = "publish"]
  <2>1. CASE Appt!Take(u)
    BY <2>1 DEF Appt!Take, Appt!Goto
  <2>2. CASE Appt!Skip(u)
    BY <2>2 DEF Appt!Skip, Appt!AfterItem, Appt!Goto
  <2>3. CASE Appt!Store(u)
    BY <2>3 DEF Appt!Store, Appt!AfterItem, Appt!Goto
  <2> QED
    BY <2>1, <2>2, <2>3
<1>2. PICK q \in {"take", "store", "publish"} : pc' = [pc EXCEPT ![u] = q]
  BY <1>1
<1> QED
  BY <1>1, <1>2, ApptQuietStep

(* Publishing hands one group over: the slot was free.                     *)
LEMMA ApptPublishKeeps ==
    ASSUME ApptInv, NEW u \in Appt!Warp, Appt!Publish(u)
    PROVE  ApptInv'
<1> DEFINE b == Appt!Block(u)
<1>1. /\ pc[u] = "publish" /\ pc' = [pc EXCEPT ![u] = "release"]
      /\ UNCHANGED <<launch, fold, processed>>
      /\ flags' = IF Appt!HasNext(u)
                  THEN [flags EXCEPT ![b] = [flags[b] EXCEPT ![Appt!NextFlag(u)] = 1]] ELSE flags
  BY DEF Appt!Publish, Appt!Goto
<1>2. ApptTypes /\ BlockFolding(b) /\ b \in Appt!Cta
  BY <1>1, InItsFold, ApptPlace DEF ApptInv, GroupLoop
<1>3. /\ Appt!Warp' = Appt!Warp /\ Appt!Cta' = Appt!Cta /\ Appt!Flag' = Appt!Flag
      /\ launch' = launch /\ processed' = processed
  BY <1>1, ApptSameLaunch
<1>4. \A w \in Appt!Warp : pc'[w] = IF w = u THEN "release" ELSE pc[w]
  BY <1>1, <1>2 DEF ApptTypes
<1>5. /\ flags' \in [Appt!Cta -> [Appt!Flag -> {0, 1}]]
      /\ \A c \in Appt!Cta : c # b => flags'[c] = flags[c]
  <2>1. [flags[b] EXCEPT ![Appt!NextFlag(u)] = 1] \in [Appt!Flag -> {0, 1}]
    BY <1>2 DEF ApptTypes
  <2> QED
    BY <2>1, <1>1, <1>2 DEF ApptTypes
<1>6. ApptTypes'
  BY <1>1, <1>2, <1>3, <1>5 DEF ApptTypes, GroupLoop
<1>7. Appt!ActiveRoles' = Appt!ActiveRoles /\ \A w : Appt!HasNext(w)' <=> Appt!HasNext(w)
  BY <1>1, ApptSameFold
<1>8. \A w \in Appt!Warp : Appt!Block(w) = b =>
          /\ pc'[w] \in GroupLoop
          /\ ~(Appt!Role(w) < Appt!ActiveRoles) => pc'[w] = "drained" /\ processed[w] = 0
  BY <1>1, <1>2, <1>4 DEF BlockFolding, GroupLoop
<1>9. ASSUME NEW v \in Appt!Warp, NEW w \in Appt!Warp, Appt!Block(v) = b, ApptFollows(v, w)
      PROVE  ApptHandshake(v, w)'
  <2>1. /\ ApptHandshake(v, w) /\ v # w
        /\ \A s \in 0 .. launch.buffers - 1 :
               <<Appt!Role(v), Appt!Replica(v), s>> \in Appt!Flag
        /\ processed[v] \in Nat /\ processed[w] \in Nat /\ ApptPublished(v) \in Nat
        /\ launch.buffers \in Nat \ {0}
    BY <1>2, <1>9, ApptPairFacts DEF BlockFolding
  <2>2. pc'[w] \in ApptHolding <=> pc[w] \in ApptHolding
    BY <1>1, <1>4 DEF ApptHolding
  <2>3. Appt!HasNext(v) /\ pc'[v] \in {"take", "store", "publish"} =>
            processed[v] < processed[w] + launch.buffers
    BY <2>1, <1>4 DEF ApptHandshake
  <2>4. CASE v = u /\ Appt!HasNext(v)
    <3>1. /\ ApptPublished(v) = processed[v] /\ ApptPublished(v)' = processed[v] + 1
          /\ processed[v] < processed[w] + launch.buffers
      BY <2>1, <2>4, <1>1, <1>3, <1>4, <1>7 DEF ApptPublished, ApptHandshake
    <3>2. ApptRing(v)' = [s \in 0 .. launch.buffers - 1 |->
                              IF s = processed[v] % launch.buffers THEN 1 ELSE ApptRing(v)[s]]
      <4>1. Appt!NextFlag(u) = <<Appt!Role(v), Appt!Replica(v), processed[v] % launch.buffers>>
        BY <2>4 DEF Appt!NextFlag, Appt!RingSlot, Appt!PipelineBuffers
      <4>2. flags'[b] = [flags[b] EXCEPT ![Appt!NextFlag(u)] = 1]
        BY <2>4, <1>1, <1>2 DEF ApptTypes
      <4>3. \A s \in 0 .. launch.buffers - 1 :
                flags'[b][<<Appt!Role(v), Appt!Replica(v), s>>] =
                    IF s = processed[v] % launch.buffers THEN 1
                    ELSE flags[b][<<Appt!Role(v), Appt!Replica(v), s>>]
        <5>1. flags[b] \in [Appt!Flag -> {0, 1}]
          BY <1>2 DEF ApptTypes
        <5> QED
          BY <5>1, <4>1, <4>2, <2>1
      <4> QED
        BY <4>3, <1>3, <1>9 DEF ApptRing, Appt!Block, Appt!Role, Appt!Replica
    <3>3. Ring(processed[v] + 1, processed[w], launch.buffers, ApptRing(v)')
      <4>1. processed[v] % launch.buffers \in 0 .. launch.buffers - 1
        BY <2>1, SlotInRange
      <4>2. ApptRing(v)'[processed[v] % launch.buffers] = 1
        BY <3>2, <4>1
      <4>3. \A s \in 0 .. launch.buffers - 1 :
                s # processed[v] % launch.buffers => ApptRing(v)'[s] = ApptRing(v)[s]
        BY <3>2
      <4>4. Ring(processed[v], processed[w], launch.buffers, ApptRing(v))
        BY <3>1, <2>1 DEF ApptHandshake
      <4> QED
        BY <4>2, <4>3, <4>4, <3>1, <2>1, RingPublish
    <3>4. pc'[w] \in ApptHolding => processed[w] < processed[v] + 1
      <4>1. pc[w] \in ApptHolding => processed[w] < processed[v]
        BY <3>1, <2>1 DEF ApptHandshake
      <4> QED
        BY <4>1, <2>2, <2>1, SMT
    <3> QED
      BY <3>1, <3>3, <3>4, <2>3, <1>3, <1>7 DEF ApptHandshake, Ring, ApptHolding
  <2>5. CASE ~(v = u /\ Appt!HasNext(v))
    <3>1. ApptPublished(v)' = ApptPublished(v)
      BY <2>5, <1>3, <1>4, <1>7 DEF ApptPublished
    <3>2. \A s \in 0 .. launch.buffers - 1 :
              flags'[b][<<Appt!Role(v), Appt!Replica(v), s>>] =
                  flags[b][<<Appt!Role(v), Appt!Replica(v), s>>]
      <4>1. CASE ~Appt!HasNext(u)
        BY <4>1, <1>1
      <4>2. CASE Appt!HasNext(u)
        <5>1. v # u
          BY <2>5, <4>2
        <5>2. Appt!Role(v) # Appt!Role(u) \/ Appt!Replica(v) # Appt!Replica(u)
          BY <5>1, <1>9, ApptPlace
        <5>3. \A s : <<Appt!Role(v), Appt!Replica(v), s>> # Appt!NextFlag(u)
          BY <5>2 DEF Appt!NextFlag
        <5>4. flags'[b] = [flags[b] EXCEPT ![Appt!NextFlag(u)] = 1] /\ flags[b] \in [Appt!Flag -> {0, 1}]
          BY <4>2, <1>1, <1>2 DEF ApptTypes
        <5> QED
          BY <5>3, <5>4, <2>1
      <4> QED
        BY <4>1, <4>2
    <3>3. ApptRing(v)' = ApptRing(v)
      BY <3>2, <1>3, <1>9 DEF ApptRing, Appt!Block, Appt!Role, Appt!Replica
    <3> QED
      BY <3>1, <3>3, <2>1, <2>2, <2>3, <1>3, <1>7 DEF ApptHandshake, Ring, ApptHolding
  <2> QED
    BY <2>4, <2>5
<1>10. /\ \A v, w : ApptFollows(v, w)' <=> ApptFollows(v, w)
       /\ \A w : Appt!Block(w)' = Appt!Block(w) /\ Appt!Role(w)' = Appt!Role(w)
  BY DEF ApptFollows, Appt!Block, Appt!Role, Appt!Replica
<1> HIDE DEF b
<1>11. BlockFolding(b)'
  <2>1. b' = b
    BY DEF b, Appt!Block
  <2> QED
    BY <2>1, <1>3, <1>7, <1>8, <1>9, <1>10 DEF BlockFolding, GroupLoop
<1>12. ASSUME NEW c \in Appt!Cta, c # b PROVE BlockInv(c)'
  <2>1. \A w \in Appt!Warp : Appt!Block(w) = c => pc'[w] = pc[w] /\ processed'[w] = processed[w]
    BY <1>3, <1>4, <1>12 DEF b
  <2>2. BlockInv(c) /\ flags'[c] = flags[c]
    BY <1>5, <1>12 DEF ApptInv
  <2> QED
    BY <2>1, <2>2, <1>1, OtherBlock
<1>13. \A c \in Appt!Cta : BlockInv(c)'
  <2>1. b' = b
    BY DEF b, Appt!Block
  <2> TAKE c \in Appt!Cta
  <2>2. CASE c = b
    BY <2>1, <2>2, <1>11 DEF BlockInv
  <2>3. CASE c # b
    BY <2>3, <1>12
  <2> QED
    BY <2>2, <2>3
<1> QED
  BY <1>3, <1>6, <1>13 DEF ApptInv

(* Releasing gives the oldest group of the source ring back.               *)
LEMMA ApptReleaseKeeps ==
    ASSUME ApptInv, NEW u \in Appt!Warp, Appt!Release(u)
    PROVE  ApptInv'
<1> DEFINE b == Appt!Block(u)
<1>1. /\ pc[u] = "release"
      /\ UNCHANGED <<launch, fold>>
      /\ processed' = [processed EXCEPT ![u] = processed[u] + 1]
      /\ flags' = IF Appt!Role(u) # 0
                  THEN [flags EXCEPT ![b] = [flags[b] EXCEPT ![Appt!PreviousFlag(u)] = 0]] ELSE flags
  BY DEF Appt!Release, Appt!ReleasedFlag
<1>2. PICK q \in {"acquire", "drained"} : pc' = [pc EXCEPT ![u] = q]
  <2> DEFINE in_packet == item[u] + 1 < Appt!DataTime /\ Appt!Sequence(u) + 1 < Appt!TotalTokens
             more == in_packet \/ Appt!NextPacket(u) < Appt!PacketCount
  <2>1. pc' = [pc EXCEPT ![u] = IF more THEN "acquire" ELSE "drained"]
    BY DEF Appt!Release, Appt!Goto
  <2> HIDE DEF more
  <2> QED
    BY <2>1
<1>3. ApptTypes /\ BlockFolding(b) /\ b \in Appt!Cta
  BY <1>1, InItsFold, ApptPlace DEF ApptInv, GroupLoop
<1>4. /\ Appt!Warp' = Appt!Warp /\ Appt!Cta' = Appt!Cta /\ Appt!Flag' = Appt!Flag
      /\ launch' = launch
  BY <1>1, ApptSameLaunch
<1>5. /\ \A w \in Appt!Warp : pc'[w] = IF w = u THEN q ELSE pc[w]
      /\ \A w \in Appt!Warp : processed'[w] = IF w = u THEN processed[u] + 1 ELSE processed[w]
      /\ processed[u] \in Nat
  BY <1>1, <1>2, <1>3 DEF ApptTypes
<1>6. /\ flags' \in [Appt!Cta -> [Appt!Flag -> {0, 1}]]
      /\ \A c \in Appt!Cta : c # b => flags'[c] = flags[c]
  <2>1. [flags[b] EXCEPT ![Appt!PreviousFlag(u)] = 0] \in [Appt!Flag -> {0, 1}]
    BY <1>3 DEF ApptTypes
  <2> QED
    BY <2>1, <1>1, <1>3 DEF ApptTypes
<1>7. ApptTypes'
  <2>1. processed[u] + 1 \in Nat
    BY <1>5, SMT
  <2>2. processed' \in [Appt!Warp -> Nat]
    BY <2>1, <1>1, <1>3 DEF ApptTypes
  <2>3. pc' \in [Appt!Warp -> {"clear", "cleared"} \cup GroupLoop \cup BetweenFolds]
    BY <1>2, <1>3 DEF ApptTypes, GroupLoop
  <2> QED
    BY <2>2, <2>3, <1>1, <1>3, <1>4, <1>6 DEF ApptTypes
<1>8. Appt!ActiveRoles' = Appt!ActiveRoles /\ \A w : Appt!HasNext(w)' <=> Appt!HasNext(w)
  BY <1>1, ApptSameFold
<1>9. \A w \in Appt!Warp : Appt!Block(w) = b =>
          /\ pc'[w] \in GroupLoop
          /\ ~(Appt!Role(w) < Appt!ActiveRoles) => pc'[w] = "drained" /\ processed'[w] = 0
  BY <1>1, <1>3, <1>5 DEF BlockFolding, GroupLoop
<1>10. ASSUME NEW v \in Appt!Warp, NEW w \in Appt!Warp, Appt!Block(v) = b, ApptFollows(v, w)
       PROVE  ApptHandshake(v, w)'
  <2>1. /\ ApptHandshake(v, w) /\ v # w
        /\ Appt!Role(v) \in Nat
        /\ Appt!Role(w) # 0 /\ Appt!Role(w) - 1 = Appt!Role(v)
        /\ Appt!Replica(w) = Appt!Replica(v) /\ Appt!Block(w) = b
        /\ \A s \in 0 .. launch.buffers - 1 :
               <<Appt!Role(v), Appt!Replica(v), s>> \in Appt!Flag
        /\ processed[v] \in Nat /\ processed[w] \in Nat /\ ApptPublished(v) \in Nat
        /\ launch.buffers \in Nat \ {0}
    BY <1>3, <1>10, ApptPairFacts DEF BlockFolding, ApptFollows
  <2>2. ApptPublished(v)' = ApptPublished(v)
    <3>1. CASE v = u
      <4>1. pc'[v] # "release" /\ processed'[v] = processed[v] + 1
        BY <3>1, <1>5
      <4> QED
        BY <4>1, <3>1, <1>1, <1>8 DEF ApptPublished
    <3>2. CASE v # u
      BY <3>2, <1>5, <1>8 DEF ApptPublished
    <3> QED
      BY <3>1, <3>2
  <2>3. flags[b] \in [Appt!Flag -> {0, 1}]
    BY <1>3 DEF ApptTypes
  <2>4. /\ Ring(ApptPublished(v), processed'[w], launch.buffers, ApptRing(v)')
        /\ pc'[w] \in ApptHolding => processed'[w] < ApptPublished(v)
    <3>1. CASE w = u
      <4>1. pc[w] \in ApptHolding /\ pc'[w] \notin ApptHolding /\ processed'[w] = processed[w] + 1
        BY <3>1, <1>1, <1>5 DEF ApptHolding
      <4>2. processed[w] < ApptPublished(v)
        BY <4>1, <2>1 DEF ApptHandshake
      <4>3. processed[w] % launch.buffers \in 0 .. launch.buffers - 1
        BY <2>1, SlotInRange
      <4>4. Appt!PreviousFlag(u) = <<Appt!Role(v), Appt!Replica(v), processed[w] % launch.buffers>>
        BY <2>1, <3>1 DEF Appt!PreviousFlag, Appt!RingSlot, Appt!PipelineBuffers
      <4>5. flags'[b] = [flags[b] EXCEPT ![Appt!PreviousFlag(u)] = 0]
        BY <2>1, <3>1, <1>1, <1>3 DEF ApptTypes
      <4>6. \A s \in 0 .. launch.buffers - 1 :
                flags'[b][<<Appt!Role(v), Appt!Replica(v), s>>] =
                    IF s = processed[w] % launch.buffers THEN 0
                    ELSE flags[b][<<Appt!Role(v), Appt!Replica(v), s>>]
        BY <4>4, <4>5, <2>1, <2>3
      <4>7. ApptRing(v)' = [s \in 0 .. launch.buffers - 1 |->
                                IF s = processed[w] % launch.buffers THEN 0 ELSE ApptRing(v)[s]]
        BY <4>6, <1>4, <1>10 DEF ApptRing, Appt!Block, Appt!Role, Appt!Replica
      <4>8. /\ ApptRing(v)'[processed[w] % launch.buffers] = 0
            /\ \A s \in 0 .. launch.buffers - 1 :
                   s # processed[w] % launch.buffers => ApptRing(v)'[s] = ApptRing(v)[s]
        BY <4>3, <4>7
      <4>9. Ring(ApptPublished(v), processed[w], launch.buffers, ApptRing(v))
        BY <2>1 DEF ApptHandshake
      <4>10. Ring(ApptPublished(v), processed[w] + 1, launch.buffers, ApptRing(v)')
        BY <4>2, <4>8, <4>9, <2>1, RingRelease
      <4> QED
        BY <4>1, <4>10
    <3>2. CASE w # u
      <4>1. \A s \in 0 .. launch.buffers - 1 :
                flags'[b][<<Appt!Role(v), Appt!Replica(v), s>>] =
                    flags[b][<<Appt!Role(v), Appt!Replica(v), s>>]
        <5>1. CASE Appt!Role(u) = 0
          BY <5>1, <1>1
        <5>2. CASE Appt!Role(u) # 0
          <6>1. Appt!Role(w) # Appt!Role(u) \/ Appt!Replica(w) # Appt!Replica(u)
            BY <3>2, <2>1, ApptPlace
          <6>2. Appt!Role(u) \in Nat /\ Appt!Role(w) \in Nat
            BY ApptPlace
          <6>3. Appt!Role(v) # Appt!Role(u) - 1 \/ Appt!Replica(v) # Appt!Replica(u)
            BY <6>1, <6>2, <2>1, SMT
          <6>4. \A s : <<Appt!Role(v), Appt!Replica(v), s>> # Appt!PreviousFlag(u)
            BY <6>3 DEF Appt!PreviousFlag
          <6>5. flags'[b] = [flags[b] EXCEPT ![Appt!PreviousFlag(u)] = 0]
            BY <5>2, <1>1, <1>3 DEF ApptTypes
          <6> QED
            BY <6>4, <6>5, <2>1, <2>3
        <5> QED
          BY <5>1, <5>2
      <4>2. ApptRing(v)' = ApptRing(v)
        BY <4>1, <1>4, <1>10 DEF ApptRing, Appt!Block, Appt!Role, Appt!Replica
      <4> QED
        BY <4>2, <3>2, <2>1, <1>5 DEF ApptHandshake
    <3> QED
      BY <3>1, <3>2
  <2>5. Appt!HasNext(v) /\ pc'[v] \in {"take", "store", "publish"} =>
            processed'[v] < processed'[w] + launch.buffers
    <3> SUFFICES ASSUME Appt!HasNext(v), pc'[v] \in {"take", "store", "publish"}
                 PROVE  processed'[v] < processed'[w] + launch.buffers
      OBVIOUS
    <3>1. v # u /\ processed'[v] = processed[v] /\ pc'[v] = pc[v]
      BY <1>5
    <3>2. processed[v] < processed[w] + launch.buffers
      BY <3>1, <2>1 DEF ApptHandshake
    <3>3. processed'[w] = processed[w] \/ processed'[w] = processed[w] + 1
      BY <1>5
    <3> QED
      BY <3>1, <3>2, <3>3, <2>1, SMT
  <2> QED
    BY <2>2, <2>4, <2>5, <1>4, <1>8 DEF ApptHandshake, Ring, ApptHolding
<1>11. /\ \A v, w : ApptFollows(v, w)' <=> ApptFollows(v, w)
       /\ \A w : Appt!Block(w)' = Appt!Block(w) /\ Appt!Role(w)' = Appt!Role(w)
  BY DEF ApptFollows, Appt!Block, Appt!Role, Appt!Replica
<1> HIDE DEF b
<1>12. BlockFolding(b)'
  <2>1. b' = b
    BY DEF b, Appt!Block
  <2> QED
    BY <2>1, <1>4, <1>8, <1>9, <1>10, <1>11 DEF BlockFolding, GroupLoop
<1>13. ASSUME NEW c \in Appt!Cta, c # b PROVE BlockInv(c)'
  <2>1. \A w \in Appt!Warp : Appt!Block(w) = c => pc'[w] = pc[w] /\ processed'[w] = processed[w]
    BY <1>5, <1>13 DEF b
  <2>2. BlockInv(c) /\ flags'[c] = flags[c]
    BY <1>6, <1>13 DEF ApptInv
  <2> QED
    BY <2>1, <2>2, <1>1, OtherBlock
<1>14. \A c \in Appt!Cta : BlockInv(c)'
  <2>1. b' = b
    BY DEF b, Appt!Block
  <2> TAKE c \in Appt!Cta
  <2>2. CASE c = b
    BY <2>1, <2>2, <1>12 DEF BlockInv
  <2>3. CASE c # b
    BY <2>3, <1>13
  <2> QED
    BY <2>2, <2>3
<1> QED
  BY <1>4, <1>7, <1>14 DEF ApptInv

(* At the head of a fold each warp of a block clears its share of the flags. *)
LEMMA ClearKeeps ==
    ASSUME ApptInv, NEW u \in Appt!Warp, Appt!Clear(u)
    PROVE  ApptInv'
<1> DEFINE b == Appt!Block(u)
<1>1. /\ pc[u] = "clear" /\ pc' = [pc EXCEPT ![u] = "cleared"]
      /\ UNCHANGED <<launch, fold, processed>>
      /\ flags' = [flags EXCEPT ![b] =
              [f \in Appt!Flag |-> IF Appt!Cleared(u, f) THEN 0 ELSE flags[b][f]]]
  BY DEF Appt!Clear, Appt!Goto
<1>2. ApptTypes /\ b \in Appt!Cta
  BY ApptPlace DEF ApptInv
<1>3. Clearing(b)
  <2>1. ~BlockFolding(b) /\ ~Between(b)
    BY <1>1 DEF BlockFolding, Between, GroupLoop, BetweenFolds
  <2> QED
    BY <2>1, <1>2 DEF ApptInv, BlockInv
<1>4. /\ Appt!Warp' = Appt!Warp /\ Appt!Cta' = Appt!Cta /\ Appt!Flag' = Appt!Flag
      /\ \A w, f : Appt!Cleared(w, f)' <=> Appt!Cleared(w, f)
  BY <1>1, ApptSameLaunch
<1>5. \A w \in Appt!Warp : pc'[w] = IF w = u THEN "cleared" ELSE pc[w]
  BY <1>1, <1>2 DEF ApptTypes
<1>6. /\ flags'[b] = [f \in Appt!Flag |-> IF Appt!Cleared(u, f) THEN 0 ELSE flags[b][f]]
      /\ \A c \in Appt!Cta : c # b => flags'[c] = flags[c]
      /\ flags' \in [Appt!Cta -> [Appt!Flag -> {0, 1}]]
  <2> DEFINE g == [f \in Appt!Flag |-> IF Appt!Cleared(u, f) THEN 0 ELSE flags[b][f]]
  <2>1. g \in [Appt!Flag -> {0, 1}]
    BY <1>2 DEF ApptTypes
  <2>2. flags' = [flags EXCEPT ![b] = g]
    BY <1>1
  <2> HIDE DEF g
  <2>3. flags'[b] = g /\ flags' \in [Appt!Cta -> [Appt!Flag -> {0, 1}]]
        /\ \A c \in Appt!Cta : c # b => flags'[c] = flags[c]
    BY <2>1, <2>2, <1>2 DEF ApptTypes
  <2> QED
    BY <2>3 DEF g
<1>7. ApptTypes'
  BY <1>1, <1>2, <1>4, <1>6 DEF ApptTypes
<1>8. ASSUME NEW w \in Appt!Warp, Appt!Block(w) = b
      PROVE  /\ pc'[w] \in {"clear", "cleared"}
             /\ pc'[w] = "cleared" => \A f \in Appt!Flag : Appt!Cleared(w, f) => flags'[b][f] = 0
  <2>1. CASE w = u
    BY <2>1, <1>5, <1>6
  <2>2. CASE w # u
    <3>1. /\ pc'[w] = pc[w] /\ pc[w] \in {"clear", "cleared"}
          /\ pc[w] = "cleared" => \A f \in Appt!Flag : Appt!Cleared(w, f) => flags[b][f] = 0
      BY <2>2, <1>3, <1>5, <1>8 DEF Clearing
    <3> QED
      BY <3>1, <1>6
  <2> QED
    BY <2>1, <2>2
<1>9. \A w : Appt!Block(w)' = Appt!Block(w)
  BY DEF Appt!Block
<1> HIDE DEF b
<1>10. Clearing(b)'
  <2>1. b' = b
    BY DEF b, Appt!Block
  <2> QED
    BY <2>1, <1>4, <1>8, <1>9 DEF Clearing
<1>11. ASSUME NEW c \in Appt!Cta, c # b PROVE BlockInv(c)'
  <2>1. \A w \in Appt!Warp : Appt!Block(w) = c => pc'[w] = pc[w] /\ processed'[w] = processed[w]
    BY <1>1, <1>5, <1>11 DEF b
  <2>2. BlockInv(c) /\ flags'[c] = flags[c]
    BY <1>6, <1>11 DEF ApptInv
  <2> QED
    BY <2>1, <2>2, <1>1, OtherBlock
<1>12. \A c \in Appt!Cta : BlockInv(c)'
  <2>1. b' = b
    BY DEF b, Appt!Block
  <2> TAKE c \in Appt!Cta
  <2>2. CASE c = b
    BY <2>1, <2>2, <1>10 DEF BlockInv
  <2>3. CASE c # b
    BY <2>3, <1>11
  <2> QED
    BY <2>2, <2>3
<1> QED
  BY <1>4, <1>7, <1>12 DEF ApptInv

(* Once all warps of a block have cleared their share, no flag is set.      *)
LEMMA RingsCleared ==
    ASSUME ApptTypes, NEW c \in Appt!Cta, Clearing(c),
           \A w \in Appt!Warp : Appt!Block(w) = c => pc[w] = "cleared",
           NEW f \in Appt!Flag
    PROVE  flags[c][f] = 0
<1>1. /\ Appt!PipelineReplicas \in Nat \ {0} /\ Appt!PipelineBuffers \in Nat \ {0}
      /\ Appt!Roles \in Nat \ {0} /\ PipelineWarp \in Nat \ {0}
  BY PipelineFacts DEF ApptTypes
<1>2. Appt!FlagIndex(f) \in Nat
  <2>1. f[1] \in Nat /\ f[2] \in Nat /\ f[3] \in Nat
    BY <1>1, SMT DEF Appt!Flag, Appt!Edge
  <2>2. f[1] * Appt!PipelineReplicas + f[2] \in Nat
    BY <1>1, <2>1, SMT
  <2>3. (f[1] * Appt!PipelineReplicas + f[2]) * Appt!PipelineBuffers \in Nat
    BY <1>1, <2>2, SMT
  <2> QED
    BY <2>1, <2>3, SMT DEF Appt!FlagIndex
<1>3. Appt!FlagIndex(f) \div PipelineWarp \in Nat
  BY <1>1, <1>2, DivMod
<1>4. PICK r \in 0 .. Appt!Roles - 1, k \in 0 .. Appt!PipelineReplicas - 1 :
          (Appt!FlagIndex(f) \div PipelineWarp) % (Appt!Roles * Appt!PipelineReplicas)
              = r * Appt!PipelineReplicas + k
  BY <1>1, <1>3, NumbersCovered
<1> DEFINE w == <<c, r, k>>
<1>5. w \in Appt!Warp /\ Appt!Block(w) = c
  BY <1>4 DEF Appt!Warp, Appt!Block
<1>6. Appt!Cleared(w, f)
  BY <1>4 DEF Appt!Cleared, Appt!Share, Appt!WarpNumber, Appt!Warps, Appt!Role, Appt!Replica
<1> QED
  BY <1>5, <1>6 DEF Clearing

(* A block starts its fold with every flag clear.                          *)
LEMMA StartFoldKeeps ==
    ASSUME ApptInv, NEW c \in Appt!Cta, Appt!StartFold(c)
    PROVE  ApptInv'
<1>1. /\ \A w \in Appt!Warp : Appt!Block(w) = c => pc[w] = "cleared"
      /\ UNCHANGED <<launch, fold, flags>>
      /\ processed' = [w \in Appt!Warp |-> IF Appt!Block(w) = c THEN 0 ELSE processed[w]]
      /\ \A w \in Appt!Warp : Appt!Block(w) # c => pc'[w] = pc[w]
      /\ \A w \in Appt!Warp : Appt!Block(w) = c =>
             /\ pc'[w] \in {"acquire", "drained"}
             /\ ~(Appt!Role(w) < Appt!ActiveRoles) => pc'[w] = "drained"
      /\ pc' \in [Appt!Warp -> {"clear", "cleared"} \cup GroupLoop \cup BetweenFolds]
  <2> DEFINE mine == { w \in Appt!Warp : Appt!Block(w) = c }
             Start(w) == Appt!Role(w) < Appt!ActiveRoles /\ Appt!FirstPacket(w) < Appt!PacketCount
  <2>1. /\ \A w \in mine : pc[w] = "cleared"
        /\ pc' = [w \in Appt!Warp |-> IF w \notin mine THEN pc[w]
                                      ELSE IF Start(w) THEN "acquire" ELSE "drained"]
        /\ processed' = [w \in Appt!Warp |-> IF w \in mine THEN 0 ELSE processed[w]]
        /\ UNCHANGED <<launch, fold, flags>>
    BY DEF Appt!StartFold
  <2>2. \A w \in Appt!Warp : w \in mine <=> Appt!Block(w) = c
    OBVIOUS
  <2>3. \A w : Start(w) => Appt!Role(w) < Appt!ActiveRoles
    OBVIOUS
  <2> HIDE DEF mine, Start
  <2>4. pc' \in [Appt!Warp -> {"clear", "cleared"} \cup GroupLoop \cup BetweenFolds]
    BY <2>1 DEF ApptInv, ApptTypes, GroupLoop
  <2>5. \A w \in Appt!Warp : w \in mine => pc[w] = "cleared"
    BY <2>1
  <2> QED
    BY <2>1, <2>2, <2>3, <2>4, <2>5
<1>2. ApptTypes /\ Clearing(c)
  <2>1. PICK w \in Appt!Warp : Appt!Block(w) = c
    BY BlockHasWarp DEF ApptInv, ApptTypes
  <2>2. pc[w] = "cleared"
    BY <2>1, <1>1
  <2>3. ~BlockFolding(c) /\ ~Between(c)
    BY <2>1, <2>2 DEF BlockFolding, Between, GroupLoop, BetweenFolds
  <2> QED
    BY <2>3 DEF ApptInv, BlockInv
<1>3. /\ Appt!Warp' = Appt!Warp /\ Appt!Cta' = Appt!Cta /\ Appt!Flag' = Appt!Flag
      /\ launch' = launch /\ flags' = flags
  BY <1>1, ApptSameLaunch
<1>4. ApptTypes'
  <2>1. processed' \in [Appt!Warp -> Nat]
    BY <1>1, <1>2 DEF ApptTypes
  <2> QED
    BY <2>1, <1>1, <1>2, <1>3 DEF ApptTypes
<1>5. Appt!ActiveRoles' = Appt!ActiveRoles /\ \A w : Appt!HasNext(w)' <=> Appt!HasNext(w)
  BY <1>1, ApptSameFold
<1>6. \A f \in Appt!Flag : flags[c][f] = 0
  BY <1>1, <1>2, RingsCleared
<1>7. ASSUME NEW v \in Appt!Warp, NEW w \in Appt!Warp, Appt!Block(v) = c, ApptFollows(v, w)
      PROVE  ApptHandshake(v, w)'
  <2>1. /\ Appt!Block(w) = c /\ launch.buffers \in Nat \ {0}
        /\ \A s \in 0 .. launch.buffers - 1 :
               <<Appt!Role(v), Appt!Replica(v), s>> \in Appt!Flag
    BY <1>2, <1>7, ApptPairFacts DEF ApptFollows
  <2>2. /\ pc'[v] \in {"acquire", "drained"} /\ pc'[w] \in {"acquire", "drained"}
        /\ processed'[v] = 0 /\ processed'[w] = 0
    BY <2>1, <1>1, <1>7
  <2>3. ApptPublished(v)' = 0
    BY <2>2, <1>5 DEF ApptPublished
  <2>4. ApptRing(v)' = ApptRing(v)
    BY <1>3 DEF ApptRing, Appt!Block, Appt!Role, Appt!Replica
  <2>5. \A s \in 0 .. launch.buffers - 1 : ApptRing(v)[s] = 0
    BY <2>1, <1>6, <1>7 DEF ApptRing
  <2>6. Ring(0, 0, launch.buffers, ApptRing(v))
    BY <2>1, <2>5, RingEmpty
  <2> QED
    BY <2>2, <2>3, <2>4, <2>6, <1>3, <1>5 DEF ApptHandshake, Ring, ApptHolding
<1>8. /\ \A v, w : ApptFollows(v, w)' <=> ApptFollows(v, w)
      /\ \A w : Appt!Block(w)' = Appt!Block(w) /\ Appt!Role(w)' = Appt!Role(w)
  BY DEF ApptFollows, Appt!Block, Appt!Role, Appt!Replica
<1>9. \A w \in Appt!Warp : Appt!Block(w) = c =>
          /\ pc'[w] \in GroupLoop
          /\ ~(Appt!Role(w) < Appt!ActiveRoles) => pc'[w] = "drained" /\ processed'[w] = 0
  BY <1>1 DEF GroupLoop
<1>10. BlockFolding(c)'
  BY <1>3, <1>5, <1>7, <1>8, <1>9 DEF BlockFolding, GroupLoop
<1>11. ASSUME NEW d \in Appt!Cta, d # c PROVE BlockInv(d)'
  <2>1. \A w \in Appt!Warp : Appt!Block(w) = d => pc'[w] = pc[w] /\ processed'[w] = processed[w]
    BY <1>1, <1>11
  <2>2. BlockInv(d)
    BY DEF ApptInv
  <2> QED
    BY <2>1, <2>2, <1>1, <1>3, OtherBlock
<1>12. BlockInv(c)'
  BY <1>10 DEF BlockInv
<1>13. \A d \in Appt!Cta : BlockInv(d)'
  <2> TAKE d \in Appt!Cta
  <2>1. CASE d = c
    BY <2>1, <1>12
  <2>2. CASE d # c
    BY <2>2, <1>11
  <2> QED
    BY <2>1, <2>2
<1> QED
  BY <1>3, <1>4, <1>13 DEF ApptInv

(* A step of a block between two folds leaves the flags alone.              *)
LEMMA BetweenStep ==
    ASSUME ApptInv, NEW c \in Appt!Cta, UNCHANGED <<launch, fold, processed, flags>>,
           pc' \in [Appt!Warp -> {"clear", "cleared"} \cup GroupLoop \cup BetweenFolds],
           \A w \in Appt!Warp :
               IF Appt!Block(w) = c THEN pc'[w] \in BetweenFolds ELSE pc'[w] = pc[w]
    PROVE  ApptInv'
<1>1. /\ Appt!Warp' = Appt!Warp /\ Appt!Cta' = Appt!Cta /\ Appt!Flag' = Appt!Flag
  BY ApptSameLaunch
<1>2. ApptTypes'
  BY <1>1 DEF ApptInv, ApptTypes
<1>3. Between(c)'
  BY <1>1 DEF Between, BetweenFolds, Appt!Block
<1>4. ASSUME NEW d \in Appt!Cta, d # c PROVE BlockInv(d)'
  <2>1. BlockInv(d)
    BY DEF ApptInv
  <2>2. \A w \in Appt!Warp : Appt!Block(w) = d => pc'[w] = pc[w] /\ processed'[w] = processed[w]
    BY <1>4
  <2> QED
    BY <2>1, <2>2, OtherBlock
<1>5. BlockInv(c)'
  BY <1>3 DEF BlockInv
<1>6. \A d \in Appt!Cta : BlockInv(d)'
  <2> TAKE d \in Appt!Cta
  <2>1. CASE d = c
    BY <2>1, <1>5
  <2>2. CASE d # c
    BY <2>2, <1>4
  <2> QED
    BY <2>1, <2>2
<1> QED
  BY <1>1, <1>2, <1>6 DEF ApptInv

\* A block of which one warp is at its tiles has all of them there.
LEMMA AtItsTiles ==
    ASSUME ApptInv, NEW u \in Appt!Warp, pc[u] \in BetweenFolds
    PROVE  Between(Appt!Block(u))
<1>1. BlockInv(Appt!Block(u))
  BY ApptPlace DEF ApptInv
<1>2. ~Clearing(Appt!Block(u)) /\ ~BlockFolding(Appt!Block(u))
  BY DEF Clearing, BlockFolding, GroupLoop, BetweenFolds
<1> QED
  BY <1>1, <1>2 DEF BlockInv

(* The loads and stores of the transposition.                              *)
LEMMA TileKeeps ==
    ASSUME ApptInv, NEW u \in Appt!Warp, Appt!LoadTile(u) \/ Appt!WriteTile(u)
    PROVE  ApptInv'
<1>1. /\ pc[u] \in BetweenFolds /\ UNCHANGED <<launch, fold, processed, flags>>
      /\ pc' = [pc EXCEPT ![u] = "loaded"] \/ pc' = [pc EXCEPT ![u] = "written"]
  <2>1. CASE Appt!LoadTile(u)
    BY <2>1 DEF Appt!LoadTile, Appt!Goto, BetweenFolds
  <2>2. CASE Appt!WriteTile(u)
    BY <2>2 DEF Appt!WriteTile, Appt!Goto, BetweenFolds
  <2> QED
    BY <2>1, <2>2
<1>2. Between(Appt!Block(u)) /\ Appt!Block(u) \in Appt!Cta
  BY <1>1, AtItsTiles, ApptPlace
<1>3. PICK q \in {"loaded", "written"} : pc' = [pc EXCEPT ![u] = q]
  BY <1>1
<1>4. pc \in [Appt!Warp -> {"clear", "cleared"} \cup GroupLoop \cup BetweenFolds]
  BY DEF ApptInv, ApptTypes
<1>5. pc' \in [Appt!Warp -> {"clear", "cleared"} \cup GroupLoop \cup BetweenFolds]
  BY <1>3, <1>4 DEF BetweenFolds
<1>6. ASSUME NEW w \in Appt!Warp
      PROVE  IF Appt!Block(w) = Appt!Block(u) THEN pc'[w] \in BetweenFolds ELSE pc'[w] = pc[w]
  <2>1. CASE w = u
    BY <2>1, <1>3, <1>4 DEF BetweenFolds
  <2>2. CASE w # u
    <3>1. pc'[w] = pc[w]
      BY <2>2, <1>3, <1>4
    <3> QED
      BY <3>1, <1>2 DEF Between
  <2> QED
    BY <2>1, <2>2
<1> QED
  BY <1>1, <1>2, <1>5, <1>6, BetweenStep

(* The block's barriers around a tile.                                    *)
LEMMA TileBarrierKeeps ==
    ASSUME ApptInv, NEW c \in Appt!Cta, Appt!SyncTile(c) \/ Appt!NextTile(c)
    PROVE  ApptInv'
<1>1. PICK q \in BetweenFolds :
          /\ UNCHANGED <<launch, fold, processed, flags>>
          /\ pc' = [w \in Appt!Warp |-> IF Appt!Block(w) = c THEN q ELSE pc[w]]
  <2>1. CASE Appt!SyncTile(c)
    <3>1. /\ UNCHANGED <<launch, fold, processed, flags>>
          /\ pc' = [w \in Appt!Warp |-> IF Appt!Block(w) = c THEN "write" ELSE pc[w]]
      BY <2>1 DEF Appt!SyncTile
    <3> QED
      BY <3>1 DEF BetweenFolds
  <2>2. CASE Appt!NextTile(c)
    <3> DEFINE q == IF tile_index[c] + Appt!Ctas < Appt!TotalTiles THEN "load" ELSE "transposed"
    <3>1. /\ UNCHANGED <<launch, fold, processed, flags>>
          /\ pc' = [w \in Appt!Warp |-> IF Appt!Block(w) = c THEN q ELSE pc[w]]
      <4>1. pc' = [w \in Appt!Warp |-> IF Appt!Block(w) # c THEN pc[w] ELSE q]
        BY <2>2 DEF Appt!NextTile
      <4> HIDE DEF q
      <4>2. UNCHANGED <<launch, fold, processed, flags>>
        BY <2>2 DEF Appt!NextTile
      <4> QED
        BY <4>1, <4>2
    <3>2. q \in BetweenFolds
      BY DEF BetweenFolds
    <3> HIDE DEF q
    <3> QED
      BY <3>1, <3>2
  <2> QED
    BY <2>1, <2>2
<1>2. pc' \in [Appt!Warp -> {"clear", "cleared"} \cup GroupLoop \cup BetweenFolds]
  BY <1>1 DEF ApptInv, ApptTypes
<1>3. \A w \in Appt!Warp :
          IF Appt!Block(w) = c THEN pc'[w] \in BetweenFolds ELSE pc'[w] = pc[w]
  BY <1>1
<1> QED
  BY <1>1, <1>2, <1>3, BetweenStep

(* The grid's barriers: all blocks are at the end of the fold, whatever the *)
(* transposition leaves in the flags.                                     *)
LEMMA GridBarrierKeeps ==
    ASSUME ApptInv, Appt!EndFold \/ Appt!NextFold
    PROVE  ApptInv'
<1>1. CASE Appt!EndFold
  <2>1. /\ UNCHANGED <<launch, processed>>
        /\ flags' = flags \/ \E data \in {0, 1} :
               flags' = [c \in Appt!Cta |-> [f \in Appt!Flag |-> data]]
        /\ \/ pc' = [w \in Appt!Warp |-> "done"]
           \/ pc' = [w \in Appt!Warp |->
                        IF Appt!Block(w) < Appt!TotalTiles THEN "load" ELSE "transposed"]
    BY <1>1 DEF Appt!EndFold
  <2>2. /\ Appt!Warp' = Appt!Warp /\ Appt!Cta' = Appt!Cta /\ Appt!Flag' = Appt!Flag
    BY <2>1, ApptSameLaunch
  <2>3. pc' \in [Appt!Warp -> BetweenFolds]
    <3> DEFINE Tiles(w) == Appt!Block(w) < Appt!TotalTiles
    <3>1. \/ pc' = [w \in Appt!Warp |-> "done"]
          \/ pc' = [w \in Appt!Warp |-> IF Tiles(w) THEN "load" ELSE "transposed"]
      BY <2>1
    <3> HIDE DEF Tiles
    <3> QED
      BY <3>1 DEF BetweenFolds
  <2>4. flags' \in [Appt!Cta -> [Appt!Flag -> {0, 1}]]
    BY <2>1 DEF ApptInv, ApptTypes
  <2>5. ApptTypes'
    BY <2>1, <2>2, <2>3, <2>4 DEF ApptInv, ApptTypes
  <2>6. \A c \in Appt!Cta : Between(c)'
    BY <2>2, <2>3 DEF Between
  <2> QED
    BY <2>2, <2>5, <2>6 DEF ApptInv, BlockInv
<1>2. CASE Appt!NextFold
  <2>1. UNCHANGED <<launch, processed, flags>> /\ pc' = [w \in Appt!Warp |-> "clear"]
    BY <1>2 DEF Appt!NextFold
  <2>2. /\ Appt!Warp' = Appt!Warp /\ Appt!Cta' = Appt!Cta /\ Appt!Flag' = Appt!Flag
    BY <2>1, ApptSameLaunch
  <2>3. ApptTypes'
    BY <2>1, <2>2 DEF ApptInv, ApptTypes
  <2>4. \A c \in Appt!Cta : Clearing(c)'
    BY <2>1, <2>2 DEF Clearing
  <2> QED
    BY <2>2, <2>3, <2>4 DEF ApptInv, BlockInv
<1> QED
  BY <1>1, <1>2

(* The invariant holds at first, and every step keeps it.                   *)
LEMMA ApptInitial == Appt!Init => ApptInv
<1> SUFFICES ASSUME Appt!Init PROVE ApptInv
  OBVIOUS
<1>1. /\ launch \in Pipelines /\ pc = [w \in Appt!Warp |-> "clear"]
      /\ processed = [w \in Appt!Warp |-> 0]
      /\ \E stale \in {0, 1} : flags = [c \in Appt!Cta |-> [f \in Appt!Flag |-> stale]]
  BY DEF Appt!Init
<1>2. ApptTypes
  BY <1>1 DEF ApptTypes
<1>3. \A c \in Appt!Cta : Clearing(c)
  BY <1>1 DEF Clearing
<1> QED
  BY <1>2, <1>3 DEF ApptInv, BlockInv

(* Every step of the cooperative kernel keeps its invariant.               *)
LEMMA ApptStep == ApptInv /\ [Appt!Next]_(Appt!avars) => ApptInv'
<1> SUFFICES ASSUME ApptInv, [Appt!Next]_(Appt!avars) PROVE ApptInv'
  OBVIOUS
<1>1. ASSUME NEW u \in Appt!Warp, Appt!Step(u) PROVE ApptInv'
  <2>1. CASE Appt!Clear(u)
    BY <2>1, ClearKeeps
  <2>2. CASE Appt!Acquire(u)
    BY <2>2, AcquireKeeps
  <2>3. CASE Appt!TargetFree(u)
    BY <2>3, ApptTargetFreeKeeps
  <2>4. CASE Appt!Take(u) \/ Appt!Skip(u) \/ Appt!Store(u)
    BY <2>4, TokenKeeps
  <2>5. CASE Appt!Publish(u)
    BY <2>5, ApptPublishKeeps
  <2>6. CASE Appt!Release(u)
    BY <2>6, ApptReleaseKeeps
  <2>7. CASE Appt!LoadTile(u) \/ Appt!WriteTile(u)
    BY <2>7, TileKeeps
  <2> QED
    BY <1>1, <2>1, <2>2, <2>3, <2>4, <2>5, <2>6, <2>7 DEF Appt!Step
<1>2. ASSUME NEW c \in Appt!Cta, Appt!StartFold(c) \/ Appt!SyncTile(c) \/ Appt!NextTile(c)
      PROVE  ApptInv'
  BY <1>2, StartFoldKeeps, TileBarrierKeeps
<1>3. CASE Appt!EndFold \/ Appt!NextFold
  BY <1>3, GridBarrierKeeps
<1>4. CASE UNCHANGED Appt!avars
  <2>1. UNCHANGED <<launch, fold, pc, processed, flags>>
    BY <1>4 DEF Appt!avars
  <2>2. /\ Appt!Warp' = Appt!Warp /\ Appt!Cta' = Appt!Cta /\ Appt!Flag' = Appt!Flag
    BY <2>1, ApptSameLaunch
  <2>3. ApptTypes'
    BY <2>1, <2>2 DEF ApptInv, ApptTypes
  <2>4. ASSUME NEW c \in Appt!Cta PROVE BlockInv(c)'
    <3>1. BlockInv(c)
      BY DEF ApptInv
    <3> QED
      BY <3>1, <2>1, OtherBlock
  <2> QED
    BY <2>2, <2>3, <2>4 DEF ApptInv
<1> QED
  BY <1>1, <1>2, <1>3, <1>4 DEF Appt!Next

(* It implies that a role and the next one are never in one slot.           *)
LEMMA ApptExclusive == ApptInv => Appt!SlotExclusive
<1> SUFFICES ASSUME ApptInv, NEW v \in Appt!Warp, NEW w \in Appt!Warp,
                    Appt!Block(v) = Appt!Block(w), Appt!Replica(v) = Appt!Replica(w),
                    Appt!Role(w) = Appt!Role(v) + 1,
                    pc[v] \in {"take", "store"}, Appt!HasNext(v),
                    pc[w] \in {"free", "take", "store", "publish", "release"}
             PROVE  Appt!RingSlot(v) # Appt!RingSlot(w)
  BY DEF Appt!SlotExclusive
<1>1. ApptFollows(v, w) /\ ApptTypes /\ BlockFolding(Appt!Block(v))
  BY InItsFold DEF ApptFollows, ApptInv, GroupLoop
<1>2. ApptHandshake(v, w)
  BY <1>1 DEF BlockFolding
<1>3. ApptPublished(v) = processed[v]
  BY DEF ApptPublished
<1>4. processed[w] < processed[v] /\ processed[v] < processed[w] + launch.buffers
  BY <1>2, <1>3 DEF ApptHandshake, ApptHolding
<1>5. processed[v] \in Nat /\ processed[w] \in Nat /\ launch.buffers \in Nat \ {0}
  BY <1>1, ApptPairFacts
<1>6. processed[w] <= processed[w]
  BY <1>5, SMT
<1> QED
  BY <1>4, <1>5, <1>6, SlotsDiffer DEF Appt!RingSlot, Appt!PipelineBuffers

----------------------------------------------------------------------------
\* The invariant of a behaviour of either kernel.
Inv == IF OfAppt THEN ApptInv ELSE HybridInv

(* In every behaviour of either kernel, for every valid launch: a role never *)
(* writes a channel slot that the next role is still reading, and in the     *)
(* one-CTA kernel every slot is free between two folds and the two warps     *)
(* that a named barrier lets go are the producer and the consumer of one     *)
(* packet.  No fairness is needed, and no bound on folds, packets or slots.  *)
THEOREM SlotsStayExclusive == MCSpec => []SlotsExclusive
<1>1. MCInit => Inv
  <2> SUFFICES ASSUME MCInit PROVE Inv
    OBVIOUS
  <2>1. CASE Init
    <3>1. ~OfAppt
      BY <2>1, PipelinesAssumption DEF Init, OfAppt
    <3> QED
      BY <2>1, <3>1, HybridInit DEF Inv
  <2>2. CASE Appt!Init
    <3>1. OfAppt
      BY <2>2, PipelinesAssumption DEF Appt!Init, OfAppt
    <3> QED
      BY <2>2, <3>1, ApptInitial DEF Inv
  <2> QED
    BY <2>1, <2>2 DEF MCInit
<1>2. Inv /\ [MCNext]_mvars => Inv'
  <2> SUFFICES ASSUME Inv, [MCNext]_mvars PROVE Inv'
    OBVIOUS
  <2>1. CASE OfAppt
    <3>1. ApptInv
      BY <2>1 DEF Inv
    <3>2. [Appt!Next]_(Appt!avars)
      BY <2>1 DEF MCNext, mvars, hvars, Appt!avars
    <3>3. ApptInv'
      BY <3>1, <3>2, ApptStep
    <3>4. launch' \in Pipelines
      BY <3>3 DEF ApptInv, ApptTypes
    <3>5. OfAppt'
      BY <3>4, PipelinesAssumption DEF OfAppt
    <3> QED
      BY <3>3, <3>5 DEF Inv
  <2>2. CASE ~OfAppt
    <3>1. HybridInv
      BY <2>2 DEF Inv
    <3>2. [Next]_hvars
      BY <2>2 DEF MCNext, mvars
    <3>3. HybridInv'
      BY <3>1, <3>2, HybridStep
    <3>4. launch' \in Launches
      BY <3>3 DEF HybridInv, HybridTypes
    <3>5. ~OfAppt'
      BY <3>4, PipelinesAssumption DEF OfAppt
    <3> QED
      BY <3>3, <3>5 DEF Inv
  <2> QED
    BY <2>1, <2>2
<1>3. Inv => SlotsExclusive
  BY HybridExclusive, ApptExclusive DEF Inv, SlotsExclusive
<1> QED
  BY <1>1, <1>2, <1>3, PTL DEF MCSpec

==============================================================================
