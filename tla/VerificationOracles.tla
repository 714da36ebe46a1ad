------------------------ MODULE VerificationOracles -------------------------
(***************************************************************************)
(* The two oracles of the FFT kernels.                                     *)
(*                                                                         *)
(* factor_dependency_oracle: the dependencies between the factors of a     *)
(* factor-streamed FFT, obtained by matching the addresses a factor writes *)
(* with those the next one reads, and the three checks of the oracle: the  *)
(* addresses, a closed form of the fan-in, and the packets of the last     *)
(* factor's digit.  A transform is <<batch, j>>, its addresses are indexed *)
(* by row.                                                                 *)
(*                                                                         *)
(* fft_cooperative_oracle: the local FFT of R * R points that G            *)
(* cooperating lanes compute with K = R / G points in registers each, the  *)
(* shared tile between its two passes, and the shuffles inside a pass.     *)
(* The complex numbers are the field of Modulus elements, Root^(Order / n) *)
(* being the n-th root of unity: the transforms are linear, and exact      *)
(* here.                                                                   *)
(***************************************************************************)
EXTENDS Naturals, Sequences, FiniteSets, Bitwise

CONSTANTS Modulus, Root, Order     \* Root has order Order in the field

-----------------------------------------------------------------------------
(* The dependencies of the factors: the shapes (FactorGroup, make_groups) *)

ValidFactors(logs) == logs # <<>> /\ \A i \in DOMAIN logs : logs[i] >= 1

DoneBits(logs) ==
    LET done[i \in 0..Len(logs)] == IF i = 0 THEN 0 ELSE done[i - 1] + logs[i]
    IN  done

Length(logs) == 2^DoneBits(logs)[Len(logs)]

Shapes(logs) ==
    LET done == DoneBits(logs)
    IN  [i \in DOMAIN logs |-> [P |-> 2^done[i - 1], F |-> 2^logs[i],
                                S |-> 2^(done[Len(logs)] - done[i])]]

TransformCount(g) == g.P * g.S
Transforms(g, batch) == (0..(batch - 1)) \X (0..(TransformCount(g) - 1))

(* The addresses *)

Inputs(g, n, t) ==
    [row \in 0..(g.F - 1) |-> t[1] * n + row * TransformCount(g) + t[2]]

Outputs(g, n, t) ==
    [u \in 0..(g.F - 1) |-> t[1] * n + ((t[2] \div g.P) * g.F + u) * g.P + (t[2] % g.P)]

(* An edge: fan-in by matching addresses *)

\* The producer of every address; each is written once.
OwnerOf(producer, n, batch) ==
    [a \in 0..(batch * n - 1) |->
        {t \in Transforms(producer, batch) :
            \E u \in 0..(producer.F - 1) : Outputs(producer, n, t)[u] = a}]

FanIn(producer, consumer, n, batch) ==
    LET owner == OwnerOf(producer, n, batch)
    IN  [t \in Transforms(consumer, batch) |->
            UNION {owner[Inputs(consumer, n, t)[row]] : row \in 0..(consumer.F - 1)}]

FanOut(fanin, producer, batch) ==
    [t \in Transforms(producer, batch) |-> {c \in DOMAIN fanin : t \in fanin[c]}]

\* The producers of a consumer, from the digits of its index alone.
AnalyticFanIn(producer, consumer, t) ==
    {<<t[1], (t[2] \div consumer.P + row * consumer.S) * producer.P
              + ((t[2] % consumer.P) % producer.P)>> : row \in 0..(consumer.F - 1)}

(* The packets: a partition of the last factor's digit *)

ValidPackets(logs, slices, columns) ==
    LET g == Shapes(logs)
        k == g[Len(logs)].F
    IN  /\ slices <= k
        /\ k \div slices >= columns /\ (k \div slices) % columns = 0
        /\ \A i \in 2..Len(logs) : g[i].P >= columns

\* Mutant: a packet is a range of the transforms.
PacketContiguous(logs, i, slices, packet) ==
    LET width == TransformCount(Shapes(logs)[i]) \div slices
    IN  (packet * width)..(packet * width + width - 1)

Packet(logs, i, slices, packet) ==
    LET g == Shapes(logs)[i]
        k == Shapes(logs)[Len(logs)].F
        width == k \div slices
    IN  {(outer * k + packet * width + tail) * g.P + p :
            outer \in 0..(g.S \div k - 1), tail \in 0..(width - 1), p \in 0..(g.P - 1)}

PacketOf(logs, i, slices, batch, packet) ==
    (0..(batch - 1)) \X Packet(logs, i, slices, packet)

(* The checks *)

\* Every address is read and written once; an edge stays inside a batch, needs
\* as many producers as the consumer has rows and feeds as many as it writes.
AddressesVerify(logs, batch) ==
    LET g == Shapes(logs) n == Length(logs) IN
    /\ \A i \in DOMAIN g : LET ts == Transforms(g[i], batch) IN
          /\ Cardinality({Inputs(g[i], n, t)[row] : t \in ts, row \in 0..(g[i].F - 1)}) = batch * n
          /\ Cardinality({Outputs(g[i], n, t)[u] : t \in ts, u \in 0..(g[i].F - 1)}) = batch * n
    /\ \A i \in 1..(Len(g) - 1) :
          LET fanin == FanIn(g[i], g[i + 1], n, batch)
              fanout == FanOut(fanin, g[i], batch)
          IN  /\ \A t \in DOMAIN fanin : /\ Cardinality(fanin[t]) = g[i + 1].F
                                         /\ \A p \in fanin[t] : p[1] = t[1]
              /\ \A t \in DOMAIN fanout : Cardinality(fanout[t]) = g[i].F

ClosedFormVerifies(logs, batch) ==
    LET g == Shapes(logs) IN
    \A i \in 1..(Len(g) - 1) :
        LET fanin == FanIn(g[i], g[i + 1], Length(logs), batch)
        IN  \A t \in DOMAIN fanin : fanin[t] = AnalyticFanIn(g[i], g[i + 1], t)

\* A packet of a middle factor needs the same packet of the one before and the
\* last factor needs every packet.
PacketsVerify(logs, batch, slices) ==
    LET g == Shapes(logs)
        Needed(fanin, ts) == UNION {fanin[t] : t \in ts}
    IN  \A i \in 1..(Len(g) - 1) :
            LET fanin == FanIn(g[i], g[i + 1], Length(logs), batch)
            IN  IF i + 1 = Len(g)
                THEN Needed(fanin, DOMAIN fanin) =
                        UNION {PacketOf(logs, i, slices, batch, q) : q \in 0..(slices - 1)}
                ELSE \A q \in 0..(slices - 1) :
                        /\ Needed(fanin, PacketOf(logs, i + 1, slices, batch, q))
                              = PacketOf(logs, i, slices, batch, q)
                        /\ \A t \in PacketOf(logs, i + 1, slices, batch, q) :
                              fanin[t] \subseteq PacketOf(logs, i, slices, batch, q)

-----------------------------------------------------------------------------
(* The launches of the library *)

Launch(Factors, Columns, Slices, Batch) == INSTANCE FactorGeometry

\* The transforms a launch of a slice works on, as the oracle numbers them.
Launched(logs, columns, slices, batch, i, slice) ==
    {<<t \div TransformCount(Shapes(logs)[i]), t % TransformCount(Shapes(logs)[i])>> :
        t \in Launch(logs, columns, slices, batch)!Transforms(i - 1, slice)}

-----------------------------------------------------------------------------
(* The cooperative tile: its shape *)

Log2(v) == CHOOSE b \in 0..16 : 2^b = v
IsPowerOfTwo(v) == \E b \in 0..16 : 2^b = v

\* The shuffles of a pass stay inside a warp.
ValidShape(r, g, columns) ==
    /\ IsPowerOfTwo(r) /\ IsPowerOfTwo(g) /\ g <= r /\ columns >= 1
    /\ g > 1 => g * columns <= 32

-----------------------------------------------------------------------------
(* The transform *)

Power == [e \in 0..(Order - 1) |->
    LET p[i \in 0..e] == IF i = 0 THEN 1 ELSE (p[i - 1] * Root) % Modulus IN p[e]]

\* The e-th power of the n-th root of unity, or of its inverse.
Twiddle(n, e, inverse) ==
    LET k == ((Order \div n) * (e % n)) % Order
    IN  Power[IF inverse THEN (Order - k) % Order ELSE k]

\* The discrete Fourier transform of n points, unscaled in both directions.
Dense(x, n, inverse) ==
    [f \in 0..(n - 1) |->
        LET sum[i \in 0..n] == IF i = 0 THEN 0
                ELSE (sum[i - 1] + x[i - 1] * Twiddle(n, f * (i - 1), inverse)) % Modulus
        IN  sum[n]]

\* _cooperative_1d: K points in every lane, a twiddle, G points across the lanes;
\* lane q holds frequency j + K * q in slot j.
Cooperative(values, r, g, inverse) ==
    LET k == r \div g
        slots == [lane \in 0..(g - 1) |->
                     LET d == Dense(values[lane], k, inverse)
                     IN  [slot \in 0..(k - 1) |-> (d[slot] * Twiddle(r, lane * slot, inverse)) % Modulus]]
        lanes == [slot \in 0..(k - 1) |-> Dense([lane \in 0..(g - 1) |-> slots[lane][slot]], g, inverse)]
    IN  [f \in 0..(r - 1) |-> lanes[f % k][f \div k]]

\* What the lanes load of a vector: lane l takes the points G * j + l.
Lanes(x, r, g) == [lane \in 0..(g - 1) |-> [j \in 0..(r \div g - 1) |-> x[g * j + lane]]]

\* cooperative_fft: columns of the R x R tile, the twiddle, then its rows.
CooperativeFft(x, r, g, inverse) ==
    LET first == [row \in 0..(r - 1) |->
                     Cooperative(Lanes([a \in 0..(r - 1) |-> x[a * r + row]], r, g), r, g, inverse)]
        tile == [f \in 0..(r - 1) |-> [row \in 0..(r - 1) |->
                     (first[row][f] * Twiddle(r * r, f * row, inverse)) % Modulus]]
        second == [f \in 0..(r - 1) |-> Cooperative(Lanes(tile[f], r, g), r, g, inverse)]
    IN  [f \in 0..(r * r - 1) |-> second[f % r][f \div r]]

-----------------------------------------------------------------------------
(* The shared tile *)

RotateRight(v, bits, rotation) ==
    LET turn == IF bits = 0 THEN 0 ELSE rotation % bits
        low == v % 2^bits
    IN  (v - low) + (low \div 2^turn) + (low % 2^turn) * 2^(bits - turn)

\* shared_row: where the element (a, b) lies in its row of the tile.
SharedRow(a, b, r, g, columns, layout, bytes) ==
    LET transaction == 128 \div (bytes * columns)
        budget == IF transaction = 0 THEN 0
                  ELSE CHOOSE l \in 0..7 : 2^l <= transaction /\ transaction < 2^(l + 1)
        low == IF Log2(r) < budget THEN Log2(r) ELSE budget
        rotation == IF Log2(g) < low THEN Log2(g) ELSE low
        digit == (a \div (r \div g)) * 2^(low - rotation)
    IN  CASE layout = "linear" -> b
          [] layout = "xor" /\ g = 1 -> b ^^ a
          [] OTHER -> (RotateRight(b, low, rotation) ^^ a)
                         ^^ (RotateRight(digit, low, rotation) % 2^low)

SharedAddress(a, b, col, r, g, columns, layout, bytes) ==
    (a * r + SharedRow(a, b, r, g, columns, layout, bytes)) * columns + col

\* The threads of the two passes: row, lane, slot; the first one writes the
\* element, the second one reads it.
Writer(a, b, r, g) == [row |-> b, lane |-> a \div (r \div g), slot |-> a % (r \div g)]
Reader(a, b, r, g) == [row |-> a, lane |-> b % g, slot |-> b \div g]

WriterElement(w, r, g) == <<w.slot + (r \div g) * w.lane, w.row>>
ReaderElement(w, r, g) == <<w.row, w.slot * g + w.lane>>

-----------------------------------------------------------------------------
(* The shuffles *)

PhysicalThread(row, lane, col, g, columns) == (row * g + lane) * columns + col

ReverseBits(v, width) ==
    LET rev[i \in 0..width] == IF i = 0 THEN 0 ELSE 2 * rev[i - 1] + ((v \div 2^(i - 1)) % 2)
    IN  rev[width]

\* The thread a lane takes its points from before the transform across lanes.
ShuffleSource(row, lane, col, g, columns) ==
    LET thread == PhysicalThread(row, lane, col, g, columns)
    IN  IF g = 1 THEN thread
        ELSE (thread - (thread % 32))
             + ((thread % 32) ^^ ((lane ^^ ReverseBits(lane, Log2(g))) * columns))

-----------------------------------------------------------------------------
(* The checks of the oracle *)

\* Every impulse, hence every input, transforms as the dense transform of R * R
\* points does.
TransformVerifies(r, g, inverse) ==
    \A impulse \in 0..(r * r - 1) :
        LET x == [i \in 0..(r * r - 1) |-> IF i = impulse THEN 1 ELSE 0]
        IN  CooperativeFft(x, r, g, inverse) = Dense(x, r * r, inverse)

\* verify_shared_layout: the tile is filled without overlap, and what a thread of
\* the second pass reads is the element its address was written for.
LayoutVerifies(r, g, columns, layout, bytes) ==
    LET At(e, col) == SharedAddress(e[1], e[2], col, r, g, columns, layout, bytes)
        elements == (0..(r - 1)) \X (0..(r - 1))
    IN  /\ {At(e, col) : e \in elements, col \in 0..(columns - 1)} = 0..(r * r * columns - 1)
        /\ \A e \in elements :
              /\ WriterElement(Writer(e[1], e[2], r, g), r, g) = e
              /\ ReaderElement(Reader(e[1], e[2], r, g), r, g) = e

\* verify_shuffle_groups: the source is an active thread of the same row and
\* column, in the bit-reversed lane.
ShufflesVerify(r, g, columns) ==
    \A row \in 0..(r - 1), lane \in 0..(g - 1), col \in 0..(columns - 1) :
        LET source == ShuffleSource(row, lane, col, g, columns)
        IN  /\ source < r * g * columns
            /\ source = PhysicalThread(row, ReverseBits(lane, Log2(g)), col, g, columns)
=============================================================================
