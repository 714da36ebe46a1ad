--------------------------- MODULE HybridPipeline ---------------------------
(***************************************************************************)
(* hybrid_dataflow_kernel (src/hybrid_dataflow.cuh): one CTA transforms    *)
(* 2^LogN elements that stay in shared memory.  The stages are cut into    *)
(* folds of at most StageSpace stages, and a fold into roles of RoleStages *)
(* stages. Role r runs on RoleStages warps, the replicas; it takes packets *)
(* of DataTime tokens (a token is one independent butterfly subgraph of    *)
(* the fold) from the channel to role r - 1, or from the state, and passes *)
(* them to role r + 1, or writes them back to the state.  A channel has    *)
(* `buffers` slots, and a flag per slot and replica: 1 full, 0 free.       *)
(*                                                                         *)
(* Values are those of ButterflyStages.  A warp takes a token's values and *)
(* applies its stages in one step, and stores the results in another.      *)
(* Memory is sequentially consistent.                                      *)
(***************************************************************************)
EXTENDS ButterflyStages, FiniteSets

CONSTANTS
    Launches,     \* the launches to try: the kernel's template arguments and
                  \* its HybridDataflowRuntime, as records
    WarpSize      \* threads of a warp

ASSUME LaunchAssumption ==
    /\ WarpSize \in Nat \ {0}
    /\ \A p \in Launches :
        /\ {p.logN, p.flowTileLogN, p.stageSpace, p.dataTime, p.roleStages, p.buffers,
            p.dataSpace} \subseteq Nat \ {0}
        /\ p.stageSpace <= p.flowTileLogN /\ p.flowTileLogN <= p.logN
        /\ p.roleStages <= p.stageSpace
        /\ p.tokenInterleave \in {1, 2}
        /\ p.tokenInterleave = 2 =>
                p.roleStages > 1 /\ p.dataTime >= p.roleStages * p.tokenInterleave
        /\ p.pingPong \in BOOLEAN
        /\ p.handoff \in {"barrier", "atomic"}
        /\ p.layout \in {"linear", "hermes-xor"}

VARIABLES
    launch,       \* the launch that runs
    round, fold,  \* round_base and fold
    pc,           \* per warp
    packet,       \* per warp: the packet loop's counter
    group,        \* per warp: the token group of the packet it is at
    values,       \* per warp: its tokens' results, between load and store
    state,        \* state0 and state1, by physical position
    current,      \* the one that current_is_state0 designates
    channel,      \* per <<edge, slot, packet token, local>>
    flags,        \* per <<edge, slot, replica>>
    output

hvars == <<launch, round, fold, pc, packet, group, values, state, current,
           channel, flags, output>>

LogN == launch.logN
FlowTileLogN == launch.flowTileLogN
StageSpace == launch.stageSpace
DataTime == launch.dataTime
RoleStages == launch.roleStages
TokenInterleave == launch.tokenInterleave

N == 2^LogN
Logical == 0 .. N - 1
MaxRoles == CeilDiv(StageSpace, RoleStages)
Warp == (0 .. MaxRoles - 1) \X (0 .. RoleStages - 1)
Role(w) == w[1]
Replica(w) == w[2]

----------------------------------------------------------------------------
(* Placement of the resident state.                                        *)

Xor(a, b, bits) ==
    LET sum[k \in 0 .. bits] ==
            IF k = 0 THEN 0
            ELSE sum[k - 1] + 2^(k - 1) * ((a \div 2^(k - 1) + b \div 2^(k - 1)) % 2)
    IN  sum[bits]

\* hybrid_state_index
StateIndex(p, l) ==
    IF p.layout = "linear" THEN l
    ELSE LET bank_count == 2 * p.dataSpace
         IN  (l - (l % bank_count)) + (Xor(l, l \div 2^p.flowTileLogN, p.logN) % bank_count)

\* Every StateIndex, a constant of the run.
Placement == [p \in Launches |-> [l \in 0 .. 2^p.logN - 1 |-> StateIndex(p, l)]]

Physical(l) == Placement[launch][l]

\* Mutant: every fold starts from state0.
InputStateFirst == 0

InputState == current
OutputState == IF launch.pingPong THEN 1 - current ELSE current

----------------------------------------------------------------------------
(* The fold at hand.                                                       *)

RoundStages == Least(FlowTileLogN, LogN - round)
ActiveStages == Least(StageSpace, RoundStages - fold)
ActiveRoles == CeilDiv(ActiveStages, RoleStages)
StageBase == round + fold
TokenPoints == 2^ActiveStages
TokenCount == N \div TokenPoints
PacketCount == CeilDiv(TokenCount, DataTime)

Edge == 0 .. MaxRoles - 2
Slot(w) == packet[w] % launch.buffers
PacketTokens(w) == Least(DataTime, TokenCount - packet[w] * DataTime)
HasNext(w) == Role(w) + 1 < ActiveRoles

\* The token groups a replica takes: TokenInterleave tokens at a time, every
\* RoleStages-th group of the packet.
GroupBegin(w, g) == (Replica(w) + g * RoleStages) * TokenInterleave
GroupTokens(w) ==
    { t \in GroupBegin(w, group[w]) .. GroupBegin(w, group[w]) + TokenInterleave - 1 :
        t < PacketTokens(w) }

Token(w, t) == packet[w] * DataTime + t

\* The element that is value `local` of a token.
Position(token, local) == SubgraphPosition(token, StageBase, ActiveStages, local)

Loaded(w, t) ==
    [local \in 0 .. TokenPoints - 1 |->
        IF Role(w) = 0
        THEN state[InputState, Physical(Position(Token(w, t), local))]
        ELSE channel[Role(w) - 1, Slot(w), t, local]]

----------------------------------------------------------------------------
Init ==
    /\ launch \in Launches
    /\ round = 0
    /\ fold = 0
    /\ pc = [w \in Warp |-> "load"]
    /\ packet = [w \in Warp |-> 0]
    /\ group = [w \in Warp |-> 0]
    /\ values = [w \in Warp |-> << >>]
    /\ state = [x \in {0, 1} \X Logical |-> Garbage]
    /\ current = 0
    /\ channel = [x \in Edge \X (0 .. launch.buffers - 1) \X (0 .. DataTime - 1)
                        \X (0 .. 2^StageSpace - 1) |-> Garbage]
    \* Shared memory is not initialised.
    /\ \E stale \in {0, 1} :
        flags = [x \in Edge \X (0 .. launch.buffers - 1) \X (0 .. RoleStages - 1) |-> stale]
    /\ output = [l \in Logical |-> Garbage]

Goto(w, phase) == pc' = [pc EXCEPT ![w] = phase]

\* What a warp's threads do when thread t does the items t, t + blockDim, ...
WarpNumber(w) == Role(w) * RoleStages + Replica(w)
Share(w, i) == (i \div WarpSize) % (MaxRoles * RoleStages) = WarpNumber(w)

FlagIndex(x) == (x[1] * launch.buffers + x[2]) * RoleStages + x[3]

Cleared(w) == [x \in DOMAIN flags |-> IF Share(w, FlagIndex(x)) THEN 0 ELSE flags[x]]

\* The entry loops: clear the flags and load input element brev(l), whose
\* position is l, as <<l, 0>>.
Load(w) ==
    /\ pc[w] = "load"
    /\ flags' = Cleared(w)
    /\ LET mine == { l \in Logical : Share(w, l) }
       IN  state' = [x \in DOMAIN state |->
                \* the l whose physical position is x
                IF x[1] = 0 /\ \E l \in mine : Physical(l) = x[2]
                THEN <<CHOOSE l \in mine : Physical(l) = x[2], 0>>
                ELSE state[x]]
    /\ Goto(w, "loaded")
    /\ UNCHANGED <<launch, round, fold, packet, group, values, current, channel, output>>

\* Mutant: one packet too many.
HeadOfOneMore(w, next, roles, packets) ==
    IF Role(w) < roles /\ next <= packets THEN "ready" ELSE "folded"

\* The head of the packet loop, or __syncthreads when it is over.
HeadOf(w, next, roles, packets) ==
    IF Role(w) < roles /\ next < packets THEN "ready" ELSE "folded"

\* __syncthreads before the first fold.
StartFolds ==
    /\ \A w \in Warp : pc[w] = "loaded"
    /\ pc' = [w \in Warp |-> HeadOf(w, 0, ActiveRoles, PacketCount)]
    /\ UNCHANGED <<launch, round, fold, packet, group, values, state, current,
                   channel, flags, output>>

----------------------------------------------------------------------------
(* The packet loop.                                                        *)

SourceFlag(w) == <<Role(w) - 1, Slot(w), Replica(w)>>
TargetFlag(w) == <<Role(w), Slot(w), Replica(w)>>

\* hybrid_named_barrier: the hardware barrier the warp syncs on, for 64 threads.
Barrier(w, edge) == edge * RoleStages + Replica(w) + 1

\* The source needs no waiting for in role 0; with the atomic handoff the
\* consumer polls its flag.
SourceReady(w) ==
    /\ pc[w] = "ready"
    /\ Role(w) # 0 => /\ launch.handoff = "atomic"
                      /\ flags[SourceFlag(w)] = 1
    /\ Goto(w, "free")
    /\ UNCHANGED <<launch, round, fold, packet, group, values, state, current,
                   channel, flags, output>>

Announcing(w) == pc[w] = "announce"
Expecting(w) == pc[w] = "ready" /\ Role(w) # 0 /\ launch.handoff = "barrier"

Arrived(w) ==
    IF Announcing(w) THEN Barrier(w, Role(w))
    ELSE IF Expecting(w) THEN Barrier(w, Role(w) - 1) ELSE 0

\* Two warps meet at a named barrier.
Meet(v, w) ==
    /\ v # w
    /\ Arrived(v) # 0
    /\ Arrived(v) = Arrived(w)
    /\ pc' = [u \in Warp |-> IF u \notin {v, w} THEN pc[u]
                             ELSE IF Announcing(u) THEN "release" ELSE "free"]
    /\ UNCHANGED <<launch, round, fold, packet, group, values, state, current,
                   channel, flags, output>>

\* Mutant: one packet more than there are slots goes unchecked.
FirstUseLate(w) == packet[w] <= launch.buffers

\* The slot has not been used in this fold.
FirstUse(w) == packet[w] < launch.buffers

\* Wait until the consumer has released the target slot.
TargetFree(w) ==
    /\ pc[w] = "free"
    /\ HasNext(w) => FirstUse(w) \/ flags[TargetFlag(w)] = 0
    /\ Goto(w, "take")
    /\ group' = [group EXCEPT ![w] = 0]
    /\ UNCHANGED <<launch, round, fold, packet, values, state, current, channel,
                   flags, output>>

\* Load the tokens of one group and apply the role's stages to them.
Take(w) ==
    /\ pc[w] = "take"
    /\ GroupBegin(w, group[w]) < DataTime
    /\ values' = [values EXCEPT ![w] =
            [t \in GroupTokens(w) |->
                RoleApplied(Loaded(w, t), Role(w), RoleStages, ActiveStages, StageBase,
                            SubgraphOffset(Token(w, t), StageBase))]]
    /\ Goto(w, "store")
    /\ UNCHANGED <<launch, round, fold, packet, group, state, current, channel,
                   flags, output>>

\* Store them in the channel, or back in the state after the last role.
Store(w) ==
    /\ pc[w] = "store"
    /\ IF HasNext(w)
       THEN /\ channel' = [x \in DOMAIN channel |->
                    IF /\ x[1] = Role(w) /\ x[2] = Slot(w)
                       /\ x[3] \in GroupTokens(w) /\ x[4] < TokenPoints
                    THEN values[w][x[3]][x[4]]
                    ELSE channel[x]]
            /\ UNCHANGED state
       ELSE /\ LET cells == { <<t, local>> \in GroupTokens(w) \X (0 .. TokenPoints - 1) : TRUE }
                   At(c) == Physical(Position(Token(w, c[1]), c[2]))
               IN  state' = [x \in DOMAIN state |->
                        IF x[1] = OutputState /\ \E c \in cells : At(c) = x[2]
                        THEN LET c == CHOOSE c \in cells : At(c) = x[2]
                             IN  values[w][c[1]][c[2]]
                        ELSE state[x]]
            /\ UNCHANGED channel
    /\ values' = [values EXCEPT ![w] = << >>]
    /\ group' = [group EXCEPT ![w] = @ + 1]
    /\ Goto(w, "take")
    /\ UNCHANGED <<launch, round, fold, packet, current, flags, output>>

\* After the last group: publish the slot; with the named barrier the flag is
\* set too, because the release protocol reads it.
Publish(w) ==
    /\ pc[w] = "take"
    /\ GroupBegin(w, group[w]) >= DataTime
    /\ IF HasNext(w)
       THEN /\ flags' = [flags EXCEPT ![TargetFlag(w)] = 1]
            /\ Goto(w, IF launch.handoff = "barrier" THEN "announce" ELSE "release")
       ELSE /\ UNCHANGED flags
            /\ Goto(w, "release")
    /\ UNCHANGED <<launch, round, fold, packet, group, values, state, current,
                   channel, output>>

\* Mutant: the named barrier is taken for a release.
ReleasedIfAtomic(w) ==
    IF Role(w) # 0 /\ launch.handoff = "atomic"
    THEN [flags EXCEPT ![SourceFlag(w)] = 0] ELSE flags

Released(w) == IF Role(w) # 0 THEN [flags EXCEPT ![SourceFlag(w)] = 0] ELSE flags

\* Free the source slot and go on to the next packet.
Release(w) ==
    /\ pc[w] = "release"
    /\ flags' = Released(w)
    /\ packet' = [packet EXCEPT ![w] = @ + 1]
    /\ Goto(w, HeadOf(w, packet[w] + 1, ActiveRoles, PacketCount))
    /\ UNCHANGED <<launch, round, fold, group, values, state, current, channel, output>>

----------------------------------------------------------------------------
(* Folds and output.                                                       *)

\* __syncthreads at the end of a fold; then the next fold, round, or output.
EndFold ==
    /\ \A w \in Warp : pc[w] = "folded"
    /\ UNCHANGED <<launch, group, values, state, channel, flags, output>>
    /\ current' = OutputState
    /\ packet' = [w \in Warp |-> 0]
    /\ LET more == fold + StageSpace < RoundStages
           next_round == IF more THEN round ELSE round + FlowTileLogN
       IN  /\ fold' = IF more THEN fold + StageSpace ELSE 0
           /\ round' = next_round
           /\ pc' = [w \in Warp |->
                IF next_round < LogN THEN HeadOf(w, 0, ActiveRoles', PacketCount') ELSE "output"]

Output(w) ==
    /\ pc[w] = "output"
    /\ output' = [l \in Logical |->
            IF Share(w, l) THEN state[current, Physical(l)] ELSE output[l]]
    /\ Goto(w, "done")
    /\ UNCHANGED <<launch, round, fold, packet, group, values, state, current,
                   channel, flags>>

Step(w) ==
    \/ Load(w)
    \/ SourceReady(w)
    \/ TargetFree(w)
    \/ Take(w)
    \/ Store(w)
    \/ Publish(w)
    \/ Release(w)
    \/ Output(w)

Done == \A w \in Warp : pc[w] = "done"

Next ==
    \/ \E w \in Warp : Step(w)
    \/ \E v, w \in Warp : Meet(v, w)
    \/ StartFolds
    \/ EndFold
    \/ Done /\ UNCHANGED hvars

Spec == Init /\ [][Next]_hvars

\* The CTA's warps are resident and scheduled, and a barrier lets go those that
\* have all arrived: while some warp can run, some warp does.
FairSpec == Spec /\ WF_hvars(Next)

----------------------------------------------------------------------------
(* Properties.                                                             *)

Value == Logical \X (0 .. LogN) \cup {Garbage}

\* The cursors of every warp stay in their ranges: no slot, channel word or
\* state word outside the shared memory the launch allocates is touched
\* (hybrid_dataflow_shared_bytes).
TypeOK ==
    /\ launch \in Launches
    /\ pc \in [Warp -> {"load", "loaded", "ready", "free", "take", "store", "announce",
                        "release", "folded", "output", "done"}]
    /\ round < LogN => \A w \in Warp :
        /\ packet[w] \in 0 .. PacketCount
        /\ pc[w] = "store" => values[w] \in [GroupTokens(w) -> [0 .. TokenPoints - 1 -> Value]]
    /\ DOMAIN state = {0, 1} \X Logical
    /\ \A x \in DOMAIN channel : channel[x] \in Value
    /\ DOMAIN channel = Edge \X (0 .. launch.buffers - 1) \X (0 .. DataTime - 1)
                             \X (0 .. 2^StageSpace - 1)
    /\ flags \in [Edge \X (0 .. launch.buffers - 1) \X (0 .. RoleStages - 1) -> {0, 1}]

\* Every butterfly a warp computes has the two operands of its stage and their
\* twiddle, however the roles of the fold overlap: what it takes from a channel
\* is the packet it waited for, complete, and what it takes from the state was
\* left there by the last role of the fold before.
OperandsRight ==
    \A w \in Warp : pc[w] = "store" =>
        \A t \in GroupTokens(w) : \A local \in 0 .. TokenPoints - 1 :
            values[w][t][local] =
                <<Position(Token(w, t), local),
                  StageBase + Least((Role(w) + 1) * RoleStages, ActiveStages)>>

\* The transform leaves every element through all LogN stages, in natural order.
OutputRight == Done => \A l \in Logical : output[l] = <<l, LogN>>

\* A producer replica never writes a slot while its consumer replica reads it.
SlotExclusive ==
    \A v, w \in Warp :
        /\ Role(w) = Role(v) + 1 /\ Replica(v) = Replica(w)
        /\ pc[v] \in {"take", "store"} /\ HasNext(v)
        /\ pc[w] \in {"free", "take", "store", "announce", "release"}
        => Slot(v) # Slot(w)

\* Between folds every slot is free: the next fold's first packets skip the
\* wait for a free slot, and its consumers must not see an old flag as ready.
FoldBoundaryClean ==
    (\A w \in Warp : pc[w] \in {"folded", "output", "done"}) =>
        \A x \in DOMAIN flags : flags[x] = 0

\* Warps that meet at a named barrier are the producer and the consumer of the
\* same packet, replica by replica: bar.sync only counts threads.
BarrierMatched ==
    \A v, w \in Warp :
        v # w /\ Arrived(v) # 0 /\ Arrived(v) = Arrived(w) =>
            /\ packet[v] = packet[w]
            /\ Replica(v) = Replica(w)
            /\ {Role(v), Role(w)} \in { {r, r + 1} : r \in Edge }

\* The CTA finishes: no cycle of waits for slots, packets and barriers.
Terminates == <>Done
=============================================================================
