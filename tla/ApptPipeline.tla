---------------------------- MODULE ApptPipeline ----------------------------
(***************************************************************************)
(* appt_pipeline_kernel (src/ntt.cu): a cooperative launch of Ctas blocks. *)
(* Every block runs PipelineReplicas copies of a pipeline of warps, one    *)
(* role per RoleStages stages; the copies of all blocks share the packets  *)
(* of a fold between them.  A token passes from role to role through a     *)
(* ring of PipelineBuffers slots in shared memory, with a flag per slot:   *)
(* 1 full, 0 free.  A fold of StageSpace stages ends at a grid barrier,    *)
(* after which the blocks transpose the state into the next fold's token   *)
(* order, tile by tile, from one global buffer to the other.               *)
(*                                                                         *)
(* Values are those of ButterflyStages, and the timing trace is left out.  *)
(* A warp takes a token and applies its stages in one step, and stores it  *)
(* in another; so do the threads of a warp with their part of a tile.      *)
(* Memory is sequentially consistent.                                      *)
(***************************************************************************)
EXTENDS ButterflyStages, FiniteSets

CONSTANTS
    Launches,     \* the launches to try: the kernel's template arguments, its
                  \* arguments and its grid, as records
    WarpSize      \* threads of a warp

\* Assumed by the module that chooses the launches.
ValidLaunches ==
    /\ WarpSize \in Nat \ {0}
    /\ \A p \in Launches :
        /\ {p.logN, p.stageSpace, p.transforms, p.dataTime, p.buffers, p.ctas,
            p.transposeTile} \subseteq Nat \ {0}
        /\ {p.roleStages, p.tokenInterleave, p.replicas} \subseteq {1, 2}
        /\ p.roleStages < p.stageSpace
        /\ p.wordBytes \in {4, 8}

VARIABLES
    launch,     \* the launch that runs
    fold,       \* the fold of the blocks; grid barriers keep them together
    pc,         \* per warp
    packet,     \* per warp: the packet loop's counter
    item,       \* per warp: group_begin plus the group_item it is at
    processed,  \* per warp: processed_groups
    values,     \* per warp: the token it has taken
    channel,    \* per block, edge, replica, slot and group_item: a token's values
    flags,      \* per block and Flag
    tile,       \* per block: its transpose_tile
    tile_index, \* per block
    scratch,
    output

avars == <<launch, fold, pc, packet, item, processed, values, channel, flags, tile,
           tile_index, scratch, output>>

LogN == launch.logN
StageSpace == launch.stageSpace
RoleStages == launch.roleStages
Transforms == launch.transforms
DataTime == launch.dataTime
TokenInterleave == launch.tokenInterleave
PipelineBuffers == launch.buffers
PipelineReplicas == launch.replicas
Ctas == launch.ctas                    \* gridDim.x
WordBytes == launch.wordBytes          \* sizeof(Word)
TransposeTile == launch.transposeTile  \* kTransposeTile

N == 2^LogN
Roles == CeilDiv(StageSpace, RoleStages)
Edge == 0 .. Roles - 2
FoldCount == CeilDiv(LogN, StageSpace)

Cta == 0 .. Ctas - 1
Warp == Cta \X (0 .. Roles - 1) \X (0 .. PipelineReplicas - 1)
Block(w) == w[1]
Role(w) == w[2]
Replica(w) == w[3]
WarpNumber(w) == Role(w) * PipelineReplicas + Replica(w)
Warps == Roles * PipelineReplicas

\* The shared memory the launch asks for, and the byte where flags begin.
ChannelBytes ==
    (Roles - 1) * PipelineReplicas * PipelineBuffers * TokenInterleave * 2^StageSpace * WordBytes

SharedBytes ==
    LET with_flags == ChannelBytes + (Roles - 1) * PipelineBuffers * 4
        one_tile   == TransposeTile * (TransposeTile + 1) * WordBytes
    IN  IF with_flags > one_tile THEN with_flags ELSE one_tile

Flag == Edge \X (0 .. PipelineReplicas - 1) \X (0 .. PipelineBuffers - 1)
FlagIndex(f) == (f[1] * PipelineReplicas + f[2]) * PipelineBuffers + f[3]

Address == (0 .. Transforms - 1) \X (0 .. N - 1)

----------------------------------------------------------------------------
(* The fold at hand.                                                       *)

StageBase == fold * StageSpace
ActiveStages == Least(StageSpace, LogN - StageBase)
FinalFold == StageBase + ActiveStages = LogN
ActiveRoles == CeilDiv(ActiveStages, RoleStages)
TokensPerTransform == 2^(LogN - ActiveStages)
TotalTokens == Transforms * TokensPerTransform
PacketCount == CeilDiv(TotalTokens, DataTime)

\* The global buffer that holds the state: the last fold always reads scratch.
StateIsScratch == (FoldCount + fold) % 2 = 1

State == IF StateIsScratch THEN scratch ELSE output

FirstPacket(w) == Block(w) * PipelineReplicas + Replica(w)

HasNext(w) == Role(w) + 1 < ActiveRoles
RingSlot(w) == processed[w] % PipelineBuffers
PreviousFlag(w) == <<Role(w) - 1, Replica(w), RingSlot(w)>>
NextFlag(w) == <<Role(w), Replica(w), RingSlot(w)>>

\* The token a warp is at, and where it lives between folds: token-major.
Sequence(w) == packet[w] * DataTime + item[w]
Transform(w) == Sequence(w) \div TokensPerTransform
Token(w) == Sequence(w) % TokensPerTransform
GroupItem(w) == item[w] % TokenInterleave
Slot(w, edge) == <<Block(w), edge, Replica(w), RingSlot(w), GroupItem(w)>>
TokenMajor(w, local) == <<Transform(w), Token(w) * 2^ActiveStages + local>>

Position(token, local) == SubgraphPosition(token, StageBase, ActiveStages, local)

Local == 0 .. 2^ActiveStages - 1

Loaded(w) ==
    [local \in Local |->
        CASE Role(w) # 0 -> channel[Slot(w, Role(w) - 1)][local]
          \* input[brev(position)] is the element of that position, at level 0
          [] Role(w) = 0 /\ fold = 0 -> <<Position(Token(w), local), 0>>
          [] OTHER -> State[TokenMajor(w, local)]]

----------------------------------------------------------------------------
Blank == [local \in 0 .. 2^StageSpace - 1 |-> Garbage]

Init ==
    /\ launch \in Launches
    /\ fold = 0
    /\ pc = [w \in Warp |-> "clear"]
    /\ packet = [w \in Warp |-> 0]
    /\ item = [w \in Warp |-> 0]
    /\ processed = [w \in Warp |-> 0]
    /\ values = [w \in Warp |-> << >>]
    /\ channel = [x \in Cta \X Edge \X (0 .. PipelineReplicas - 1)
                        \X (0 .. PipelineBuffers - 1) \X (0 .. TokenInterleave - 1) |-> Blank]
    \* Shared memory is not initialised.
    /\ \E stale \in {0, 1} : flags = [c \in Cta |-> [f \in Flag |-> stale]]
    /\ tile = [c \in Cta |-> << >>]
    /\ tile_index = [c \in Cta |-> 0]
    /\ scratch = [a \in Address |-> Garbage]
    /\ output = [a \in Address |-> Garbage]

Goto(w, phase) == pc' = [pc EXCEPT ![w] = phase]

\* Items t, t + blockDim, ... belong to thread t.
Share(w, i) == (i \div WarpSize) % Warps = WarpNumber(w)

Cleared(w, f) == Share(w, FlagIndex(f))

\* At the head of a fold, each thread clears its flags.
Clear(w) ==
    /\ pc[w] = "clear"
    /\ flags' = [flags EXCEPT ![Block(w)] =
            [f \in Flag |-> IF Cleared(w, f) THEN 0 ELSE @[f]]]
    /\ Goto(w, "cleared")
    /\ UNCHANGED <<launch, fold, packet, item, processed, values, channel, tile, tile_index,
                   scratch, output>>

\* __syncthreads; then the roles of this fold start on their first packet.
StartFold(c) ==
    LET mine == { w \in Warp : Block(w) = c }
        Start(w) == Role(w) < ActiveRoles /\ FirstPacket(w) < PacketCount
    IN  /\ \A w \in mine : pc[w] = "cleared"
        /\ pc' = [w \in Warp |-> IF w \notin mine THEN pc[w]
                                 ELSE IF Start(w) THEN "acquire" ELSE "drained"]
        /\ packet' = [w \in Warp |-> IF w \in mine THEN FirstPacket(w) ELSE packet[w]]
        /\ item' = [w \in Warp |-> IF w \in mine THEN 0 ELSE item[w]]
        /\ processed' = [w \in Warp |-> IF w \in mine THEN 0 ELSE processed[w]]
        /\ UNCHANGED <<launch, fold, values, channel, flags, tile, tile_index, scratch, output>>

----------------------------------------------------------------------------
(* The packet loop: one token group at a time.                             *)

FirstUse(w) == processed[w] < PipelineBuffers

\* The wait for the source, or, in role 0, for the slot of its target.
Acquire(w) ==
    /\ pc[w] = "acquire"
    /\ IF Role(w) # 0
       THEN flags[Block(w)][PreviousFlag(w)] = 1
       ELSE FirstUse(w) \/ flags[Block(w)][NextFlag(w)] = 0
    /\ Goto(w, "free")
    /\ UNCHANGED <<launch, fold, packet, item, processed, values, channel, flags, tile,
                   tile_index, scratch, output>>

\* The wait for the target slot, in every role that has one.
TargetFree(w) ==
    /\ pc[w] = "free"
    /\ HasNext(w) => FirstUse(w) \/ flags[Block(w)][NextFlag(w)] = 0
    /\ Goto(w, "take")
    /\ UNCHANGED <<launch, fold, packet, item, processed, values, channel, flags, tile,
                   tile_index, scratch, output>>

\* A group_item outside its packet or the batch is skipped.
InGroup(w) == item[w] < DataTime /\ Sequence(w) < TotalTokens

Take(w) ==
    /\ pc[w] = "take"
    /\ InGroup(w)
    /\ values' = [values EXCEPT ![w] =
            RoleApplied(Loaded(w), Role(w), RoleStages, ActiveStages, StageBase,
                        SubgraphOffset(Token(w), StageBase))]
    /\ Goto(w, "store")
    /\ UNCHANGED <<launch, fold, packet, item, processed, channel, flags, tile, tile_index,
                   scratch, output>>

\* The group's next item, or the end of the group.
AfterItem(w) ==
    IF GroupItem(w) = TokenInterleave - 1
    THEN Goto(w, "publish") /\ UNCHANGED item
    ELSE Goto(w, "take") /\ item' = [item EXCEPT ![w] = @ + 1]

Skip(w) ==
    /\ pc[w] = "take"
    /\ ~InGroup(w)
    /\ AfterItem(w)
    /\ UNCHANGED <<launch, fold, packet, processed, values, channel, flags, tile, tile_index,
                   scratch, output>>

\* A buffer with the token's values written where address says.
Written(buffer, w, address) ==
    [a \in Address |->
        LET here == { local \in Local : address[local] = a }
        IN  IF here = {} THEN buffer[a] ELSE values[w][CHOOSE local \in here : TRUE]]

\* To the next role's channel, to the state, or, in the last fold, to the
\* natural positions of the output.
Store(w) ==
    LET natural == [local \in Local |-> <<Transform(w), Position(Token(w), local)>>]
        major   == [local \in Local |-> TokenMajor(w, local)]
    IN  /\ pc[w] = "store"
        /\ IF HasNext(w)
           THEN /\ channel' = [channel EXCEPT ![Slot(w, Role(w))] =
                        [local \in DOMAIN Blank |->
                            IF local \in Local THEN values[w][local] ELSE @[local]]]
                /\ UNCHANGED <<scratch, output>>
           ELSE /\ IF FinalFold
                   THEN output' = Written(output, w, natural) /\ UNCHANGED scratch
                   ELSE IF StateIsScratch
                   THEN scratch' = Written(scratch, w, major) /\ UNCHANGED output
                   ELSE output' = Written(output, w, major) /\ UNCHANGED scratch
                /\ UNCHANGED channel
        /\ values' = [values EXCEPT ![w] = << >>]
        /\ AfterItem(w)
        /\ UNCHANGED <<launch, fold, packet, processed, flags, tile, tile_index>>

\* The slot is full ...
Publish(w) ==
    /\ pc[w] = "publish"
    /\ flags' = IF HasNext(w)
                THEN [flags EXCEPT ![Block(w)][NextFlag(w)] = 1] ELSE flags
    /\ Goto(w, "release")
    /\ UNCHANGED <<launch, fold, packet, item, processed, values, channel, tile, tile_index,
                   scratch, output>>

NextPacket(w) == packet[w] + Ctas * PipelineReplicas

ReleasedFlag(w) == PreviousFlag(w)

\* ... and the source slot free; then the next group, the next packet, or the
\* end of the loop.
Release(w) ==
    LET in_packet == item[w] + 1 < DataTime /\ Sequence(w) + 1 < TotalTokens
    IN  /\ pc[w] = "release"
        /\ flags' = IF Role(w) # 0
                    THEN [flags EXCEPT ![Block(w)][ReleasedFlag(w)] = 0] ELSE flags
        /\ processed' = [processed EXCEPT ![w] = @ + 1]
        /\ item' = [item EXCEPT ![w] = IF in_packet THEN @ + 1 ELSE 0]
        /\ packet' = [packet EXCEPT ![w] = IF in_packet THEN @ ELSE NextPacket(w)]
        /\ Goto(w, IF in_packet \/ NextPacket(w) < PacketCount THEN "acquire" ELSE "drained")
        /\ UNCHANGED <<launch, fold, values, channel, tile, tile_index, scratch, output>>

----------------------------------------------------------------------------
(* The transposition between two folds.  With c_points = 2^StageBase,      *)
(* b_points = 2^ActiveStages and d_points = 2^NextStages, a position is    *)
(* a | d | c | b before it and a | b | c | d after it.                     *)

NextStages == Least(StageSpace, LogN - StageBase - ActiveStages)
CPoints == 2^StageBase
BPoints == 2^ActiveStages
DPoints == 2^NextStages
APoints == 2^(LogN - StageBase - ActiveStages - NextStages)
BTiles == CeilDiv(BPoints, TransposeTile)
DTiles == CeilDiv(DPoints, TransposeTile)
TotalTiles == Transforms * APoints * CPoints * BTiles * DTiles

\* The tile's coordinates.
DTile(index) == index % DTiles
BTile(index) == (index \div DTiles) % BTiles
CPoint(index) == (index \div (DTiles * BTiles)) % CPoints
APoint(index) == (index \div (DTiles * BTiles * CPoints)) % APoints
TileTransform(index) == index \div (DTiles * BTiles * CPoints * APoints)

\* The elements <<d, b>> of a tile that exist.
TileCell(index) ==
    { x \in (0 .. TransposeTile - 1) \X (0 .. TransposeTile - 1) :
        /\ DTile(index) * TransposeTile + x[1] < DPoints
        /\ BTile(index) * TransposeTile + x[2] < BPoints }

TileD(index, x) == DTile(index) * TransposeTile + x[1]
TileB(index, x) == BTile(index) * TransposeTile + x[2]

SourceAddress(index, x) ==
    LET prefix == (APoint(index) * DPoints + TileD(index, x)) * CPoints + CPoint(index)
    IN  <<TileTransform(index), prefix * BPoints + TileB(index, x)>>

TargetAddress(index, x) ==
    LET prefix == (APoint(index) * BPoints + TileB(index, x)) * CPoints + CPoint(index)
    IN  <<TileTransform(index), prefix * DPoints + TileD(index, x)>>

\* grid.sync at the end of a fold; the channels and flags become the tile, so
\* the flags may hold anything when the next fold begins.
EndFold ==
    /\ \A w \in Warp : pc[w] = "drained"
    /\ tile_index' = [c \in Cta |-> c]
    /\ IF FinalFold
       THEN /\ pc' = [w \in Warp |-> "done"]
            /\ UNCHANGED flags
       ELSE /\ pc' = [w \in Warp |-> IF Block(w) < TotalTiles THEN "load" ELSE "transposed"]
            /\ \E data \in {0, 1} : flags' = [c \in Cta |-> [f \in Flag |-> data]]
    /\ UNCHANGED <<launch, fold, packet, item, processed, values, channel, tile, scratch, output>>

LoadTile(w) ==
    LET index == tile_index[Block(w)]
        mine  == { x \in TileCell(index) : Share(w, x[1] * TransposeTile + x[2]) }
    IN  /\ pc[w] = "load"
        /\ tile' = [tile EXCEPT ![Block(w)] =
                [x \in DOMAIN @ \cup mine |->
                    IF x \in mine THEN State[SourceAddress(index, x)] ELSE @[x]]]
        /\ Goto(w, "loaded")
        /\ UNCHANGED <<launch, fold, packet, item, processed, values, channel, flags,
                       tile_index, scratch, output>>

TileLoaded(c) == \A w \in Warp : Block(w) = c => pc[w] = "loaded"

\* __syncthreads between the two halves of a tile.
SyncTile(c) ==
    /\ TileLoaded(c)
    /\ pc' = [w \in Warp |-> IF Block(w) = c THEN "write" ELSE pc[w]]
    /\ UNCHANGED <<launch, fold, packet, item, processed, values, channel, flags, tile,
                   tile_index, scratch, output>>

WriteTile(w) ==
    LET index == tile_index[Block(w)]
        mine  == { x \in TileCell(index) : Share(w, x[2] * TransposeTile + x[1]) }
        address == [x \in mine |-> TargetAddress(index, x)]
        Transposed(buffer) ==
            [a \in Address |->
                LET here == { x \in mine : address[x] = a }
                IN  IF here = {} THEN buffer[a]
                    ELSE LET x == CHOOSE x \in here : TRUE
                         IN  IF x \in DOMAIN tile[Block(w)] THEN tile[Block(w)][x] ELSE Garbage]
    IN  /\ pc[w] = "write"
        /\ IF StateIsScratch
           THEN output' = Transposed(output) /\ UNCHANGED scratch
           ELSE scratch' = Transposed(scratch) /\ UNCHANGED output
        /\ Goto(w, "written")
        /\ UNCHANGED <<launch, fold, packet, item, processed, values, channel, flags, tile, tile_index>>

\* __syncthreads after a tile, and the block's next one.
NextTile(c) ==
    LET next == tile_index[c] + Ctas
    IN  /\ \A w \in Warp : Block(w) = c => pc[w] = "written"
        /\ tile_index' = [tile_index EXCEPT ![c] = next]
        /\ tile' = [tile EXCEPT ![c] = << >>]
        /\ pc' = [w \in Warp |-> IF Block(w) # c THEN pc[w]
                                 ELSE IF next < TotalTiles THEN "load" ELSE "transposed"]
        /\ UNCHANGED <<launch, fold, packet, item, processed, values, channel, flags, scratch, output>>

\* grid.sync after the transposition.
NextFold ==
    /\ \A w \in Warp : pc[w] = "transposed"
    /\ fold' = fold + 1
    /\ pc' = [w \in Warp |-> "clear"]
    /\ UNCHANGED <<launch, packet, item, processed, values, channel, flags, tile,
                   tile_index, scratch, output>>

----------------------------------------------------------------------------
Step(w) ==
    \/ Clear(w)
    \/ Acquire(w)
    \/ TargetFree(w)
    \/ Take(w)
    \/ Skip(w)
    \/ Store(w)
    \/ Publish(w)
    \/ Release(w)
    \/ LoadTile(w)
    \/ WriteTile(w)

Done == \A w \in Warp : pc[w] = "done"

Next ==
    \/ \E w \in Warp : Step(w)
    \/ \E c \in Cta : StartFold(c) \/ SyncTile(c) \/ NextTile(c)
    \/ EndFold
    \/ NextFold
    \/ Done /\ UNCHANGED avars

Spec == Init /\ [][Next]_avars

\* A cooperative launch has every block resident, so the warps that can run do.
FairSpec == Spec /\ WF_avars(Next)

----------------------------------------------------------------------------
(* Properties.                                                             *)

Value == ((0 .. N - 1) \X (0 .. LogN)) \cup {Garbage}

\* Every cursor is in range: no warp takes a token past the batch or indexes
\* outside the two global buffers and the channels.
TypeOK ==
    /\ fold \in 0 .. FoldCount - 1
    /\ pc \in [Warp -> {"clear", "cleared", "acquire", "free", "take", "store", "publish",
                        "release", "drained", "load", "loaded", "write", "written",
                        "transposed", "done"}]
    /\ \A w \in Warp :
        /\ item[w] \in 0 .. DataTime + TokenInterleave - 1
        /\ pc[w] = "store" => /\ values[w] \in [Local -> Value]
                              /\ Sequence(w) < TotalTokens
    /\ flags \in [Cta -> [Flag -> {0, 1}]]
    /\ scratch \in [Address -> Value]
    /\ output \in [Address -> Value]

\* Every token a role has transformed is the token of its sequence number at
\* the level of the role: the ring never hands over another group's token, and
\* the state holds, in token-major order, what the fold before left.
OperandsRight ==
    \A w \in Warp : pc[w] = "store" =>
        \A local \in Local :
            values[w][local] =
                <<Position(Token(w), local),
                  StageBase + Least((Role(w) + 1) * RoleStages, ActiveStages)>>

\* After the last fold every transform is complete and in natural order.
OutputRight ==
    Done => \A a \in Address : output[a] = <<a[2], LogN>>

\* A role never stores into a ring slot that the next role is reading.
SlotExclusive ==
    \A v, w \in Warp :
        /\ Block(v) = Block(w) /\ Replica(v) = Replica(w) /\ Role(w) = Role(v) + 1
        /\ pc[v] \in {"take", "store"} /\ HasNext(v)
        /\ pc[w] \in {"free", "take", "store", "publish", "release"}
        => RingSlot(v) # RingSlot(w)

\* Every flag a warp polls or sets lies in the shared memory of the launch.
FlagsAllocated ==
    LET Allocated(f) == ChannelBytes + 4 * FlagIndex(f) + 4 <= SharedBytes
    IN  \A w \in Warp : pc[w] \in {"acquire", "free", "publish"} =>
            /\ Role(w) # 0 => Allocated(PreviousFlag(w))
            /\ HasNext(w) => Allocated(NextFlag(w))

\* The launch ends: no block waits for a flag, a barrier or another block for ever.
Terminates == <>Done
=============================================================================
