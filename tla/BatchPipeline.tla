--------------------------- MODULE BatchPipeline ----------------------------
(***************************************************************************)
(* BatchPipeline (src/batch_pipeline.cuh): the plan-owned scheduler that   *)
(* overlaps the physical groups of a plan over tiles of the batch, with    *)
(* one stream per group, two slots per boundary and events reused in       *)
(* submission order.  Any caller stream may submit; the caller uploads its *)
(* input and uses its output on its own stream, before and after.          *)
(*                                                                         *)
(* A value is its provenance, the pair <<invocation, offset>> of the tile  *)
(* it belongs to.  A launch is two steps of its stream: it starts reading  *)
(* its source and destroying its destination, and it finishes, with a      *)
(* correct result only if its source was right at both ends.               *)
(***************************************************************************)
EXTENDS CudaStreams, FiniteSets

CONSTANTS
    Plans,          \* the plans that may run
    Caller,         \* caller streams, each with its own input and output
    Invocations     \* bound: enqueue calls

VARIABLE plan       \* the plan that runs

Groups == plan.groups       \* streams_.size()
Batch == plan.batch         \* transforms of an invocation
TileBatch == plan.tile      \* config_.batch_tile_count
MayFail == plan.mayFail     \* whether a launch may be refused (enqueue throws)

Group == 0 .. Groups - 1
Last == Groups - 1
Boundary == 0 .. Groups - 2

begin == <<"begin", 0, 0>>
done == <<"done", 0, 0>>
ready(b, slot) == <<"ready", b, slot>>
consumed(b, slot) == <<"consumed", b, slot>>

EventsOf(groups) ==
    {begin, done} \cup ({"ready", "consumed"} \X (0 .. groups - 2) \X {0, 1})

\* Assumed by the module that chooses the plans.
ValidPlans ==
    /\ Invocations \in Nat \ {0}
    /\ \A p \in Plans :
        /\ p.groups \in Nat /\ p.groups >= 2
        /\ {p.batch, p.tile} \subseteq Nat \ {0}
        /\ p.mayFail \in BOOLEAN
        /\ (0 .. p.groups - 1) \cup Caller \subseteq Stream
        /\ (0 .. p.groups - 1) \cap Caller = {}
        /\ EventsOf(p.groups) \subseteq Event

Garbage == <<0, 0>>

VARIABLES
    host,         \* the thread inside enqueue, or idle
    invocation,   \* enqueue calls so far
    failed,       \* the invocations whose enqueue threw
    running,      \* per group: idle, or executing the launch at its stream's head
                  \* whose source was right or wrong when it started
    slots,        \* per boundary and slot: the tile it holds
    input,        \* per caller: the invocation whose input it holds
    output,       \* per caller and transform: the tile that wrote it
    executed      \* per group: launches begun and launches completed

pvars == <<plan, queue, recorded, completed, host, invocation, failed, running, slots,
           input, output, executed>>

memory == <<slots, input, output>>

Idle == [phase |-> "idle"]

Tile(offset) == offset \div TileBatch
SlotOf(offset) == Tile(offset) % 2
Count(offset) == IF Batch - offset < TileBatch THEN Batch - offset ELSE TileBatch

Init ==
    /\ plan \in Plans
    /\ StreamsInit
    /\ host = Idle
    /\ invocation = 0
    /\ failed = {}
    /\ running = [g \in Group |-> "idle"]
    /\ slots = [b \in Boundary |-> [q \in {0, 1} |-> Garbage]]
    /\ input = [c \in Caller |-> 0]
    /\ output = [c \in Caller |-> [x \in 0 .. Batch - 1 |-> Garbage]]
    /\ executed = [g \in Group |-> [started |-> 0, finished |-> 0]]

----------------------------------------------------------------------------
(* The host.                                                               *)

\* The caller enqueues its upload and calls enqueue, which fences the       *)
\* streams behind the caller and the previous invocation.
Begin(c) ==
    /\ host = Idle
    /\ invocation < Invocations
    /\ invocation' = invocation + 1
    /\ queue' = [s \in Stream |->
            IF s = c
            THEN queue[c] \o << [kind |-> "upload", invocation |-> invocation + 1],
                                Wait(done), Record(begin) >>
            ELSE IF s \in Group THEN Append(queue[s], WaitNew(begin))
            ELSE queue[s]]
    /\ recorded' = Recording({begin})
    /\ host' = [phase |-> "tiles", caller |-> c, offset |-> 0, group |-> 0]
    /\ UNCHANGED <<plan, completed, failed, running, slots, input, output, executed>>

\* Mutant: the slot's previous consumer is waited for one tile too late.
SlotWaitLate(g, offset) ==
    IF g # Last /\ Tile(offset) >= 3 THEN <<Wait(consumed(g, SlotOf(offset)))>> ELSE <<>>

\* The waits before a launch: for the slot it fills, if a consumer of this
\* invocation has it, and for the tile it reads.
SlotWait(g, offset) ==
    IF g # Last /\ Tile(offset) >= 2 THEN <<Wait(consumed(g, SlotOf(offset)))>> ELSE <<>>

TileWait(g, offset) ==
    IF g # 0 THEN <<Wait(ready(g - 1, SlotOf(offset)))>> ELSE <<>>

\* The records after it.
Announced(g, offset) ==
    (IF g # 0 THEN {consumed(g - 1, SlotOf(offset))} ELSE {})
        \cup (IF g # Last THEN {ready(g, SlotOf(offset))} ELSE {})

Announce(g, offset) ==
    (IF g # 0 THEN <<Record(consumed(g - 1, SlotOf(offset)))>> ELSE <<>>)
        \o (IF g # Last THEN <<Record(ready(g, SlotOf(offset)))>> ELSE <<>>)

Launch(g) ==
    [kind |-> "launch", invocation |-> invocation, caller |-> host.caller,
     offset |-> host.offset, slot |-> SlotOf(host.offset)]

\* The loops: groups within a tile, then the next tile.
Advance ==
    host' = IF host.group # Last
            THEN [host EXCEPT !.group = @ + 1]
            ELSE IF host.offset + TileBatch < Batch
            THEN [host EXCEPT !.group = 0, !.offset = @ + TileBatch]
            ELSE [host EXCEPT !.phase = "end"]

\* One pass of the inner loop.
EnqueueGroup ==
    LET g == host.group
        o == host.offset
    IN  /\ host.phase = "tiles"
        /\ queue' = [queue EXCEPT ![g] = @ \o SlotWait(g, o) \o TileWait(g, o)
                                           \o <<Launch(g)>> \o Announce(g, o)]
        /\ recorded' = Recording(Announced(g, o))
        /\ Advance
        /\ UNCHANGED <<plan, completed, invocation, failed, running, slots, input,
                       output, executed>>

\* The launch is refused: enqueue throws with its waits already enqueued and
\* done_ not recorded; what it enqueued before stays in the streams.
LaunchFails ==
    LET g == host.group
        o == host.offset
    IN  /\ MayFail
        /\ host.phase = "tiles"
        /\ queue' = [queue EXCEPT ![g] = @ \o SlotWait(g, o) \o TileWait(g, o)]
        /\ failed' = failed \cup {invocation}
        /\ host' = Idle
        /\ UNCHANGED <<plan, recorded, completed, invocation, running, slots, input,
                       output, executed>>

\* done_ is recorded behind the last group and the caller's stream waits for
\* it; the caller then enqueues its use of the output.
End ==
    /\ host.phase = "end"
    /\ queue' = [queue EXCEPT
            ![Last] = Append(@, Record(done)),
            ![host.caller] = @ \o << WaitNew(done),
                                     [kind |-> "use", invocation |-> invocation] >>]
    /\ recorded' = Recording({done})
    /\ host' = Idle
    /\ UNCHANGED <<plan, completed, invocation, failed, running, slots, input, output, executed>>

\* release(): the destructor synchronises every group's stream.
Release ==
    /\ host = Idle
    /\ invocation = Invocations
    /\ Drained(Group)
    /\ host' = [phase |-> "released"]
    /\ UNCHANGED <<plan, queue, recorded, completed, invocation, failed, running, slots,
                   input, output, executed>>

----------------------------------------------------------------------------
(* The device.                                                             *)

Sync(s) ==
    /\ PassWait(s) \/ PassRecord(s)
    /\ UNCHANGED <<plan, host, invocation, failed, running, slots, input, output, executed>>

Upload(c) ==
    /\ Doing(c, "upload")
    /\ input' = [input EXCEPT ![c] = Next1(c).invocation]
    /\ Pop(c)
    /\ UNCHANGED <<plan, recorded, completed, host, invocation, failed, running, slots,
                   output, executed>>

Use(c) ==
    /\ Doing(c, "use")
    /\ Pop(c)
    /\ UNCHANGED <<plan, recorded, completed, host, invocation, failed, running, slots,
                   input, output, executed>>

TileOf(op) == <<op.invocation, op.offset>>

\* Whether the source of a launch holds its tile.
SourceRight(g, op) ==
    IF g = 0 THEN input[op.caller] = op.invocation
             ELSE slots[g - 1][op.slot] = TileOf(op)

\* A group writes its boundary's slot; the last one the caller's output.
Fill(g, op, value) ==
    IF g # Last
    THEN /\ slots' = [slots EXCEPT ![g][op.slot] = value]
         /\ UNCHANGED output
    ELSE /\ output' = [output EXCEPT ![op.caller] =
                [x \in 0 .. Batch - 1 |->
                    IF x \in op.offset .. op.offset + Count(op.offset) - 1 THEN value ELSE @[x]]]
         /\ UNCHANGED slots

KernelStart(g) ==
    /\ Doing(g, "launch")
    /\ running[g] = "idle"
    /\ running' = [running EXCEPT ![g] = IF SourceRight(g, Next1(g)) THEN "right" ELSE "wrong"]
    /\ Fill(g, Next1(g), Garbage)
    /\ executed' = [executed EXCEPT ![g].started = @ + 1]
    /\ UNCHANGED <<plan, queue, recorded, completed, host, invocation, failed, input>>

\* What the launch leaves in its destination.
Outcome(g, op) ==
    IF running[g] = "right" /\ SourceRight(g, op) THEN TileOf(op) ELSE Garbage

KernelFinish(g) ==
    /\ Doing(g, "launch")
    /\ running[g] # "idle"
    /\ Fill(g, Next1(g), Outcome(g, Next1(g)))
    /\ Pop(g)
    /\ running' = [running EXCEPT ![g] = "idle"]
    /\ executed' = [executed EXCEPT ![g].finished = @ + 1]
    /\ UNCHANGED <<plan, recorded, completed, host, invocation, failed, input>>

----------------------------------------------------------------------------
\* The plan is destroyed and the callers' streams have drained.
Terminated ==
    /\ host.phase = "released"
    /\ Drained(Stream)
    /\ UNCHANGED pvars

\* What the thread inside enqueue does without waiting for anybody.
HostStep == EnqueueGroup \/ End

GroupStep(g) == Sync(g) \/ KernelStart(g) \/ KernelFinish(g)

CallerStep(c) == Sync(c) \/ Upload(c) \/ Use(c)

Next ==
    \/ \E c \in Caller : Begin(c) \/ CallerStep(c)
    \/ HostStep
    \/ LaunchFails
    \/ Release
    \/ \E g \in Group : GroupStep(g)
    \/ Terminated

Spec == Init /\ [][Next]_pvars

----------------------------------------------------------------------------
(* Properties.                                                             *)

Tag == (0 .. Invocations) \X (0 .. Batch - 1)

\* Types: the offset and group of a call stay inside the batch and the plan,
\* every slot and output holds a tile's tag, and a group has finished at most
\* one launch fewer than it has started.
TypeOK ==
    /\ host.phase \in {"idle", "tiles", "end", "released"}
    /\ host.phase = "tiles" => host.offset \in 0 .. Batch - 1 /\ host.group \in Group
    /\ invocation \in 0 .. Invocations
    /\ failed \subseteq 1 .. invocation
    /\ running \in [Group -> {"idle", "right", "wrong"}]
    /\ slots \in [Boundary -> [{0, 1} -> Tag]]
    /\ input \in [Caller -> 0 .. Invocations]
    /\ output \in [Caller -> [0 .. Batch - 1 -> Tag]]
    /\ \A g \in Group :
           executed[g].started - executed[g].finished = IF running[g] = "idle" THEN 0 ELSE 1
    /\ \A e \in Event : \A n \in 1 .. recorded[e] :
           <<e, n>> \in completed \/ \E s \in Stream :
               \E i \in DOMAIN queue[s] :
                   queue[s][i].kind = "record" /\ queue[s][i].mark = <<e, n>>

\* When the caller's stream reaches the caller's use of an output, every
\* transform in it is the one this invocation computed from this input: the
\* last group of every tile is done, no earlier tile of another caller shares
\* its slots and no later upload replaced the input (enqueue, lines 49-72).
ResultsReady ==
    \A c \in Caller :
        Doing(c, "use") =>
            \A x \in 0 .. Batch - 1 :
                output[c][x] = <<Next1(c).invocation, (x \div TileBatch) * TileBatch>>

Position(op) == op.invocation * Batch + op.offset

\* While a launch fills a slot no earlier launch that reads this slot is
\* still pending or running: "A slot is never overwritten until its consumer
\* (including transpose) finishes" (lines 12 and 59-62).
SlotReuse ==
    \A b \in Boundary :
        running[b] # "idle" =>
            \A i \in DOMAIN queue[b + 1] :
                LET op == queue[b + 1][i]
                IN  (op.kind = "launch" /\ op.slot = Next1(b).slot)
                        => Position(op) >= Position(Next1(b))

\* Whatever a caller enqueued is executed in the end: the waits among the
\* streams, captured at the time of the call, are never circular.
CallersServed == \A c \in Caller : Busy(c) ~> ~Busy(c)

\* The tiles of an invocation.
TilesEach == (Batch + TileBatch - 1) \div TileBatch
=============================================================================
