--------------------------- MODULE FactorPipeline ---------------------------
(***************************************************************************)
(* FactorPipeline (src/factor_pipeline.cuh): slices of one transform flow  *)
(* through one stream per physical factor.  Each edge between two factors  *)
(* has its own full-array scratch and one ready event per slice; the last  *)
(* factor is launched once, behind the last event of the last edge.        *)
(*                                                                         *)
(* A value is the invocation it was computed for, 0 when it is garbage; a  *)
(* launch is two steps of its stream, as in BatchPipeline.                 *)
(***************************************************************************)
EXTENDS CudaStreams

CONSTANTS
    Plans,          \* the plans that may run
    Caller,         \* caller streams, each with its own input and output
    Invocations     \* bound: enqueue calls

VARIABLE plan       \* the plan that runs

Groups == plan.groups       \* the physical factors, a stream each
Slices == plan.slices       \* factor_slices
Address == plan.addresses   \* the elements of an array: the transforms of the batch
Reads == plan.reads         \* per factor and slice, the addresses that its launch
Writes == plan.writes       \* loads and stores (FactorGeometry)
MayFail == plan.mayFail     \* whether a launch may be refused (enqueue throws)

Group == 0 .. Groups - 1
Last == Groups - 1
Slice == 0 .. Slices - 1
Edge == 0 .. Groups - 2

begin == <<"begin", 0, 0>>
finish == <<"done", 0, 0>>
ready(e, slice) == <<"ready", e, slice>>

EventsOf(groups, slices) ==
    {begin, finish} \cup ({"ready"} \X (0 .. groups - 2) \X (0 .. slices - 1))

\* What the digit rotations give a plan (factor_tile_range, lines 7-10): the slices
\* of an edge are disjoint, a slice of a factor reads what the same slice of the one
\* before has written, and the last factor, launched once, reads what all slices of
\* its predecessor have written and writes everything.
DependencyClosed(p) ==
    /\ p.reads \in [0 .. p.groups - 1 -> [0 .. p.slices - 1 -> SUBSET p.addresses]]
    /\ p.writes \in [0 .. p.groups - 1 -> [0 .. p.slices - 1 -> SUBSET p.addresses]]
    /\ \A e \in 0 .. p.groups - 2 : \A s, t \in 0 .. p.slices - 1 :
           s # t => p.writes[e][s] \cap p.writes[e][t] = {}
    /\ \A e \in 0 .. p.groups - 3 : \A s \in 0 .. p.slices - 1 :
           p.reads[e + 1][s] \subseteq p.writes[e][s]
    /\ \A a \in p.reads[p.groups - 1][0] : \E s \in 0 .. p.slices - 1 : a \in p.writes[p.groups - 2][s]
    /\ p.writes[p.groups - 1][0] = p.addresses

\* Assumed by the module that chooses the plans.
ValidPlans ==
    /\ Invocations \in Nat \ {0}
    /\ \A p \in Plans :
        /\ {p.groups, p.slices} \subseteq Nat \ {0, 1}
        /\ DependencyClosed(p)
        /\ p.mayFail \in BOOLEAN
        /\ (0 .. p.groups - 1) \cup Caller \subseteq Stream
        /\ (0 .. p.groups - 1) \cap Caller = {}
        /\ EventsOf(p.groups, p.slices) \subseteq Event

VARIABLES
    host,         \* the thread inside enqueue, or idle
    invocation,   \* enqueue calls so far
    failed,       \* the invocations whose enqueue threw
    running,      \* per group: idle, or executing the launch at its stream's head
                  \* whose operands were right or wrong when it started
    scratch,      \* per scratch buffer and address: the invocation of its value
    input,        \* per caller: the invocation whose input it holds
    output        \* per caller and address

fvars == <<plan, queue, recorded, completed, host, invocation, failed, running, scratch,
           input, output>>

Idle == [phase |-> "idle"]

Init ==
    /\ plan \in Plans
    /\ StreamsInit
    /\ host = Idle
    /\ invocation = 0
    /\ failed = {}
    /\ running = [g \in Group |-> "idle"]
    /\ scratch = [e \in Edge |-> [a \in Address |-> 0]]
    /\ input = [c \in Caller |-> 0]
    /\ output = [c \in Caller |-> [a \in Address |-> 0]]

----------------------------------------------------------------------------
(* The host.                                                               *)

Begin(c) ==
    /\ host = Idle
    /\ invocation < Invocations
    /\ invocation' = invocation + 1
    /\ queue' = [s \in Stream |->
            IF s = c
            THEN queue[c] \o << [kind |-> "upload", invocation |-> invocation + 1],
                                Wait(finish), Record(begin) >>
            ELSE IF s \in Group THEN Append(queue[s], WaitNew(begin))
            ELSE queue[s]]
    /\ recorded' = Recording({begin})
    /\ host' = [phase |-> "slices", caller |-> c, slice |-> 0, group |-> 0]
    /\ UNCHANGED <<plan, completed, failed, running, scratch, input, output>>

Launch(g, slice) ==
    [kind |-> "launch", invocation |-> invocation, caller |-> host.caller, slice |-> slice]

SliceWait(g, slice) == IF g # 0 THEN <<Wait(ready(g - 1, slice))>> ELSE <<>>

\* The loops: all groups but the last within a slice, then the next slice.
Advance ==
    host' = IF host.group < Groups - 2
            THEN [host EXCEPT !.group = @ + 1]
            ELSE IF host.slice < Slices - 1
            THEN [host EXCEPT !.group = 0, !.slice = @ + 1]
            ELSE [host EXCEPT !.phase = "last"]

EnqueueSlice ==
    LET g == host.group
        slice == host.slice
    IN  /\ host.phase = "slices"
        /\ queue' = [queue EXCEPT ![g] = @ \o SliceWait(g, slice)
                                           \o << Launch(g, slice), Record(ready(g, slice)) >>]
        /\ recorded' = Recording({ready(g, slice)})
        /\ Advance
        /\ UNCHANGED <<plan, completed, invocation, failed, running, scratch, input, output>>

\* Mutant: the last factor waits for the first slice of the last edge.
FanInFirst == ready(Last - 1, 0)

\* The event that covers every slice of the last edge.
FanIn == ready(Last - 1, Slices - 1)

\* The last factor, done_ and the caller's wait; the caller then enqueues its
\* use of the output.
EnqueueLast ==
    /\ host.phase = "last"
    /\ queue' = [queue EXCEPT
            ![Last] = @ \o << Wait(FanIn), Launch(Last, 0), Record(finish) >>,
            ![host.caller] = @ \o << WaitNew(finish),
                                     [kind |-> "use", invocation |-> invocation] >>]
    /\ recorded' = Recording({finish})
    /\ host' = Idle
    /\ UNCHANGED <<plan, completed, invocation, failed, running, scratch, input, output>>

\* A launch is refused: enqueue throws and what it enqueued stays.
LaunchFails ==
    /\ MayFail
    /\ \/ /\ host.phase = "slices"
          /\ queue' = [queue EXCEPT ![host.group] = @ \o SliceWait(host.group, host.slice)]
       \/ /\ host.phase = "last"
          /\ queue' = [queue EXCEPT ![Last] = Append(@, Wait(FanIn))]
    /\ failed' = failed \cup {invocation}
    /\ host' = Idle
    /\ UNCHANGED <<plan, recorded, completed, invocation, running, scratch, input, output>>

\* release(): the destructor synchronises every factor's stream.
Release ==
    /\ host = Idle
    /\ invocation = Invocations
    /\ Drained(Group)
    /\ host' = [phase |-> "released"]
    /\ UNCHANGED <<plan, queue, recorded, completed, invocation, failed, running, scratch, input, output>>

----------------------------------------------------------------------------
(* The device.                                                             *)

Sync(s) ==
    /\ PassWait(s) \/ PassRecord(s)
    /\ UNCHANGED <<plan, host, invocation, failed, running, scratch, input, output>>

Upload(c) ==
    /\ Doing(c, "upload")
    /\ input' = [input EXCEPT ![c] = Next1(c).invocation]
    /\ Pop(c)
    /\ UNCHANGED <<plan, recorded, completed, host, invocation, failed, running, scratch, output>>

Use(c) ==
    /\ Doing(c, "use")
    /\ Pop(c)
    /\ UNCHANGED <<plan, recorded, completed, host, invocation, failed, running, scratch, input, output>>

\* Mutant: ping-pong storage, as the group-by-group launcher uses it.
EdgeBufferPingPong(e) == e % 2

\* The scratch of an edge.
EdgeBuffer(e) == e

Operand(g, op, a) ==
    IF g = 0 THEN input[op.caller] ELSE scratch[EdgeBuffer(g - 1)][a]

OperandsRight(g, op) == \A a \in Reads[g][op.slice] : Operand(g, op, a) = op.invocation

Fill(g, op, value) ==
    IF g # Last
    THEN /\ scratch' = [scratch EXCEPT ![EdgeBuffer(g)] =
                [a \in Address |-> IF a \in Writes[g][op.slice] THEN value ELSE @[a]]]
         /\ UNCHANGED output
    ELSE /\ output' = [output EXCEPT ![op.caller] =
                [a \in Address |-> IF a \in Writes[g][op.slice] THEN value ELSE @[a]]]
         /\ UNCHANGED scratch

KernelStart(g) ==
    /\ Doing(g, "launch")
    /\ running[g] = "idle"
    /\ running' = [running EXCEPT ![g] = IF OperandsRight(g, Next1(g)) THEN "right" ELSE "wrong"]
    /\ Fill(g, Next1(g), 0)
    /\ UNCHANGED <<plan, queue, recorded, completed, host, invocation, failed, input>>

Outcome(g, op) == IF running[g] = "right" /\ OperandsRight(g, op) THEN op.invocation ELSE 0

KernelFinish(g) ==
    /\ Doing(g, "launch")
    /\ running[g] # "idle"
    /\ Fill(g, Next1(g), Outcome(g, Next1(g)))
    /\ Pop(g)
    /\ running' = [running EXCEPT ![g] = "idle"]
    /\ UNCHANGED <<plan, recorded, completed, host, invocation, failed, input>>

----------------------------------------------------------------------------
Terminated ==
    /\ host.phase = "released"
    /\ Drained(Stream)
    /\ UNCHANGED fvars

HostStep == EnqueueSlice \/ EnqueueLast

GroupStep(g) == Sync(g) \/ KernelStart(g) \/ KernelFinish(g)

CallerStep(c) == Sync(c) \/ Upload(c) \/ Use(c)

Next ==
    \/ \E c \in Caller : Begin(c) \/ CallerStep(c)
    \/ HostStep
    \/ LaunchFails
    \/ Release
    \/ \E g \in Group : GroupStep(g)
    \/ Terminated

Spec == Init /\ [][Next]_fvars

----------------------------------------------------------------------------
(* Properties.                                                             *)

\* Types: a call stays inside the slices and the edges, and every operation a
\* stream holds is of a kind that stream executes.
TypeOK ==
    /\ host.phase \in {"idle", "slices", "last", "released"}
    /\ host.phase = "slices" => host.slice \in Slice /\ host.group \in Edge
    /\ invocation \in 0 .. Invocations
    /\ failed \subseteq 1 .. invocation
    /\ running \in [Group -> {"idle", "right", "wrong"}]
    /\ scratch \in [Edge -> [Address -> 0 .. Invocations]]
    /\ input \in [Caller -> 0 .. Invocations]
    /\ output \in [Caller -> [Address -> 0 .. Invocations]]
    /\ \A g \in Group : \A i \in DOMAIN queue[g] :
           queue[g][i].kind \in {"wait", "record", "launch"}

\* When the caller's stream reaches the use of an output, every position of
\* it was computed from this invocation's input through every factor: the
\* slices are closed under the digit rotations, the last factor's single event
\* covers all of them, and no two edges disturb each other (lines 7-10, 52-57).
ResultsReady ==
    \A c \in Caller :
        Doing(c, "use") => \A a \in Address : output[c][a] = Next1(c).invocation

\* The cells <<buffer, address>> of a launch; Groups and Groups + 1 stand for
\* the caller's input and output.
ReadCells(g, op) == {IF g = 0 THEN Groups ELSE EdgeBuffer(g - 1)} \X Reads[g][op.slice]

WriteCells(g, op) == {IF g = Last THEN Groups + 1 ELSE EdgeBuffer(g)} \X Writes[g][op.slice]

\* Two launches that run at the same time touch disjoint data: neither writes
\* what the other reads or writes, within an edge or between edges (lines
\* 8-10: "slices on an edge are disjoint").
NoConflict ==
    \A g, h \in Group :
        (g # h /\ running[g] # "idle" /\ running[h] # "idle") =>
            WriteCells(g, Next1(g))
                \cap (ReadCells(h, Next1(h)) \cup WriteCells(h, Next1(h))) = {}

\* Whatever a caller enqueued is executed in the end.
CallersServed == \A c \in Caller : Busy(c) ~> ~Busy(c)
=============================================================================
