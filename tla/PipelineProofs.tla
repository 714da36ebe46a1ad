--------------------------- MODULE PipelineProofs ---------------------------
(***************************************************************************)
(* The two stream schedulers, BatchPipeline::enqueue and                   *)
(* FactorPipeline::enqueue, for every number of groups or factors, of      *)
(* callers, events, invocations and slices, every batch and tile, plans    *)
(* whose launches may throw included: an output that is used holds its own *)
(* invocation's result, no running launch writes what another reads or     *)
(* writes, and overlapped batches implement the two-slot dataflow of       *)
(* BatchDataflow.                                                          *)
(*                                                                         *)
(* Part one knows of neither scheduler.  An operation of a stream is       *)
(* behind an operation of another when a wait ahead of the one names a     *)
(* record that follows the other; what is behind, directly or through the  *)
(* caller's begin record, cannot overtake.  CallInv says which operations  *)
(* are behind which, and is kept by four kinds of steps: begin, an enqueue,*)
(* a pop, and a step that leaves the streams alone.  Part two shows that   *)
(* every step of the schedulers is of one of these kinds, and that the     *)
(* values in slots, scratch buffers and outputs are what the order of the  *)
(* launches makes them.                                                    *)
(***************************************************************************)
EXTENDS MCPipelines, TLAPS

----------------------------------------------------------------------------
(* Streams and marks.                                                      *)

Mark == Event \X Nat

SyncOperation == [kind : {"wait"}, on : Mark] \cup [kind : {"record"}, mark : Mark]

CallerOperation == [kind : {"upload", "use"}, invocation : Nat]

BatchLaunch ==
    [kind : {"launch"}, invocation : Nat, caller : Caller, offset : Nat, slot : {0, 1}]

FactorLaunch ==
    [kind : {"launch"}, invocation : Nat, caller : Caller, slice : Nat]

Operation ==
    SyncOperation \cup CallerOperation \cup (IF OfFactors THEN FactorLaunch ELSE BatchLaunch)

Ops(s) == 1 .. Len(queue[s])

Is(s, i, kind) == i \in Ops(s) /\ queue[s][i].kind = kind

\* The operation i of stream s is held back by a wait before it, for a record
\* behind the operation j of stream t.
Behind(s, i, t, j) ==
    \E k \in 1 .. i - 1, l \in Ops(t) :
        l > j /\ Is(s, k, "wait") /\ Is(t, l, "record") /\ queue[s][k].on = queue[t][l].mark

\* The same, through the begin record of a caller.
BehindCaller(s, i, t, j) ==
    \E c \in Caller : \E k \in 1 .. i - 1, l \in Ops(c) :
        /\ Is(s, k, "wait") /\ Is(c, l, "record") /\ queue[s][k].on = queue[c][l].mark
        /\ Behind(c, l, t, j)

\* Whatever is enqueued in s from now on is behind the operation j of t.
Held(s, t, j) ==
    \E k \in Ops(s), l \in Ops(t) :
        l > j /\ Is(s, k, "wait") /\ Is(t, l, "record") /\ queue[s][k].on = queue[t][l].mark

HeldCaller(s, t, j) ==
    \E c \in Caller : \E k \in Ops(s), l \in Ops(c) :
        /\ Is(s, k, "wait") /\ Is(c, l, "record") /\ queue[s][k].on = queue[c][l].mark
        /\ Behind(c, l, t, j)

\* The latest record of e is behind the operation i of s.
RecordAfter(s, i, e) ==
    \E l \in Ops(s) : l > i /\ Is(s, l, "record") /\ queue[s][l].mark = <<e, recorded[e]>>

StreamTypes ==
    /\ queue \in [Stream -> Seq(Operation)]
    /\ recorded \in [Event -> Nat]
    /\ \A m \in completed : m \in Mark /\ m[2] <= recorded[m[1]]

\* A record that is still in a stream has not been executed, and no two are alike.
RecordsPending ==
    \A s \in Stream : \A i \in Ops(s) : Is(s, i, "record") =>
        /\ queue[s][i].mark[2] \in 1 .. recorded[queue[s][i].mark[1]]
        /\ queue[s][i].mark \notin completed

RecordsUnique ==
    \A s, t \in Stream : \A i \in Ops(s), j \in Ops(t) :
        Is(s, i, "record") /\ Is(t, j, "record") /\ queue[s][i].mark = queue[t][j].mark
            => s = t /\ i = j

StreamInv == StreamTypes /\ RecordsPending /\ RecordsUnique

----------------------------------------------------------------------------
(* Calls and the pieces of their work: the tiles of the batch pipeline, the *)
(* slices of the factor pipeline, whose last factor takes them together.   *)

Offset == {o \in 0 .. Batch - 1 : o % TileBatch = 0}

Piece == IF OfFactors THEN Digits!Slice ELSE Offset

Covers(g, op, p) ==
    IF OfFactors THEN p \in Digits!Slice /\ (g = Last \/ p = op.slice) ELSE p = op.offset

\* A call is being enqueued.
Active == host.phase \in {"tiles", "end", "slices", "last"}

\* An invocation whose enqueue has returned.
Ended(v) == v \in 1 .. invocation /\ v \notin failed /\ (v = invocation => ~Active)

\* The call has enqueued the piece p in group g.
HostPast(g, p) ==
    CASE host.phase = "tiles" -> p < host.offset \/ (p = host.offset /\ g < host.group)
      [] host.phase = "slices" ->
            g < Last /\ (p < host.slice \/ (p = host.slice /\ g < host.group))
      [] host.phase = "last" -> g < Last
      [] OTHER -> TRUE

Passed(g, v, p) ==
    v \in 1 .. invocation /\ v \notin failed /\ p \in Piece /\ (v = invocation => HostPast(g, p))

LaunchOf(g, i, v, p) ==
    Is(g, i, "launch") /\ queue[g][i].invocation = v /\ Covers(g, queue[g][i], p)

Pending(g, v, p) == \E i \in Ops(g) : LaunchOf(g, i, v, p)

Before(v, p, w, q) == v < w \/ (v = w /\ p < q)

CallTypes ==
    /\ plan \in (IF OfFactors THEN FactorPlans ELSE Plans)
    /\ invocation \in 0 .. Invocations
    /\ failed \subseteq 1 .. invocation
    /\ ~MayFail => failed = {}
    /\ input \in [Caller -> Nat]
    /\ \/ host \in {Idle, [phase |-> "released"]}
       \/ ~OfFactors /\ host \in [phase : {"tiles", "end"}, caller : Caller, offset : Offset,
                                  group : Group]
       \/ OfFactors /\ host \in [phase : {"slices", "last"}, caller : Caller,
                                 slice : Digits!Slice, group : Boundary]
    /\ Active => invocation \in 1 .. Invocations /\ invocation \notin failed

GroupOps ==
    \A g \in Group : \A i \in Ops(g) : Is(g, i, "launch") =>
        /\ queue[g][i].invocation \in 1 .. invocation
        /\ ~OfFactors => /\ queue[g][i].offset \in Offset
                         /\ queue[g][i].slot = SlotOf(queue[g][i].offset)
        /\ OfFactors => queue[g][i].slice \in (IF g = Last THEN {0} ELSE Digits!Slice)
        /\ queue[g][i].invocation = invocation /\ Active => queue[g][i].caller = host.caller

CallerOps ==
    \A c \in Caller : \A i \in Ops(c) :
        /\ Is(c, i, "upload") => queue[c][i].invocation \in 1 .. invocation
        /\ Is(c, i, "use") => Ended(queue[c][i].invocation)

\* All launches of an invocation, and the use of its output, name the same caller.
SameCaller ==
    \A g \in Group : \A i \in Ops(g) : Is(g, i, "launch") =>
        /\ \A h \in Group : \A j \in Ops(h) :
               Is(h, j, "launch") /\ queue[g][i].invocation = queue[h][j].invocation
                   => queue[g][i].caller = queue[h][j].caller
        /\ \A c \in Caller : \A j \in Ops(c) :
               Is(c, j, "use") /\ queue[g][i].invocation = queue[c][j].invocation
                   => queue[g][i].caller = c

\* A use comes after the last group's launches of its invocation, ...
UseAfter(s, a, t, b) ==
    a.kind = "use" /\ b.kind = "launch" /\ s \in Caller /\ t = Last /\ a.invocation = b.invocation

\* ... an upload after those of its caller's earlier invocations, ...
UploadAfter(s, a, t, b) ==
    /\ a.kind = "upload" /\ b.kind = "launch" /\ t = Last /\ b.caller = s
    /\ b.invocation < a.invocation /\ b.invocation \notin failed

\* ... a launch after what its caller enqueued before, ...
LaunchAfter(s, a, t, b) ==
    /\ a.kind = "launch" /\ s \in Group /\ t = a.caller
    /\ \/ b.kind = "upload" /\ b.invocation <= a.invocation
       \/ b.kind = "use" /\ b.invocation < a.invocation

\* ... after the launches of the group before for its piece and all earlier ones, ...
ReadAfter(s, a, t, b) ==
    /\ a.kind = "launch" /\ b.kind = "launch" /\ t \in Group /\ s \in Group /\ s = t + 1
    /\ \E p, q \in Piece :
           Covers(s, a, p) /\ Covers(t, b, q) /\ ~Before(a.invocation, p, b.invocation, q)

\* ... and after the launches that read the slot it fills.
FillAfter(s, a, t, b) ==
    /\ ~OfFactors /\ a.kind = "launch" /\ b.kind = "launch"
    /\ t \in Group /\ s \in Group /\ t = s + 1
    /\ a.invocation = b.invocation /\ a.slot = b.slot /\ b.offset < a.offset

After(s, a, t, b) ==
    \/ UseAfter(s, a, t, b) \/ UploadAfter(s, a, t, b) \/ LaunchAfter(s, a, t, b)
    \/ ReadAfter(s, a, t, b) \/ FillAfter(s, a, t, b)

Ordered ==
    \A s, t \in Stream : \A i \in Ops(s), j \in Ops(t) :
        After(s, queue[s][i], t, queue[t][j]) => Behind(s, i, t, j)

\* A launch, and any launch the host adds to the call in progress, comes after the
\* last group's launches of all earlier invocations.
Fenced ==
    \A g \in Group : \A i \in Ops(g), j \in Ops(Last) :
        /\ Is(g, i, "launch") /\ Is(Last, j, "launch")
        /\ queue[Last][j].invocation < queue[g][i].invocation
        /\ queue[Last][j].invocation \notin failed
        => BehindCaller(g, i, Last, j)

HostFenced ==
    Active => \A g \in Group :
        /\ \A j \in Ops(Last) :
               /\ Is(Last, j, "launch") /\ queue[Last][j].invocation < invocation
               /\ queue[Last][j].invocation \notin failed
               => HeldCaller(g, Last, j)
        /\ \A c \in Caller : \A j \in Ops(c) :
               c = host.caller /\ (Is(c, j, "upload") \/ Is(c, j, "use")) => Held(g, c, j)

\* The latest done is behind the launches of all invocations that have ended, and
\* their callers wait for it.
DoneLatest ==
    \A j \in Ops(Last) :
        Is(Last, j, "launch") /\ Ended(queue[Last][j].invocation) =>
            /\ RecordAfter(Last, j, done)
            /\ \A c \in Caller : c = queue[Last][j].caller => Held(c, Last, j)

\* The latest record of the event that the next group waits for is behind every
\* launch of this one.
ReadyLatest ==
    \A g \in Boundary : \A i \in Ops(g) : Is(g, i, "launch") =>
        /\ host.phase = "tiles" /\ g < host.group => RecordAfter(g, i, ready(g, SlotOf(host.offset)))
        /\ host.phase = "slices" /\ g < host.group => RecordAfter(g, i, ready(g, host.slice))
        /\ host.phase = "last" /\ g = Last - 1 => RecordAfter(g, i, Digits!FanIn)

Sorted ==
    \A g \in Group : \A i, j \in Ops(g) : \A v, w, p, q :
        i < j /\ LaunchOf(g, i, v, p) /\ LaunchOf(g, j, w, q) => Before(v, p, w, q)

LaunchPassed ==
    \A g \in Group : \A i \in Ops(g) : \A v, p :
        LaunchOf(g, i, v, p) /\ v \notin failed => Passed(g, v, p)

\* No launch was overtaken, ...
Fifo ==
    \A g \in Group : \A i \in Ops(g) : \A v, p, w, q :
        Passed(g, v, p) /\ LaunchOf(g, i, w, q) /\ Before(w, q, v, p) => Pending(g, v, p)

\* ... and none is done in a group while a group before still has it.
Downstream ==
    \A g, h \in Group : \A v, p :
        g < h /\ Pending(g, v, p) /\ Passed(h, v, p) => Pending(h, v, p)

OrderInv == Sorted /\ LaunchPassed /\ Fifo /\ Downstream

\* The input of a call in progress, or of one that the first group still has, is the
\* latest that its caller's stream has uploaded by then.
Uploaded(v, c) ==
    \/ /\ input[c] = v
       /\ \A j \in Ops(c) : Is(c, j, "upload") => queue[c][j].invocation > v
    \/ \E i \in Ops(c) :
           /\ Is(c, i, "upload") /\ queue[c][i].invocation = v
           /\ \A j \in Ops(c) : Is(c, j, "upload") /\ queue[c][j].invocation <= v => j <= i

InputTrue ==
    /\ Active => Uploaded(invocation, host.caller)
    /\ \A i \in Ops(0) : Is(0, i, "launch") /\ queue[0][i].invocation \notin failed
           => Uploaded(queue[0][i].invocation, queue[0][i].caller)

CallInv ==
    /\ CallTypes /\ StreamInv /\ GroupOps /\ CallerOps /\ SameCaller /\ Ordered /\ Fenced
    /\ HostFenced /\ DoneLatest /\ ReadyLatest /\ OrderInv /\ InputTrue

----------------------------------------------------------------------------
(* The batch pipeline.                                                     *)

BatchTypes ==
    /\ running \in [Group -> {"idle", "right", "wrong"}]
    /\ slots \in [Boundary -> [{0, 1} -> Nat \X Nat]]
    /\ output \in [Caller -> [0 .. Batch - 1 -> Nat \X Nat]]
    /\ executed \in [Group -> [started : Nat, finished : Nat]]

\* The latest record of a slot's consumption is behind every launch that reads it.
ConsumedLatest ==
    \A g \in Group \ {0} : \A i \in Ops(g) : Is(g, i, "launch") =>
        RecordAfter(g, i, consumed(g - 1, queue[g][i].slot))

SlotsTrue ==
    \A b \in Boundary : \A v, o :
        /\ Passed(b, v, o) /\ ~Pending(b, v, o)
        /\ Pending(b + 1, v, o) \/ ~Passed(b + 1, v, o)
        => slots[b][SlotOf(o)] = <<v, o>>

\* Somebody will use the output of the invocation.
Awaited(c, v) ==
    \/ Active /\ v = invocation /\ c = host.caller
    \/ \E i \in Ops(c) : Is(c, i, "use") /\ queue[c][i].invocation = v

OutputTrue ==
    \A c \in Caller : \A v, o :
        Passed(Last, v, o) /\ ~Pending(Last, v, o) /\ Awaited(c, v)
            => \A x \in o .. o + Count(o) - 1 : output[c][x] = <<v, o>>

RunningTrue ==
    \A g \in Group : running[g] # "idle" =>
        /\ Is(g, 1, "launch")
        /\ queue[g][1].invocation \notin failed => running[g] = "right"

BatchInv == BatchTypes /\ ConsumedLatest /\ SlotsTrue /\ OutputTrue /\ RunningTrue

\* The number of a tile, across invocations, and what the counters say of it.
Number(v, o) == (v - 1) * TilesEach + Tile(o)

CountTrue ==
    \A g \in Group :
        /\ executed[g].started = executed[g].finished + (IF running[g] = "idle" THEN 0 ELSE 1)
        /\ \A v \in 1 .. Invocations, o \in Offset :
               executed[g].finished <= Number(v, o) <=> (Passed(g, v, o) => Pending(g, v, o))

----------------------------------------------------------------------------
(* The factor pipeline.                                                    *)

FactorTypes ==
    /\ running \in [Group -> {"idle", "right", "wrong"}]
    /\ scratch \in [Boundary -> [Digits!Address -> Nat]]
    /\ output \in [Caller -> [Digits!Address -> Nat]]

ScratchTrue ==
    \A e \in Boundary : \A v, p :
        /\ Passed(e, v, p) /\ ~Pending(e, v, p)
        /\ Pending(e + 1, v, p) \/ ~Passed(e + 1, v, p)
        => \A a \in Digits!Writes[e][p] : scratch[e][a] = v

ResultTrue ==
    \A c \in Caller : \A v :
        Passed(Last, v, 0) /\ ~Pending(Last, v, 0) /\ Awaited(c, v)
            => \A a \in Digits!Address : output[c][a] = v

FactorInv == FactorTypes /\ ScratchTrue /\ ResultTrue /\ RunningTrue

----------------------------------------------------------------------------
(* Steps of the streams: the device removes the head of one, or the host   *)
(* appends to some.                                                        *)

Shift(s, u) == IF s = u THEN 1 ELSE 0

Popped(u) ==
    /\ u \in Stream /\ Len(queue[u]) >= 1
    /\ queue' \in [Stream -> Seq(Operation')]
    /\ \A s \in Stream : Len(queue'[s]) = Len(queue[s]) - Shift(s, u)
    /\ \A s \in Stream : \A i \in 1 .. Len(queue'[s]) : queue'[s][i] = queue[s][i + Shift(s, u)]
    /\ recorded' = recorded
    /\ completed' = completed \cup {m \in Mark : Is(u, 1, "record") /\ m = queue[u][1].mark}
    /\ Is(u, 1, "wait") => Happened(queue[u][1].on)

Grown ==
    /\ queue' \in [Stream -> Seq(Operation')]
    /\ \A s \in Stream : Len(queue'[s]) >= Len(queue[s])
    /\ \A s \in Stream : \A i \in Ops(s) : queue'[s][i] = queue[s][i]
    /\ completed' = completed
    /\ recorded' \in [Event -> Nat]
    /\ \A e \in Event : recorded'[e] >= recorded[e]

\* The operation i of s is new.
New(s, i) == i \in Len(queue[s]) + 1 .. Len(queue'[s])

NewRecords ==
    /\ \A s \in Stream, i \in Nat : New(s, i) /\ queue'[s][i].kind = "record" =>
           queue'[s][i].mark[2] \in recorded[queue'[s][i].mark[1]] + 1 .. recorded'[queue'[s][i].mark[1]]
    /\ \A s, t \in Stream, i, j \in Nat :
           /\ New(s, i) /\ New(t, j) /\ queue'[s][i].kind = "record" /\ queue'[t][j].kind = "record"
           /\ queue'[s][i].mark = queue'[t][j].mark
           => s = t /\ i = j

\* What an operation of a stream carries.
LEMMA OperationTypes ==
    ASSUME StreamTypes, NEW s \in Stream, NEW i \in Ops(s)
    PROVE  /\ queue[s][i] \in Operation
           /\ Len(queue[s]) \in Nat
           /\ Is(s, i, "record") => queue[s][i].mark \in Mark
           /\ Is(s, i, "wait") => queue[s][i].on \in Mark
           /\ ~Is(s, i, "record") /\ ~Is(s, i, "wait") => queue[s][i].invocation \in Nat
           /\ Is(s, i, "launch") =>
                /\ queue[s][i].caller \in Caller
                /\ OfFactors => queue[s][i].slice \in Nat
                /\ ~OfFactors => queue[s][i].offset \in Nat /\ queue[s][i].slot \in {0, 1}
<1>1. queue[s] \in Seq(Operation) /\ Len(queue[s]) \in Nat BY DEF StreamTypes
<1>2. queue[s][i] \in Operation BY <1>1 DEF Ops
<1>3. CASE OfFactors
  <2>1. queue[s][i] \in SyncOperation \cup CallerOperation \cup FactorLaunch
    BY <1>2, <1>3 DEF Operation
  <2>. QED BY <1>1, <1>2, <1>3, <2>1 DEF SyncOperation, CallerOperation, FactorLaunch, Is
<1>4. CASE ~OfFactors
  <2>1. queue[s][i] \in SyncOperation \cup CallerOperation \cup BatchLaunch
    BY <1>2, <1>4 DEF Operation
  <2>. QED BY <1>1, <1>2, <1>4, <2>1 DEF SyncOperation, CallerOperation, BatchLaunch, Is
<1>. QED BY <1>3, <1>4

\* Streams have a length.
LEMMA Lengths ==
    ASSUME StreamTypes
    PROVE  \A s \in Stream : Len(queue[s]) \in Nat
BY DEF StreamTypes

\* A stream that gives up its first operation leaves the streams well formed.
LEMMA StreamPop ==
    ASSUME StreamInv, NEW u, Popped(u), Operation' = Operation
    PROVE  StreamInv'
<1>. USE DEF StreamInv
<1>1. \A s \in Stream : Len(queue[s]) \in Nat /\ Len(queue'[s]) \in Nat
  BY DEF Popped, StreamTypes
<1>2. \A s \in Stream : \A i \in Ops(s)' :
        i + Shift(s, u) \in Ops(s) /\ queue'[s][i] = queue[s][i + Shift(s, u)]
  BY <1>1 DEF Popped, Ops, Shift
<1>3. StreamTypes'
  <2>1. \A m \in completed' : m \in Mark /\ m[2] <= recorded[m[1]]
    <3>1. Is(u, 1, "record") => queue[u][1].mark[2] <= recorded[queue[u][1].mark[1]]
      <4>. HAVE Is(u, 1, "record")
      <4>1. queue[u][1].mark \in Mark BY OperationTypes DEF Popped, Is
      <4>2. queue[u][1].mark[2] \in 1 .. recorded[queue[u][1].mark[1]]
        BY DEF RecordsPending, Is, Popped
      <4>. QED BY <4>1, <4>2 DEF Mark, StreamTypes
    <3>. QED BY <3>1 DEF StreamTypes, Popped
  <2>2. recorded' = recorded /\ queue' \in [Stream -> Seq(Operation')] BY DEF Popped
  <2>. QED BY <2>1, <2>2 DEF StreamTypes, Mark
<1>4. \A s \in Stream : \A i \in Ops(s)' : Is(s, i, "record")' => Is(s, i + Shift(s, u), "record")
  BY <1>2 DEF Is
<1>5. RecordsUnique'
  <2>. SUFFICES ASSUME NEW s \in Stream, NEW t \in Stream, NEW i \in Ops(s)', NEW j \in Ops(t)',
                       Is(s, i, "record")', Is(t, j, "record")',
                       queue'[s][i].mark = queue'[t][j].mark
                PROVE  s = t /\ i = j
    BY DEF RecordsUnique
  <2>1. Is(s, i + Shift(s, u), "record") /\ Is(t, j + Shift(t, u), "record") BY <1>4
  <2>2. s = t /\ i + Shift(s, u) = j + Shift(t, u) BY <1>2, <2>1 DEF RecordsUnique
  <2>3. i \in Nat /\ j \in Nat BY <1>1 DEF Ops
  <2>. QED BY <2>2, <2>3 DEF Shift
<1>6. RecordsPending'
  <2>. SUFFICES ASSUME NEW s \in Stream, NEW i \in Ops(s)', Is(s, i, "record")'
                PROVE  /\ queue'[s][i].mark[2] \in 1 .. recorded'[queue'[s][i].mark[1]]
                       /\ queue'[s][i].mark \notin completed'
    BY DEF RecordsPending
  <2>1. Is(s, i + Shift(s, u), "record") BY <1>4
  <2>2. /\ queue'[s][i].mark[2] \in 1 .. recorded[queue'[s][i].mark[1]]
        /\ queue'[s][i].mark \notin completed
    BY <1>2, <2>1 DEF RecordsPending
  <2>3. Is(u, 1, "record") => queue'[s][i].mark # queue[u][1].mark
    <3>. SUFFICES ASSUME Is(u, 1, "record"), queue'[s][i].mark = queue[u][1].mark PROVE FALSE
      OBVIOUS
    <3>1. s = u /\ i + Shift(s, u) = 1 BY <1>2, <2>1 DEF RecordsUnique, Is, Popped
    <3>. QED BY <3>1, <1>1 DEF Ops, Shift
  <2>. QED BY <2>2, <2>3 DEF Popped
<1>. QED BY <1>3, <1>5, <1>6

\* So does an enqueue whose records are new.
LEMMA StreamGrow ==
    ASSUME StreamInv, Grown, NewRecords, Operation' = Operation
    PROVE  StreamInv'
<1>. USE DEF StreamInv
<1>1. \A s \in Stream : Len(queue[s]) \in Nat /\ Len(queue'[s]) \in Nat
  BY DEF Grown, StreamTypes
<1>2. \A s \in Stream : \A i \in Ops(s)' : i \in Nat /\ (i \in Ops(s) \/ New(s, i))
  BY <1>1 DEF Ops, New
<1>3. StreamTypes'
  <2>1. \A m \in completed' : m \in Mark /\ m[2] <= recorded'[m[1]]
    BY DEF StreamTypes, Grown, Mark
  <2>. QED BY <2>1 DEF StreamTypes, Grown, Mark
<1>4. \A s \in Stream : \A i \in Ops(s) : 
        queue'[s][i] = queue[s][i] /\ (Is(s, i, "record")' => Is(s, i, "record"))
  BY DEF Grown, Is
<1>5. \A s \in Stream : \A i \in Ops(s)' : Is(s, i, "record")' =>
        /\ queue'[s][i].mark \in Mark
        /\ i \in Ops(s) => queue'[s][i].mark[2] \in 1 .. recorded[queue'[s][i].mark[1]]
        /\ New(s, i) => queue'[s][i].mark[2] > recorded[queue'[s][i].mark[1]]
        /\ queue'[s][i].mark[2] \in 1 .. recorded'[queue'[s][i].mark[1]]
  <2>. SUFFICES ASSUME NEW s \in Stream, NEW i \in Ops(s)', Is(s, i, "record")'
                PROVE  /\ queue'[s][i].mark \in Mark
                       /\ i \in Ops(s) => queue'[s][i].mark[2] \in 1 .. recorded[queue'[s][i].mark[1]]
                       /\ New(s, i) => queue'[s][i].mark[2] > recorded[queue'[s][i].mark[1]]
                       /\ queue'[s][i].mark[2] \in 1 .. recorded'[queue'[s][i].mark[1]]
    OBVIOUS
  <2>1. queue'[s][i].mark \in Mark
    <3>1. queue'[s][i] \in Operation' BY <1>3 DEF StreamTypes, Ops
    <3>2. queue'[s][i].kind = "record" BY DEF Is
    <3>3. queue'[s][i] \in SyncOperation \cup CallerOperation \cup FactorLaunch
            \/ queue'[s][i] \in SyncOperation \cup CallerOperation \cup BatchLaunch
      BY <3>1 DEF Operation
    <3>. QED BY <3>2, <3>3 DEF SyncOperation, CallerOperation, BatchLaunch, FactorLaunch
  <2>2. recorded[queue'[s][i].mark[1]] \in Nat /\ recorded'[queue'[s][i].mark[1]] \in Nat
        /\ recorded'[queue'[s][i].mark[1]] >= recorded[queue'[s][i].mark[1]]
    BY <2>1 DEF Mark, StreamTypes, Grown
  <2>3. i \in Ops(s) => queue'[s][i].mark[2] \in 1 .. recorded[queue'[s][i].mark[1]]
    BY <1>4 DEF RecordsPending
  <2>4. New(s, i) => queue'[s][i].mark[2] \in recorded[queue'[s][i].mark[1]] + 1 .. recorded'[queue'[s][i].mark[1]]
    BY <1>2 DEF NewRecords, Is
  <2>5. queue'[s][i].mark[2] \in Nat BY <2>1 DEF Mark
  <2>. QED BY <1>2, <2>1, <2>2, <2>3, <2>4, <2>5
<1>6. RecordsPending'
  <2>. SUFFICES ASSUME NEW s \in Stream, NEW i \in Ops(s)', Is(s, i, "record")'
                PROVE  queue'[s][i].mark \notin completed
    BY <1>5 DEF RecordsPending, Grown
  <2>1. CASE i \in Ops(s) BY <2>1, <1>4 DEF RecordsPending
  <2>2. CASE New(s, i)
    <3>1. queue'[s][i].mark[2] > recorded[queue'[s][i].mark[1]] /\ queue'[s][i].mark \in Mark BY <1>5, <2>2
    <3>2. queue'[s][i].mark[2] \in Nat /\ recorded[queue'[s][i].mark[1]] \in Nat
      BY <3>1 DEF Mark, StreamTypes
    <3>. QED BY <3>1, <3>2 DEF StreamTypes
  <2>. QED BY <1>2, <2>1, <2>2
<1>7. RecordsUnique'
  <2>. SUFFICES ASSUME NEW s \in Stream, NEW t \in Stream, NEW i \in Ops(s)', NEW j \in Ops(t)',
                       Is(s, i, "record")', Is(t, j, "record")',
                       queue'[s][i].mark = queue'[t][j].mark
                PROVE  s = t /\ i = j
    BY DEF RecordsUnique
  <2>0. queue'[s][i].mark[2] \in Nat /\ recorded[queue'[s][i].mark[1]] \in Nat
    BY <1>5 DEF Mark, StreamTypes
  <2>1. CASE i \in Ops(s) /\ j \in Ops(t)
    BY <2>1, <1>4 DEF RecordsUnique
  <2>2. CASE New(s, i) /\ New(t, j)
    BY <2>2, <1>2 DEF NewRecords, Is
  <2>3. CASE i \in Ops(s) /\ New(t, j) BY <2>0, <2>3, <1>5
  <2>4. CASE New(s, i) /\ j \in Ops(t) BY <2>0, <2>4, <1>5
  <2>. QED BY <1>2, <2>1, <2>2, <2>3, <2>4
<1>. QED BY <1>3, <1>6, <1>7

----------------------------------------------------------------------------
(* What is behind what stays so.                                           *)

\* An operation that is still in its stream after the head of u was removed.
LEMMA KeptPop ==
    ASSUME StreamInv, NEW u, Popped(u), NEW s \in Stream, NEW i \in Ops(s)'
    PROVE  /\ i \in Nat /\ i >= 1 /\ Shift(s, u) \in {0, 1}
           /\ i + Shift(s, u) \in Ops(s)
           /\ queue'[s][i] = queue[s][i + Shift(s, u)]
           /\ \A k : Is(s, i, k)' <=> Is(s, i + Shift(s, u), k)
BY Lengths DEF StreamInv, Popped, Ops, Shift, Is

\* An enqueue keeps what a stream holds, at its place.
LEMMA KeptGrow ==
    ASSUME StreamInv, Grown, NEW s \in Stream, NEW i \in Ops(s)
    PROVE  /\ i \in Nat /\ i >= 1
           /\ i \in Ops(s)'
           /\ queue'[s][i] = queue[s][i]
           /\ \A k : Is(s, i, k)' <=> Is(s, i, k)
<1>1. Len(queue[s]) \in Nat /\ Len(queue'[s]) \in Nat /\ Len(queue'[s]) >= Len(queue[s])
  BY DEF StreamInv, StreamTypes, Grown
<1>2. queue'[s][i] = queue[s][i] BY DEF Grown
<1>3. i \in Ops(s)' BY <1>1 DEF Ops
<1>. QED BY <1>1, <1>2, <1>3 DEF Is, Ops

\* A wait whose record has not been executed cannot be passed.
LEMMA WaitHolds ==
    ASSUME StreamInv, NEW u, Popped(u), NEW t \in Stream, NEW l \in Ops(t),
           Is(u, 1, "wait"), Is(t, l, "record"), queue[u][1].on = queue[t][l].mark
    PROVE  FALSE
<1>1. Happened(queue[t][l].mark) BY DEF Popped
<1>2. queue[t][l].mark[2] \in 1 .. recorded[queue[t][l].mark[1]] /\ queue[t][l].mark \notin completed
  BY DEF StreamInv, RecordsPending
<1>3. queue[t][l].mark \in Mark BY OperationTypes DEF StreamInv
<1>4. recorded[queue[t][l].mark[1]] \in Nat BY <1>3 DEF StreamInv, StreamTypes, Mark
<1>. QED BY <1>1, <1>2, <1>4 DEF Happened

\* A wait that held an operation back before a pop, and the record it waits for,
\* are still there after it: the wait cannot have been passed first.
LEMMA BehindPop ==
    ASSUME StreamInv, NEW u, Popped(u), NEW s \in Stream, NEW t \in Stream,
           NEW i \in Nat, NEW j \in Nat, j >= 1, Behind(s, i + Shift(s, u), t, j + Shift(t, u))
    PROVE  Behind(s, i, t, j)'
<1>0. Shift(s, u) \in {0, 1} /\ Shift(t, u) \in {0, 1} BY DEF Shift
<1>1. PICK k \in 1 .. (i + Shift(s, u)) - 1, l \in Ops(t) :
        /\ l > j + Shift(t, u) /\ Is(s, k, "wait") /\ Is(t, l, "record")
        /\ queue[s][k].on = queue[t][l].mark
  BY DEF Behind
<1>2. ~(s = u /\ k = 1) BY <1>1, WaitHolds
<1>3. k \in Nat /\ l \in Nat /\ k >= 1 /\ l <= Len(queue[t]) /\ k \in Ops(s)
      /\ Len(queue[s]) \in Nat /\ Len(queue[t]) \in Nat
  BY <1>0, <1>1, Lengths DEF Ops, Is, StreamInv
<1>4. k - Shift(s, u) \in Ops(s)' /\ l - Shift(t, u) \in Ops(t)'
  <2>1. Len(queue'[s]) = Len(queue[s]) - Shift(s, u) /\ Len(queue'[t]) = Len(queue[t]) - Shift(t, u)
    BY DEF Popped
  <2>2. k - Shift(s, u) >= 1 BY <1>2, <1>3 DEF Shift
  <2>. QED BY <1>0, <1>1, <1>3, <2>1, <2>2 DEF Ops
<1>5. Is(s, k - Shift(s, u), "wait")' /\ queue'[s][k - Shift(s, u)] = queue[s][k]
  <2>1. (k - Shift(s, u)) + Shift(s, u) = k BY <1>0, <1>3
  <2>. QED BY <1>1, <1>4, <2>1, KeptPop
<1>6. Is(t, l - Shift(t, u), "record")' /\ queue'[t][l - Shift(t, u)] = queue[t][l]
  <2>1. (l - Shift(t, u)) + Shift(t, u) = l BY <1>0, <1>3
  <2>. QED BY <1>1, <1>4, <2>1, KeptPop
<1>7. l - Shift(t, u) > j /\ k - Shift(s, u) \in 1 .. i - 1
  BY <1>0, <1>1, <1>2, <1>3 DEF Shift
<1>. QED BY <1>1, <1>4, <1>5, <1>6, <1>7 DEF Behind

\* An enqueue loses no order, ...
LEMMA BehindGrow ==
    ASSUME StreamInv, Grown, NEW s \in Stream, NEW t \in Stream, NEW i \in Nat, NEW j \in Nat,
           NEW m \in Nat, m >= i, Behind(s, i, t, j)
    PROVE  Behind(s, m, t, j)'
<1>1. PICK k \in 1 .. i - 1, l \in Ops(t) :
        /\ l > j /\ Is(s, k, "wait") /\ Is(t, l, "record")
        /\ queue[s][k].on = queue[t][l].mark
  BY DEF Behind
<1>2. k \in Ops(s) /\ k \in 1 .. m - 1 BY <1>1 DEF Is
<1>. QED BY <1>1, <1>2, KeptGrow DEF Behind

\* ... later operations of a stream are behind what earlier ones are behind, ...
LEMMA BehindMonotone ==
    ASSUME NEW s, NEW t, NEW i \in Nat, NEW j, NEW m \in Nat, m >= i, Behind(s, i, t, j)
    PROVE  Behind(s, m, t, j)
BY DEF Behind

\* ... and nothing holds back the head of a stream.
LEMMA BehindHead == ASSUME NEW s, NEW t, NEW j PROVE ~Behind(s, 1, t, j) /\ ~BehindCaller(s, 1, t, j)
BY DEF Behind, BehindCaller

\* The order through a caller's begin record survives a pop, ...
LEMMA BehindCallerPop ==
    ASSUME StreamInv, NEW u, Popped(u), NEW s \in Stream, NEW t \in Stream, Caller \subseteq Stream,
           NEW i \in Nat, NEW j \in Nat, j >= 1, BehindCaller(s, i + Shift(s, u), t, j + Shift(t, u))
    PROVE  BehindCaller(s, i, t, j)'
<1>0. Shift(s, u) \in {0, 1} BY DEF Shift
<1>a. PICK c \in Caller : \E k \in 1 .. (i + Shift(s, u)) - 1, l \in Ops(c) :
        /\ Is(s, k, "wait") /\ Is(c, l, "record") /\ queue[s][k].on = queue[c][l].mark
        /\ Behind(c, l, t, j + Shift(t, u))
  BY DEF BehindCaller
<1>1. PICK k \in 1 .. (i + Shift(s, u)) - 1, l \in Ops(c) :
        /\ Is(s, k, "wait") /\ Is(c, l, "record") /\ queue[s][k].on = queue[c][l].mark
        /\ Behind(c, l, t, j + Shift(t, u))
  BY <1>a
<1>c. c \in Stream /\ Shift(c, u) \in {0, 1} BY DEF Shift
<1>2. ~(s = u /\ k = 1) BY <1>1, <1>c, WaitHolds
<1>3. ~(c = u /\ l = 1) BY <1>1, BehindHead
<1>4. k \in Nat /\ l \in Nat /\ k >= 1 /\ l >= 1 /\ l <= Len(queue[c]) /\ k \in Ops(s)
      /\ Len(queue[s]) \in Nat /\ Len(queue[c]) \in Nat
  BY <1>0, <1>1, <1>c, Lengths DEF Ops, Is, StreamInv
<1>5. k - Shift(s, u) \in Ops(s)' /\ l - Shift(c, u) \in Ops(c)' /\ l - Shift(c, u) \in Nat
  BY <1>0, <1>c, <1>2, <1>3, <1>4 DEF Ops, Popped, Shift
<1>6. Is(s, k - Shift(s, u), "wait")' /\ queue'[s][k - Shift(s, u)] = queue[s][k]
  <2>1. (k - Shift(s, u)) + Shift(s, u) = k BY <1>0, <1>4
  <2>. QED BY <1>1, <1>5, <2>1, KeptPop
<1>7. Is(c, l - Shift(c, u), "record")' /\ queue'[c][l - Shift(c, u)] = queue[c][l]
      /\ (l - Shift(c, u)) + Shift(c, u) = l
  <2>1. (l - Shift(c, u)) + Shift(c, u) = l BY <1>c, <1>4
  <2>. QED BY <1>1, <1>c, <1>5, <2>1, KeptPop
<1>8. Behind(c, l - Shift(c, u), t, j)'
  <2>. DEFINE m == l - Shift(c, u)
  <2>1. m \in Nat /\ Behind(c, m + Shift(c, u), t, j + Shift(t, u)) BY <1>1, <1>5, <1>7
  <2>. HIDE DEF m
  <2>2. Behind(c, m, t, j)' BY <2>1, <1>c, BehindPop
  <2>. QED BY <2>2 DEF m
<1>9. k - Shift(s, u) \in 1 .. i - 1
  BY <1>0, <1>2, <1>4, <1>1 DEF Shift
<1>. QED BY <1>1, <1>5, <1>6, <1>7, <1>8, <1>9 DEF BehindCaller

\* ... and an enqueue.
LEMMA BehindCallerGrow ==
    ASSUME StreamInv, Grown, NEW s \in Stream, NEW t \in Stream, Caller \subseteq Stream,
           NEW i \in Nat, NEW j \in Nat, NEW m \in Nat, m >= i, BehindCaller(s, i, t, j)
    PROVE  BehindCaller(s, m, t, j)'
<1>a. PICK c \in Caller : \E k \in 1 .. i - 1, l \in Ops(c) :
        /\ Is(s, k, "wait") /\ Is(c, l, "record") /\ queue[s][k].on = queue[c][l].mark
        /\ Behind(c, l, t, j)
  BY DEF BehindCaller
<1>1. PICK k \in 1 .. i - 1, l \in Ops(c) :
        /\ Is(s, k, "wait") /\ Is(c, l, "record") /\ queue[s][k].on = queue[c][l].mark
        /\ Behind(c, l, t, j)
  BY <1>a
<1>2. k \in Ops(s) /\ k \in 1 .. m - 1 BY <1>1 DEF Is
<1>3. l \in Nat /\ l \in Ops(c)' BY <1>1, KeptGrow
<1>4. Behind(c, l, t, j)' BY <1>1, <1>3, BehindGrow
<1>. QED BY <1>1, <1>2, <1>3, <1>4, KeptGrow DEF BehindCaller

\* What a stream is held behind, it stays held behind by a pop, ...
LEMMA HeldPop ==
    ASSUME StreamInv, NEW u, Popped(u), NEW s \in Stream, NEW t \in Stream,
           NEW j \in Nat, j >= 1, Held(s, t, j + Shift(t, u))
    PROVE  Held(s, t, j)'
<1>1. PICK n \in Nat : n = Len(queue'[s]) + 1 /\ n + Shift(s, u) = Len(queue[s]) + 1
  <2>1. Len(queue'[s]) \in Nat /\ Len(queue'[s]) = Len(queue[s]) - Shift(s, u) /\ Len(queue[s]) \in Nat
    BY Lengths DEF Popped, StreamInv
  <2>2. Shift(s, u) \in {0, 1} BY DEF Shift
  <2>3. (Len(queue'[s]) + 1) + Shift(s, u) = Len(queue[s]) + 1 BY <2>1, <2>2
  <2>. QED BY <2>1, <2>3
<1>2. Behind(s, n + Shift(s, u), t, j + Shift(t, u)) BY <1>1, Lengths DEF Held, Behind, Ops, StreamInv
<1>3. Behind(s, n, t, j)' BY <1>2, BehindPop
<1>. QED BY <1>1, <1>3 DEF Held, Behind, Ops, Is

\* ... and by an enqueue.
LEMMA HeldGrow ==
    ASSUME StreamInv, Grown, NEW s \in Stream, NEW t \in Stream, NEW j \in Nat, Held(s, t, j)
    PROVE  Held(s, t, j)'
BY KeptGrow DEF Held

\* What is appended to a stream is behind what holds its end.
LEMMA HeldNew ==
    ASSUME StreamInv, Grown, NEW s \in Stream, NEW t \in Stream, NEW j \in Nat, Held(s, t, j),
           NEW i \in Nat, New(s, i)
    PROVE  Behind(s, i, t, j)'
<1>1. PICK k \in Ops(s), l \in Ops(t) :
        l > j /\ Is(s, k, "wait") /\ Is(t, l, "record") /\ queue[s][k].on = queue[t][l].mark
  BY DEF Held
<1>2. k \in 1 .. i - 1 BY Lengths DEF Ops, New, StreamInv
<1>. QED BY <1>1, <1>2, KeptGrow DEF Behind

\* The same through a caller's stream, for a pop ...
LEMMA HeldCallerPop ==
    ASSUME StreamInv, NEW u, Popped(u), NEW s \in Stream, NEW t \in Stream, Caller \subseteq Stream,
           NEW j \in Nat, j >= 1, HeldCaller(s, t, j + Shift(t, u))
    PROVE  HeldCaller(s, t, j)'
<1>1. PICK n \in Nat : n = Len(queue'[s]) + 1 /\ n + Shift(s, u) = Len(queue[s]) + 1
  <2>1. Len(queue'[s]) \in Nat /\ Len(queue'[s]) = Len(queue[s]) - Shift(s, u) /\ Len(queue[s]) \in Nat
    BY Lengths DEF Popped, StreamInv
  <2>2. Shift(s, u) \in {0, 1} BY DEF Shift
  <2>3. (Len(queue'[s]) + 1) + Shift(s, u) = Len(queue[s]) + 1 BY <2>1, <2>2
  <2>. QED BY <2>1, <2>3
<1>2. BehindCaller(s, n + Shift(s, u), t, j + Shift(t, u))
  BY <1>1, Lengths DEF HeldCaller, BehindCaller, Ops, StreamInv
<1>3. BehindCaller(s, n, t, j)' BY <1>2, BehindCallerPop
<1>. QED BY <1>1, <1>3 DEF HeldCaller, BehindCaller, Ops, Is

\* ... and for an enqueue, whose operations all inherit that order.
LEMMA HeldCallerGrow ==
    ASSUME StreamInv, Grown, NEW s \in Stream, NEW t \in Stream, Caller \subseteq Stream,
           NEW j \in Nat, HeldCaller(s, t, j)
    PROVE  /\ HeldCaller(s, t, j)'
           /\ \A i \in Nat : New(s, i) => BehindCaller(s, i, t, j)'
<1>a. PICK c \in Caller : \E k \in Ops(s), l \in Ops(c) :
        /\ Is(s, k, "wait") /\ Is(c, l, "record") /\ queue[s][k].on = queue[c][l].mark
        /\ Behind(c, l, t, j)
  BY DEF HeldCaller
<1>1. PICK k \in Ops(s), l \in Ops(c) :
        /\ Is(s, k, "wait") /\ Is(c, l, "record") /\ queue[s][k].on = queue[c][l].mark
        /\ Behind(c, l, t, j)
  BY <1>a
<1>2. \A i \in Nat : New(s, i) => k \in 1 .. i - 1 BY Lengths DEF Ops, New, StreamInv
<1>3. l \in Nat /\ l \in Ops(c)' BY <1>1, KeptGrow
<1>4. Behind(c, l, t, j)' BY <1>1, <1>3, BehindGrow
<1>. QED BY <1>1, <1>2, <1>3, <1>4, KeptGrow DEF BehindCaller, HeldCaller

\* The latest record of an event stays behind an operation when a stream pops, ...
LEMMA RecordAfterPop ==
    ASSUME StreamInv, NEW u, Popped(u), NEW s \in Stream, NEW i \in Nat, i >= 1, NEW e,
           RecordAfter(s, i + Shift(s, u), e)
    PROVE  RecordAfter(s, i, e)'
<1>1. PICK l \in Ops(s) : l > i + Shift(s, u) /\ Is(s, l, "record") /\ queue[s][l].mark = <<e, recorded[e]>>
  BY DEF RecordAfter
<1>2. l \in Nat /\ Len(queue[s]) \in Nat /\ l <= Len(queue[s]) BY <1>1, Lengths DEF Ops, StreamInv
<1>3. Shift(s, u) \in {0, 1} BY DEF Shift
<1>4. l - Shift(s, u) \in Ops(s)' /\ l - Shift(s, u) > i BY <1>1, <1>2, <1>3 DEF Ops, Popped
<1>5. (l - Shift(s, u)) + Shift(s, u) = l BY <1>2, <1>3
<1>6. Is(s, l - Shift(s, u), "record")' /\ queue'[s][l - Shift(s, u)] = queue[s][l]
  BY <1>1, <1>4, <1>5, KeptPop
<1>. QED BY <1>1, <1>4, <1>6 DEF RecordAfter, Popped

\* ... and when streams grow without recording that event.
LEMMA RecordAfterGrow ==
    ASSUME StreamInv, Grown, NEW s \in Stream, NEW i \in Nat, NEW e,
           recorded'[e] = recorded[e], RecordAfter(s, i, e)
    PROVE  RecordAfter(s, i, e)'
BY KeptGrow DEF RecordAfter

\* An operation enqueued behind a wait for the latest record of an event is behind
\* whatever that record is behind.
LEMMA WaitedFor ==
    ASSUME StreamInv, Grown, NEW s \in Stream, NEW t \in Stream, NEW i \in Nat, NEW j \in Ops(t),
           NEW k \in 1 .. i - 1, NEW e, Is(s, k, "wait")', queue'[s][k].on = <<e, recorded[e]>>,
           RecordAfter(t, j, e)
    PROVE  Behind(s, i, t, j)'
<1>1. PICK l \in Ops(t) : l > j /\ Is(t, l, "record") /\ queue[t][l].mark = <<e, recorded[e]>>
  BY DEF RecordAfter
<1>. QED BY <1>1, KeptGrow DEF Behind

\* The launch at the head of a stream is behind nothing any more.
LEMMA HeadFree ==
    ASSUME Ordered, Fenced, NEW g \in Group, Group \cup Caller \subseteq Stream, Is(g, 1, "launch"),
           Groups \in Nat, Groups >= 2
    PROVE  /\ \A t \in Stream : \A j \in Ops(t) : ~After(g, queue[g][1], t, queue[t][j])
           /\ \A j \in Ops(Last) : Is(Last, j, "launch") /\ queue[Last][j].invocation < queue[g][1].invocation
                => queue[Last][j].invocation \in failed
<1>1. 1 \in Ops(g) /\ g \in Stream BY DEF Is
<1>. QED BY <1>1, BehindHead DEF Ordered, Fenced

----------------------------------------------------------------------------
(* The plan.                                                               *)

\* The numbers and names of a plan, of either scheduler.
LEMMA PlanFacts ==
    ASSUME CallTypes
    PROVE  /\ Groups \in Nat /\ Groups >= 2 /\ Last = Groups - 1 /\ Last \in Group /\ 0 \in Group
           /\ Group \subseteq Nat /\ Boundary \subseteq Group
           /\ Group \cup Caller \subseteq Stream /\ Group \cap Caller = {}
           /\ {begin, done} \subseteq Event
           /\ Piece \subseteq Nat
           /\ ~OfFactors => /\ Batch \in Nat \ {0} /\ TileBatch \in Nat \ {0}
                            /\ \A b \in Boundary, q \in {0, 1} :
                                   ready(b, q) \in Event /\ consumed(b, q) \in Event
           /\ OfFactors => /\ Digits!Slices \in Nat /\ Digits!Slices >= 2
                           /\ \A b \in Boundary, p \in Digits!Slice : ready(b, p) \in Event
<1>1. Invocations \in Nat \ {0} BY PlansAssumption DEF ValidPlans
<1>2. CASE OfFactors
  <2>1. plan \in FactorPlans BY <1>2 DEF CallTypes
  <2>2. /\ {plan.groups, plan.slices} \subseteq Nat \ {0, 1}
        /\ (0 .. plan.groups - 1) \cup Caller \subseteq Stream
        /\ (0 .. plan.groups - 1) \cap Caller = {}
        /\ Digits!EventsOf(plan.groups, plan.slices) \subseteq Event
    BY <2>1, PlansAssumption DEF Digits!ValidPlans
  <2>3. \A b \in Boundary, p \in Digits!Slice : ready(b, p) \in Event
    BY <2>2 DEF Digits!EventsOf, Boundary, Groups, Digits!Slice, Digits!Slices, ready
  <2>4. {begin, done} \subseteq Event BY <2>2 DEF Digits!EventsOf, Digits!begin, Digits!finish, begin, done
  <2>5. Groups \in Nat /\ Groups >= 2 /\ Digits!Slices \in Nat /\ Digits!Slices >= 2
    BY <2>2 DEF Groups, Digits!Slices
  <2>6. Group \cup Caller \subseteq Stream /\ Group \cap Caller = {} BY <2>2 DEF Group, Groups
  <2>7. Piece \subseteq Nat BY <1>2, <2>5 DEF Piece, Digits!Slice
  <2>. QED BY <1>2, <2>3, <2>4, <2>5, <2>6, <2>7 DEF Group, Last, Boundary
<1>3. CASE ~OfFactors
  <2>1. plan \in Plans BY <1>3 DEF CallTypes
  <2>2. /\ plan.groups \in Nat /\ plan.groups >= 2
        /\ {plan.batch, plan.tile} \subseteq Nat \ {0}
        /\ (0 .. plan.groups - 1) \cup Caller \subseteq Stream
        /\ (0 .. plan.groups - 1) \cap Caller = {}
        /\ EventsOf(plan.groups) \subseteq Event
    BY <2>1, PlansAssumption DEF ValidPlans
  <2>3. \A b \in Boundary, q \in {0, 1} : ready(b, q) \in Event /\ consumed(b, q) \in Event
    BY <2>2 DEF EventsOf, Boundary, Groups, ready, consumed
  <2>4. {begin, done} \subseteq Event BY <2>2 DEF EventsOf
  <2>5. Groups \in Nat /\ Groups >= 2 /\ Batch \in Nat \ {0} /\ TileBatch \in Nat \ {0}
    BY <2>2 DEF Groups, Batch, TileBatch
  <2>6. Group \cup Caller \subseteq Stream /\ Group \cap Caller = {} BY <2>2 DEF Group, Groups
  <2>7. Piece \subseteq Nat BY <1>3, <2>5 DEF Piece, Offset
  <2>. QED BY <1>3, <2>3, <2>4, <2>5, <2>6, <2>7 DEF Group, Last, Boundary
<1>. QED BY <1>2, <1>3

\* What depends on the plan alone stays as long as the plan does.
LEMMA SamePlan ==
    ASSUME plan' = plan
    PROVE  /\ Groups' = Groups /\ Group' = Group /\ Last' = Last /\ Boundary' = Boundary
           /\ OfFactors' = OfFactors /\ MayFail' = MayFail /\ Batch' = Batch
           /\ TileBatch' = TileBatch
           /\ Offset' = Offset /\ Digits!Slice' = Digits!Slice /\ Digits!Slices' = Digits!Slices
           /\ Piece' = Piece /\ Operation' = Operation
           /\ \A g, op, p : Covers(g, op, p)' <=> Covers(g, op, p)
           /\ \A o : SlotOf(o)' = SlotOf(o)
<1>1. Groups' = Groups /\ OfFactors' = OfFactors /\ MayFail' = MayFail /\ Batch' = Batch
      /\ TileBatch' = TileBatch /\ Digits!Slices' = Digits!Slices
  BY DEF Groups, OfFactors, MayFail, Batch, TileBatch, Digits!Slices
<1>2. Group' = Group /\ Last' = Last /\ Boundary' = Boundary /\ Digits!Slice' = Digits!Slice
  BY <1>1 DEF Group, Last, Boundary, Digits!Slice
<1>3. Offset' = Offset BY <1>1 DEF Offset
<1>4. Piece' = Piece BY <1>1, <1>2, <1>3 DEF Piece
<1>5. Operation' = Operation
  BY <1>1 DEF Operation, SyncOperation, CallerOperation, BatchLaunch, FactorLaunch, Mark
<1>6. \A g, op, p : Covers(g, op, p)' <=> Covers(g, op, p)
  BY <1>1, <1>2 DEF Covers
<1>7. \A o : SlotOf(o)' = SlotOf(o) BY <1>1 DEF SlotOf, Tile
<1>. QED BY <1>1, <1>2, <1>3, <1>4, <1>5, <1>6, <1>7

\* A piece that was passed is a piece of an invocation that did not fail.
LEMMA PassedTypes ==
    ASSUME CallTypes, NEW g, NEW v, NEW p, Passed(g, v, p)
    PROVE  v \in Nat /\ v >= 1 /\ v <= invocation /\ invocation \in Nat /\ p \in Nat /\ p \in Piece /\ v \notin failed
BY PlanFacts, PlansAssumption DEF CallTypes, Passed, ValidPlans

\* The launch of a piece is an operation of an invocation begun.
LEMMA LaunchTypes ==
    ASSUME CallTypes, StreamInv, GroupOps, NEW g \in Group, NEW i, NEW v, NEW p, LaunchOf(g, i, v, p)
    PROVE  /\ i \in Ops(g) /\ i \in Nat /\ i >= 1 /\ v \in Nat /\ v \in 1 .. invocation
           /\ p \in Nat /\ p \in Piece /\ invocation \in Nat /\ queue[g][i].caller \in Caller
<1>1. i \in Ops(g) /\ g \in Stream BY PlanFacts DEF LaunchOf, Is
<1>2. i \in Nat /\ i >= 1 BY <1>1, Lengths DEF Ops, StreamInv
<1>3. v \in 1 .. invocation /\ p \in Piece BY <1>1 DEF GroupOps, LaunchOf, Covers, Piece
<1>4. invocation \in Nat BY PlansAssumption DEF CallTypes, ValidPlans
<1>5. queue[g][i].caller \in Caller BY <1>1, OperationTypes DEF StreamInv, LaunchOf
<1>. QED BY <1>1, <1>2, <1>3, <1>4, <1>5, PlanFacts

\* Every launch covers a piece.
LEMMA LaunchCovers ==
    ASSUME CallTypes, StreamInv, GroupOps, NEW g \in Group, NEW i \in Ops(g), Is(g, i, "launch")
    PROVE  /\ \E p \in Piece : LaunchOf(g, i, queue[g][i].invocation, p)
           /\ ~OfFactors => LaunchOf(g, i, queue[g][i].invocation, queue[g][i].offset)
<1>1. CASE ~OfFactors
  <2>1. Covers(g, queue[g][i], queue[g][i].offset) BY <1>1 DEF Covers
  <2>. QED BY <1>1, <2>1 DEF LaunchOf, GroupOps, Piece
<1>2. CASE OfFactors /\ g = Last
  <2>1. 0 \in Digits!Slice BY <1>2, PlanFacts DEF Digits!Slice
  <2>2. Covers(g, queue[g][i], 0) BY <1>2, <2>1 DEF Covers
  <2>. QED BY <1>2, <2>1, <2>2 DEF LaunchOf, Piece
<1>3. CASE OfFactors /\ g # Last
  <2>1. queue[g][i].slice \in Digits!Slice BY <1>3 DEF GroupOps
  <2>2. Covers(g, queue[g][i], queue[g][i].slice) BY <1>3, <2>1 DEF Covers
  <2>. QED BY <1>3, <2>1, <2>2 DEF LaunchOf, Piece
<1>. QED BY <1>1, <1>2, <1>3

\* The order demanded of two operations never grows.
LEMMA AfterSame ==
    ASSUME plan' = plan, failed \subseteq failed'
    PROVE  \A s, a, t, b : After(s, a, t, b)' => After(s, a, t, b)
BY SamePlan DEF After, UseAfter, UploadAfter, LaunchAfter, ReadAfter, FillAfter

----------------------------------------------------------------------------
(* The device removes the head of a stream.                                *)

PopStep(u) ==
    /\ Popped(u)
    /\ UNCHANGED <<plan, host, invocation, failed>>
    /\ IF Is(u, 1, "upload")
       THEN u \in Caller /\ input' = [input EXCEPT ![u] = queue[u][1].invocation]
       ELSE input' = input

\* A pop changes neither the plan nor the host.
LEMMA PopSame ==
    ASSUME CallTypes, StreamInv, NEW u, PopStep(u)
    PROVE  /\ plan' = plan /\ CallTypes' /\ (Active' <=> Active)
           /\ \A v : Ended(v)' <=> Ended(v)
           /\ \A g, v, p : Passed(g, v, p)' <=> Passed(g, v, p)
<1>1. plan' = plan /\ host' = host /\ invocation' = invocation /\ failed' = failed BY DEF PopStep
<1>2. Active' <=> Active BY <1>1 DEF Active
<1>3. \A v : Ended(v)' <=> Ended(v) BY <1>1, <1>2 DEF Ended
<1>4. \A g, v, p : Passed(g, v, p)' <=> Passed(g, v, p) BY <1>1, SamePlan DEF Passed, HostPast
<1>5. input' \in [Caller -> Nat]
  <2>1. Is(u, 1, "upload") => queue[u][1].invocation \in Nat
    BY OperationTypes DEF StreamInv, Popped, PopStep, Is
  <2>. QED BY <2>1 DEF PopStep, CallTypes
<1>6. CallTypes' BY <1>1, <1>2, <1>5, SamePlan DEF CallTypes, Idle
<1>. QED BY <1>1, <1>2, <1>3, <1>4, <1>6


\* A pop keeps the well-formedness of launches, uploads and uses.
LEMMA PopOps ==
    ASSUME CallInv, NEW u, PopStep(u)
    PROVE  /\ StreamInv' /\ GroupOps' /\ CallerOps' /\ SameCaller'
<1>. USE DEF CallInv
<1>1. Popped(u) /\ Operation' = Operation BY SamePlan DEF PopStep
<1>2. StreamInv' BY <1>1, StreamPop
<1>3. plan' = plan /\ host' = host /\ invocation' = invocation /\ (Active' <=> Active)
      /\ (\A v : Ended(v)' <=> Ended(v))
  BY PopSame DEF PopStep
<1>4. Group' = Group /\ Group \subseteq Stream /\ Caller \subseteq Stream /\ Offset' = Offset
      /\ Last' = Last /\ Digits!Slice' = Digits!Slice /\ OfFactors' = OfFactors
      /\ \A o : SlotOf(o)' = SlotOf(o)
  BY <1>3, SamePlan, PlanFacts
<1>5. GroupOps'
  <2>. SUFFICES ASSUME NEW g \in Group, NEW i \in Ops(g)', Is(g, i, "launch")'
                PROVE  /\ queue'[g][i].invocation \in 1 .. invocation
                       /\ ~OfFactors => /\ queue'[g][i].offset \in Offset
                                        /\ queue'[g][i].slot = SlotOf(queue'[g][i].offset)
                       /\ OfFactors => queue'[g][i].slice \in (IF g = Last THEN {0} ELSE Digits!Slice)
                       /\ queue'[g][i].invocation = invocation /\ Active
                            => queue'[g][i].caller = host.caller
    BY <1>3, <1>4 DEF GroupOps
  <2>. QED BY <1>1, <1>4, KeptPop DEF GroupOps
<1>6. CallerOps'
  <2>. SUFFICES ASSUME NEW c \in Caller, NEW i \in Ops(c)'
                PROVE  /\ Is(c, i, "upload")' => queue'[c][i].invocation \in 1 .. invocation
                       /\ Is(c, i, "use")' => Ended(queue'[c][i].invocation)
    BY <1>3 DEF CallerOps
  <2>. QED BY <1>1, <1>4, KeptPop DEF CallerOps
<1>7. SameCaller'
  <2>. SUFFICES ASSUME NEW g \in Group, NEW i \in Ops(g)', Is(g, i, "launch")'
                PROVE /\ \A h \in Group : \A j \in Ops(h)' :
                             Is(h, j, "launch")' /\ queue'[g][i].invocation = queue'[h][j].invocation
                                 => queue'[g][i].caller = queue'[h][j].caller
                      /\ \A c \in Caller : \A j \in Ops(c)' :
                             Is(c, j, "use")' /\ queue'[g][i].invocation = queue'[c][j].invocation
                                 => queue'[g][i].caller = c
    BY <1>4 DEF SameCaller
  <2>1. i + Shift(g, u) \in Ops(g) /\ queue'[g][i] = queue[g][i + Shift(g, u)]
        /\ Is(g, i + Shift(g, u), "launch")
    BY <1>1, <1>4, KeptPop
  <2>2. \A s \in Stream : \A j \in Ops(s)' : 
            /\ j + Shift(s, u) \in Ops(s) /\ queue'[s][j] = queue[s][j + Shift(s, u)]
            /\ \A k : Is(s, j, k)' <=> Is(s, j + Shift(s, u), k)
    BY <1>1, KeptPop
  <2>. QED BY <1>4, <2>1, <2>2 DEF SameCaller
<1>. QED BY <1>2, <1>5, <1>6, <1>7

\* A pop keeps the order of the operations that remain.
LEMMA PopOrdered ==
    ASSUME CallInv, NEW u, PopStep(u)
    PROVE  Ordered' /\ Fenced' /\ HostFenced' /\ DoneLatest' /\ ReadyLatest'
<1>. USE DEF CallInv
<1>1. Popped(u) BY DEF PopStep
<1>2. plan' = plan /\ host' = host /\ invocation' = invocation /\ failed' = failed
      /\ recorded' = recorded /\ (Active' <=> Active)
      /\ (\A v : Ended(v)' <=> Ended(v))
  BY PopSame DEF PopStep, Popped
<1>3. /\ Group' = Group /\ Group \subseteq Stream /\ Caller \subseteq Stream
      /\ Last' = Last /\ Last \in Group /\ Boundary' = Boundary /\ Boundary \subseteq Group
      /\ Piece' = Piece /\ OfFactors' = OfFactors
      /\ \A g, op, p : Covers(g, op, p)' <=> Covers(g, op, p)
  BY <1>2, SamePlan, PlanFacts
<1>4. \A s \in Stream : \A j \in Ops(s)' : 
            /\ j \in Nat /\ j >= 1 /\ j + Shift(s, u) \in Ops(s)
            /\ queue'[s][j] = queue[s][j + Shift(s, u)]
            /\ \A k : Is(s, j, k)' <=> Is(s, j + Shift(s, u), k)
  BY <1>1, KeptPop
<1>5. Ordered'
  <2>. SUFFICES ASSUME NEW s \in Stream, NEW t \in Stream, NEW i \in Ops(s)', NEW j \in Ops(t)',
                       After(s, queue[s][i], t, queue[t][j])'
                PROVE  Behind(s, i, t, j)'
    BY DEF Ordered
  <2>1. After(s, queue[s][i + Shift(s, u)], t, queue[t][j + Shift(t, u)])
    <3>1. queue'[s][i] = queue[s][i + Shift(s, u)] /\ queue'[t][j] = queue[t][j + Shift(t, u)]
      BY <1>4
    <3>. QED BY <1>2, <3>1, AfterSame
  <2>2. Behind(s, i + Shift(s, u), t, j + Shift(t, u)) BY <1>4, <2>1 DEF Ordered
  <2>. QED BY <1>1, <1>4, <2>2, BehindPop
<1>6. Fenced'
  <2>. SUFFICES ASSUME NEW g \in Group, NEW i \in Ops(g)', NEW j \in Ops(Last)',
                       Is(g, i, "launch")', Is(Last, j, "launch")',
                       queue'[Last][j].invocation < queue'[g][i].invocation,
                       queue'[Last][j].invocation \notin failed
                PROVE  BehindCaller(g, i, Last, j)'
    BY <1>2, <1>3 DEF Fenced
  <2>1. BehindCaller(g, i + Shift(g, u), Last, j + Shift(Last, u)) BY <1>3, <1>4 DEF Fenced
  <2>. QED BY <1>1, <1>3, <1>4, <2>1, BehindCallerPop
<1>7. HostFenced'
  <2>. SUFFICES ASSUME Active, NEW g \in Group
                PROVE  /\ \A j \in Ops(Last)' :
                              /\ Is(Last, j, "launch")' /\ queue'[Last][j].invocation < invocation
                              /\ queue'[Last][j].invocation \notin failed
                              => HeldCaller(g, Last, j)'
                       /\ \A c \in Caller : \A j \in Ops(c)' :
                              c = host.caller /\ (Is(c, j, "upload")' \/ Is(c, j, "use")')
                              => Held(g, c, j)'
    BY <1>2, <1>3 DEF HostFenced
  <2>1. ASSUME NEW j \in Ops(Last)', Is(Last, j, "launch")', queue'[Last][j].invocation < invocation,
               queue'[Last][j].invocation \notin failed
        PROVE  HeldCaller(g, Last, j)'
    <3>1. HeldCaller(g, Last, j + Shift(Last, u)) BY <1>3, <1>4, <2>1 DEF HostFenced
    <3>. QED BY <1>1, <1>3, <1>4, <3>1, HeldCallerPop
  <2>2. ASSUME NEW c \in Caller, NEW j \in Ops(c)', c = host.caller,
               Is(c, j, "upload")' \/ Is(c, j, "use")'
        PROVE  Held(g, c, j)'
    <3>1. Held(g, c, j + Shift(c, u)) BY <1>3, <1>4, <2>2 DEF HostFenced
    <3>. QED BY <1>1, <1>3, <1>4, <3>1, HeldPop
  <2>. QED BY <2>1, <2>2
<1>8. DoneLatest'
  <2>. SUFFICES ASSUME NEW j \in Ops(Last)', Is(Last, j, "launch")', Ended(queue'[Last][j].invocation)
                PROVE  /\ RecordAfter(Last, j, done)'
                       /\ \A c \in Caller : c = queue'[Last][j].caller => Held(c, Last, j)'
    BY <1>2, <1>3 DEF DoneLatest
  <2>1. /\ j + Shift(Last, u) \in Ops(Last) /\ queue'[Last][j] = queue[Last][j + Shift(Last, u)]
        /\ Is(Last, j + Shift(Last, u), "launch") /\ j \in Nat /\ j >= 1
        /\ Ended(queue[Last][j + Shift(Last, u)].invocation)
    BY <1>3, <1>4
  <2>2. /\ RecordAfter(Last, j + Shift(Last, u), done)
        /\ \A c \in Caller : c = queue[Last][j + Shift(Last, u)].caller => Held(c, Last, j + Shift(Last, u))
    BY <2>1 DEF DoneLatest
  <2>3. RecordAfter(Last, j, done)' BY <1>1, <1>3, <2>1, <2>2, RecordAfterPop DEF done
  <2>4. \A c \in Caller : c = queue'[Last][j].caller => Held(c, Last, j)'
    BY <1>1, <1>3, <2>1, <2>2, HeldPop
  <2>. QED BY <2>3, <2>4
<1>9. ReadyLatest'
  <2>. SUFFICES ASSUME NEW g \in Boundary, NEW i \in Ops(g)', Is(g, i, "launch")'
                PROVE
        /\ host.phase = "tiles" /\ g < host.group => RecordAfter(g, i, ready(g, SlotOf(host.offset)))'
        /\ host.phase = "slices" /\ g < host.group => RecordAfter(g, i, ready(g, host.slice))'
        /\ host.phase = "last" /\ g = Last - 1 => RecordAfter(g, i, Digits!FanIn)'
    BY <1>2, <1>3 DEF ReadyLatest
  <2>1. /\ i + Shift(g, u) \in Ops(g) /\ Is(g, i + Shift(g, u), "launch") /\ i \in Nat /\ i >= 1
        /\ g \in Stream
    BY <1>3, <1>4
  <2>2. \A e : RecordAfter(g, i + Shift(g, u), e) => \A f : f = e => RecordAfter(g, i, f)'
    BY <1>1, <2>1, RecordAfterPop
  <2>3. SlotOf(host.offset)' = SlotOf(host.offset) /\ host' = host /\ Digits!FanIn' = Digits!FanIn
    BY <1>2, <1>3, SamePlan DEF Digits!FanIn, SlotOf, Tile, Digits!ready, Digits!Slices, Digits!Last, Digits!Groups, TileBatch
  <2>. QED BY <2>1, <2>2, <2>3 DEF ReadyLatest, ready
<1>. QED BY <1>5, <1>6, <1>7, <1>8, <1>9

\* A call has enqueued in every group before what it has enqueued in a later one.
LEMMA PassedDown ==
    ASSUME CallTypes, NEW g \in Group, NEW h \in Group, g < h, NEW v, NEW p, Passed(h, v, p)
    PROVE  Passed(g, v, p)
<1>1. HostPast(h, p) => HostPast(g, p)
  <2>1. g \in Nat /\ h \in Nat /\ h <= Last /\ g < Last /\ Last \in Nat
    BY PlanFacts DEF Group, Last, Groups
  <2>2. CASE host.phase = "tiles"
    <3>1. host.group \in Nat BY <2>2, PlanFacts DEF CallTypes, Idle
    <3>. QED BY <2>1, <2>2, <3>1 DEF HostPast
  <2>3. CASE host.phase = "slices"
    <3>1. host.group \in Nat BY <2>3, PlanFacts DEF CallTypes, Idle
    <3>. QED BY <2>1, <2>3, <3>1 DEF HostPast
  <2>4. CASE host.phase = "last" BY <2>1, <2>4 DEF HostPast
  <2>5. CASE host.phase \notin {"tiles", "slices", "last"} BY <2>5 DEF HostPast
  <2>. QED BY <2>2, <2>3, <2>4, <2>5
<1>. QED BY <1>1 DEF Passed

\* Every piece of an ended invocation was passed in every group.
LEMMA AllPassed ==
    ASSUME NEW v, Ended(v), NEW g, NEW p \in Piece
    PROVE  Passed(g, v, p)
<1>1. ~Active => HostPast(g, p) BY DEF Active, HostPast
<1>. QED BY <1>1 DEF Passed, Ended

\* What an ended invocation has left in the first group it has left in the last.
LEMMA PendingLast ==
    ASSUME CallInv, NEW i \in Ops(0), Is(0, i, "launch"), Ended(queue[0][i].invocation)
    PROVE  \E j \in Ops(Last) :
               /\ Is(Last, j, "launch") /\ queue[Last][j].invocation = queue[0][i].invocation
               /\ queue[Last][j].caller = queue[0][i].caller
<1>. USE DEF CallInv
<1>. DEFINE v == queue[0][i].invocation
<1>1. 0 \in Group /\ Last \in Group /\ 0 < Last
  BY PlanFacts
<1>2. PICK p \in Piece : LaunchOf(0, i, v, p) BY <1>1, LaunchCovers
<1>3. Pending(0, v, p) /\ Passed(Last, v, p) BY <1>2, AllPassed DEF Pending
<1>4. Pending(Last, v, p) BY <1>1, <1>3 DEF OrderInv, Downstream
<1>5. PICK j \in Ops(Last) : LaunchOf(Last, j, v, p) BY <1>4 DEF Pending
<1>. QED BY <1>1, <1>5 DEF LaunchOf, SameCaller

\* A pop takes away a launch only from the stream it pops, and only its head.
LEMMA PopLaunch ==
    ASSUME CallInv, NEW u, PopStep(u), NEW g \in Group, NEW v, NEW p
    PROVE  /\ \A i \in Ops(g)' : LaunchOf(g, i, v, p)' <=> LaunchOf(g, i + Shift(g, u), v, p)
           /\ Pending(g, v, p)' => Pending(g, v, p)
           /\ Pending(g, v, p) /\ ~Pending(g, v, p)' => g = u /\ LaunchOf(g, 1, v, p)
           /\ g # u => (Pending(g, v, p)' <=> Pending(g, v, p))
<1>. USE DEF CallInv
<1>1. Popped(u) /\ plan' = plan /\ g \in Stream BY PlanFacts DEF PopStep
<1>2. \A j \in Ops(g)' :
          /\ j + Shift(g, u) \in Ops(g) /\ queue'[g][j] = queue[g][j + Shift(g, u)]
          /\ Is(g, j, "launch")' <=> Is(g, j + Shift(g, u), "launch")
  BY <1>1, KeptPop
<1>3. \A i \in Ops(g)' : LaunchOf(g, i, v, p)' <=> LaunchOf(g, i + Shift(g, u), v, p)
  BY <1>1, <1>2, SamePlan DEF LaunchOf
<1>4. Pending(g, v, p)' => Pending(g, v, p) BY <1>2, <1>3 DEF Pending
<1>5. ASSUME NEW i \in Ops(g), LaunchOf(g, i, v, p), ~(g = u /\ i = 1)
      PROVE  Pending(g, v, p)'
  <2>1. Len(queue[g]) \in Nat /\ Len(queue'[g]) = Len(queue[g]) - Shift(g, u) /\ Shift(g, u) \in {0, 1}
    BY <1>1, Lengths DEF Popped, StreamInv, Shift
  <2>2. i \in Nat /\ i - Shift(g, u) \in Ops(g)' /\ (i - Shift(g, u)) + Shift(g, u) = i
    BY <1>5, <2>1 DEF Ops, Shift
  <2>. QED BY <1>3, <1>5, <2>2 DEF Pending
<1>. QED BY <1>3, <1>4, <1>5 DEF Pending

\* Pieces are passed in one order.
LEMMA BeforeAsymmetric ==
    ASSUME NEW v \in Nat, NEW p \in Nat, NEW w \in Nat, NEW q \in Nat, Before(v, p, w, q)
    PROVE  ~Before(w, q, v, p)
BY DEF Before

\* The launch at the head of a group is done in all groups before.
LEMMA HeadDownstream ==
    ASSUME CallInv, NEW g \in Group, NEW h \in Group, g < h, NEW v, NEW p,
           LaunchOf(h, 1, v, p), Passed(h, v, p)
    PROVE  ~Pending(g, v, p)
<1>. USE DEF CallInv
<1>1. h \in Nat /\ g \in Nat /\ h - 1 \in Group /\ h = (h - 1) + 1 /\ g <= h - 1 /\ h - 1 \in Stream
  BY PlanFacts DEF Group
<1>2. ~Pending(h - 1, v, p)
  <2>. SUFFICES ASSUME NEW j \in Ops(h - 1), LaunchOf(h - 1, j, v, p) PROVE FALSE
    BY DEF Pending
  <2>1. v \in Nat /\ p \in Nat /\ p \in Piece BY PassedTypes
  <2>2. ReadAfter(h, queue[h][1], h - 1, queue[h - 1][j])
    BY <1>1, <2>1 DEF ReadAfter, LaunchOf, Is, Before
  <2>. QED BY <1>1, <2>2, HeadFree, PlanFacts DEF After, LaunchOf
<1>3. CASE g = h - 1 BY <1>2, <1>3
<1>4. CASE g < h - 1
  <2>1. Passed(h - 1, v, p) BY <1>1, PassedDown
  <2>. QED BY <1>1, <1>2, <1>4, <2>1 DEF OrderInv, Downstream
<1>. QED BY <1>1, <1>3, <1>4

\* A pop keeps each group's launches in the order of the pieces, and downstream
\* groups behind upstream ones.
LEMMA PopOrder ==
    ASSUME CallInv, NEW u, PopStep(u)
    PROVE  OrderInv'
<1>. USE DEF CallInv
<1>1. plan' = plan /\ failed' = failed /\ Group' = Group /\ CallTypes'
      /\ \A g, v, p : Passed(g, v, p)' <=> Passed(g, v, p)
  BY PopSame, SamePlan DEF PopStep
<1>2. \A g \in Group : g \in Stream BY PlanFacts
<1>3. \A g \in Group : \A i \in Ops(g)' : /\ i \in Nat /\ i + Shift(g, u) \in Ops(g) /\ Shift(g, u) \in {0, 1}
                                         /\ i + Shift(g, u) \in Nat
  BY <1>2, KeptPop DEF PopStep
<1>4. Sorted'
  <2>. SUFFICES ASSUME NEW g \in Group, NEW i \in Ops(g)', NEW j \in Ops(g)', NEW v, NEW w, NEW p, NEW q,
                       i < j, LaunchOf(g, i, v, p)', LaunchOf(g, j, w, q)'
                PROVE  Before(v, p, w, q)
    BY <1>1 DEF Sorted, Before
  <2>1. LaunchOf(g, i + Shift(g, u), v, p) /\ LaunchOf(g, j + Shift(g, u), w, q) BY PopLaunch
  <2>2. i + Shift(g, u) < j + Shift(g, u) BY <1>3
  <2>. QED BY <1>3, <2>1, <2>2 DEF OrderInv, Sorted
<1>5. LaunchPassed'
  <2>. SUFFICES ASSUME NEW g \in Group, NEW i \in Ops(g)', NEW v, NEW p, LaunchOf(g, i, v, p)', v \notin failed
                PROVE  Passed(g, v, p)
    BY <1>1 DEF LaunchPassed
  <2>1. LaunchOf(g, i + Shift(g, u), v, p) BY PopLaunch
  <2>. QED BY <1>3, <2>1 DEF OrderInv, LaunchPassed
<1>6. Fifo'
  <2>. SUFFICES ASSUME NEW g \in Group, NEW i \in Ops(g)', NEW v, NEW p, NEW w, NEW q,
                       Passed(g, v, p), LaunchOf(g, i, w, q)', Before(w, q, v, p), ~Pending(g, v, p)'
                PROVE  FALSE
    BY <1>1 DEF Fifo, Before
  <2>1. LaunchOf(g, i + Shift(g, u), w, q) BY PopLaunch
  <2>2. Pending(g, v, p) BY <1>3, <2>1 DEF OrderInv, Fifo
  <2>3. g = u /\ LaunchOf(g, 1, v, p) BY <2>2, PopLaunch
  <2>4. 1 < i + Shift(g, u) /\ 1 \in Ops(g) BY <1>3, <2>3, KeptPop DEF Shift, LaunchOf, Is, Ops
  <2>5. Before(v, p, w, q) BY <1>3, <2>1, <2>3, <2>4 DEF OrderInv, Sorted
  <2>6. v \in Nat /\ p \in Nat /\ w \in Nat /\ q \in Nat BY <1>3, <2>1, <2>3, LaunchTypes
  <2>. QED BY <2>5, <2>6, BeforeAsymmetric
<1>7. Downstream'
  <2>. SUFFICES ASSUME NEW g \in Group, NEW h \in Group, NEW v, NEW p, g < h, Pending(g, v, p)',
                       Passed(h, v, p), ~Pending(h, v, p)'
                PROVE  FALSE
    BY <1>1 DEF Downstream
  <2>1. Pending(g, v, p) BY PopLaunch
  <2>2. Pending(h, v, p) BY <2>1 DEF OrderInv, Downstream
  <2>3. LaunchOf(h, 1, v, p) BY <2>2, PopLaunch
  <2>. QED BY <2>1, <2>3, HeadDownstream
<1>. QED BY <1>4, <1>5, <1>6, <1>7 DEF OrderInv

\* A pop keeps the inputs: an upload cannot overtake a launch that still reads.
LEMMA PopInput ==
    ASSUME CallInv, NEW u, PopStep(u)
    PROVE  InputTrue'
<1>. USE DEF CallInv
<1>1. /\ plan' = plan /\ host' = host /\ invocation' = invocation /\ failed' = failed
      /\ (Active' <=> Active) /\ Caller \subseteq Stream /\ 0 \in Group /\ 0 \in Stream /\ Popped(u)
      /\ Last \in Group /\ Last \in Stream
  BY PopSame, PlanFacts DEF PopStep
<1>2. ASSUME NEW c \in Caller, NEW v \in 1 .. invocation, Uploaded(v, c), v \notin failed,
             \/ Active /\ v = invocation
             \/ \E j \in Ops(Last) : Is(Last, j, "launch") /\ queue[Last][j].invocation = v
                                       /\ queue[Last][j].caller = c
      PROVE  Uploaded(v, c)'
  <2>1. \A j \in Ops(c)' : /\ j \in Nat /\ j >= 1 /\ j + Shift(c, u) \in Ops(c)
                           /\ queue'[c][j] = queue[c][j + Shift(c, u)]
                           /\ Is(c, j, "upload")' <=> Is(c, j + Shift(c, u), "upload")
    BY <1>1, KeptPop
  <2>2. Shift(c, u) \in {0, 1} BY DEF Shift
  <2>3. CASE ~(c = u /\ Is(u, 1, "upload"))
    <3>1. input'[c] = input[c] BY <2>3 DEF PopStep, CallTypes
    <3>2. CASE /\ input[c] = v
               /\ \A j \in Ops(c) : Is(c, j, "upload") => queue[c][j].invocation > v
      BY <2>1, <3>1, <3>2 DEF Uploaded
    <3>3. CASE \E i \in Ops(c) :
                  /\ Is(c, i, "upload") /\ queue[c][i].invocation = v
                  /\ \A j \in Ops(c) : Is(c, j, "upload") /\ queue[c][j].invocation <= v => j <= i
      <4>1. PICK i \in Ops(c) :
                  /\ Is(c, i, "upload") /\ queue[c][i].invocation = v
                  /\ \A j \in Ops(c) : Is(c, j, "upload") /\ queue[c][j].invocation <= v => j <= i
        BY <3>3
      <4>2. i - Shift(c, u) \in Ops(c)' /\ (i - Shift(c, u)) + Shift(c, u) = i /\ i \in Nat
        <5>1. Len(queue[c]) \in Nat /\ Len(queue'[c]) = Len(queue[c]) - Shift(c, u)
          BY <1>1, Lengths DEF Popped, StreamInv
        <5>2. i \in Nat /\ i >= 1 /\ i <= Len(queue[c]) BY <5>1 DEF Ops
        <5>3. i - Shift(c, u) >= 1 BY <2>3, <4>1, <5>2 DEF Shift
        <5>. QED BY <2>2, <5>1, <5>2, <5>3 DEF Ops
      <4>3. Is(c, i - Shift(c, u), "upload")' /\ queue'[c][i - Shift(c, u)].invocation = v
        BY <2>1, <4>1, <4>2
      <4>4. \A j \in Ops(c)' : Is(c, j, "upload")' /\ queue'[c][j].invocation <= v => j <= i - Shift(c, u)
        BY <2>1, <2>2, <4>1, <4>2
      <4>. QED BY <4>2, <4>3, <4>4 DEF Uploaded
    <3>. QED BY <1>2, <3>2, <3>3 DEF Uploaded
  <2>4. CASE c = u /\ Is(u, 1, "upload")
    <3>1. input'[c] = queue[c][1].invocation BY <2>4 DEF PopStep, CallTypes
    <3>2. 1 \in Ops(c) /\ Is(c, 1, "upload") /\ queue[c][1].invocation \in 1 .. invocation
      BY <2>4 DEF Is, CallerOps
    <3>3. invocation \in Nat BY PlansAssumption DEF CallTypes, ValidPlans
    <3>4. CASE /\ input[c] = v
               /\ \A j \in Ops(c) : Is(c, j, "upload") => queue[c][j].invocation > v
      <4>1. queue[c][1].invocation > v BY <3>2, <3>4
      <4>2. PICK j \in Ops(Last) : Is(Last, j, "launch") /\ queue[Last][j].invocation = v
                                   /\ queue[Last][j].caller = c
        BY <1>2, <3>2, <3>3, <4>1
      <4>3. UploadAfter(c, queue[c][1], Last, queue[Last][j]) BY <1>2, <3>2, <4>1, <4>2 DEF UploadAfter, Is
      <4>4. Behind(c, 1, Last, j) BY <1>1, <3>2, <4>3 DEF Ordered, After
      <4>. QED BY <4>4, BehindHead
    <3>5. CASE \E i \in Ops(c) :
                  /\ Is(c, i, "upload") /\ queue[c][i].invocation = v
                  /\ \A j \in Ops(c) : Is(c, j, "upload") /\ queue[c][j].invocation <= v => j <= i
      <4>1. PICK i \in Ops(c) :
                  /\ Is(c, i, "upload") /\ queue[c][i].invocation = v
                  /\ \A j \in Ops(c) : Is(c, j, "upload") /\ queue[c][j].invocation <= v => j <= i
        BY <3>5
      <4>0. Shift(c, u) = 1 BY <2>4 DEF Shift
      <4>2. CASE i = 1
        <5>1. input'[c] = v BY <3>1, <4>1, <4>2
        <5>2. ASSUME NEW j \in Ops(c)', Is(c, j, "upload")' PROVE queue'[c][j].invocation > v
          <6>1. /\ j + 1 \in Ops(c) /\ queue'[c][j] = queue[c][j + 1] /\ Is(c, j + 1, "upload") /\ j \in Nat
                /\ j >= 1
            BY <2>1, <4>0, <5>2
          <6>2. ~(j + 1 <= i) BY <4>2, <6>1
          <6>3. ~(queue[c][j + 1].invocation <= v) BY <4>1, <6>1, <6>2
          <6>4. queue[c][j + 1].invocation \in Nat BY <6>1, <3>3 DEF CallerOps
          <6>. QED BY <6>1, <6>3, <6>4
        <5>. QED BY <5>1, <5>2 DEF Uploaded
      <4>3. CASE i # 1
        <5>1. i - 1 \in Ops(c)' /\ (i - 1) + 1 = i /\ i \in Nat
          <6>1. Len(queue[c]) \in Nat /\ Len(queue'[c]) = Len(queue[c]) - 1
            BY <1>1, <4>0, Lengths DEF Popped, StreamInv
          <6>. QED BY <4>3, <6>1 DEF Ops
        <5>2. Is(c, i - 1, "upload")' /\ queue'[c][i - 1].invocation = v BY <2>1, <4>0, <4>1, <5>1
        <5>3. \A j \in Ops(c)' : Is(c, j, "upload")' /\ queue'[c][j].invocation <= v => j <= i - 1
          BY <2>1, <4>0, <4>1, <5>1
        <5>. QED BY <5>1, <5>2, <5>3 DEF Uploaded
      <4>. QED BY <4>2, <4>3
    <3>. QED BY <1>2, <3>4, <3>5 DEF Uploaded
  <2>. QED BY <2>3, <2>4
<1>3. ASSUME Active PROVE \A c \in Caller : \A v : c = host.caller /\ v = invocation => Uploaded(v, c)'
  <2>1. invocation \in 1 .. invocation /\ invocation \notin failed
    BY <1>3, PlansAssumption DEF CallTypes, ValidPlans
  <2>. QED BY <1>2, <1>3, <2>1 DEF InputTrue
<1>4. ASSUME NEW i \in Ops(0)', Is(0, i, "launch")', queue'[0][i].invocation \notin failed
      PROVE  \A c \in Caller : \A v : c = queue'[0][i].caller /\ v = queue'[0][i].invocation => Uploaded(v, c)'
  <2>. DEFINE k == i + Shift(0, u)
  <2>1. k \in Ops(0) /\ queue'[0][i] = queue[0][k] /\ Is(0, k, "launch") BY <1>1, <1>4, KeptPop
  <2>2. queue[0][k].invocation \in 1 .. invocation BY <1>1, <2>1 DEF GroupOps
  <2>3. Uploaded(queue[0][k].invocation, queue[0][k].caller) BY <1>4, <2>1 DEF InputTrue
  <2>4. ~(Active /\ queue[0][k].invocation = invocation) => Ended(queue[0][k].invocation)
    BY <1>4, <2>1, <2>2 DEF Ended
  <2>5. \/ Active /\ queue[0][k].invocation = invocation
        \/ \E j \in Ops(Last) : Is(Last, j, "launch") /\ queue[Last][j].invocation = queue[0][k].invocation
                                       /\ queue[Last][j].caller = queue[0][k].caller
    BY <2>1, <2>4, PendingLast
  <2>. HIDE DEF k
  <2>. QED BY <1>2, <1>4, <2>1, <2>2, <2>3, <2>5
<1>5. Active => host.caller \in Caller BY DEF CallTypes, Active, Idle
<1>6. \A i \in Ops(0)' : Is(0, i, "launch")' => queue'[0][i].caller \in Caller
  BY <1>1, KeptPop, OperationTypes DEF StreamInv
<1>. QED BY <1>1, <1>3, <1>4, <1>5, <1>6 DEF InputTrue

\* A pop keeps the call invariant.
LEMMA CallPop ==
    ASSUME CallInv, NEW u, PopStep(u)
    PROVE  CallInv'
BY PopSame, PopOps, PopOrdered, PopOrder, PopInput DEF CallInv

----------------------------------------------------------------------------
(* A call begins.                                                          *)

BeginStep(c) ==
    /\ host = Idle /\ c \in Caller /\ invocation < Invocations
    /\ invocation' = invocation + 1
    /\ queue' = [s \in Stream |->
            IF s = c
            THEN queue[c] \o << [kind |-> "upload", invocation |-> invocation + 1],
                                Wait(done), Record(begin) >>
            ELSE IF s \in Group THEN Append(queue[s], WaitNew(begin))
            ELSE queue[s]]
    /\ recorded' = Recording({begin})
    /\ \/ ~OfFactors /\ host' = [phase |-> "tiles", caller |-> c, offset |-> 0, group |-> 0]
       \/ OfFactors /\ host' = [phase |-> "slices", caller |-> c, slice |-> 0, group |-> 0]
    /\ UNCHANGED <<plan, completed, failed, input>>

\* The elements of a concatenation.
LEMMA AppendFacts ==
    ASSUME NEW S, NEW q \in Seq(S), NEW r \in Seq(S)
    PROVE  /\ q \o r \in Seq(S)
           /\ Len(q \o r) = Len(q) + Len(r)
           /\ \A i \in 1 .. Len(q) : (q \o r)[i] = q[i]
           /\ \A i \in 1 .. Len(r) : (q \o r)[Len(q) + i] = r[i]
OBVIOUS

\* What begin adds to the streams: an upload, the wait for done and the begin record
\* to the caller's, and a wait for that record to every group's.
LEMMA BeginQueues ==
    ASSUME CallTypes, StreamInv, NEW c, BeginStep(c)
    PROVE  /\ Grown /\ NewRecords /\ StreamInv'
           /\ \A s \in Stream \ (Group \cup {c}) : queue'[s] = queue[s]
           /\ \A g \in Group :
                /\ Len(queue'[g]) = Len(queue[g]) + 1
                /\ queue'[g][Len(queue[g]) + 1] = [kind |-> "wait", on |-> <<begin, recorded[begin] + 1>>]
           /\ Len(queue'[c]) = Len(queue[c]) + 3
           /\ queue'[c][Len(queue[c]) + 1] = [kind |-> "upload", invocation |-> invocation + 1]
           /\ queue'[c][Len(queue[c]) + 2] = [kind |-> "wait", on |-> <<done, recorded[done]>>]
           /\ queue'[c][Len(queue[c]) + 3] = [kind |-> "record", mark |-> <<begin, recorded[begin] + 1>>]
           /\ recorded'[done] = recorded[done]
<1>. USE DEF StreamInv
<1>1. plan' = plan /\ Operation' = Operation /\ c \in Stream /\ c \notin Group /\ Group \subseteq Stream
      /\ {begin, done} \subseteq Event /\ invocation \in Nat
  BY SamePlan, PlanFacts, PlansAssumption DEF BeginStep, CallTypes, ValidPlans
<1>2. recorded[begin] \in Nat /\ recorded[done] \in Nat /\ recorded' \in [Event -> Nat]
      /\ (\A e \in Event : recorded'[e] = IF e = begin THEN recorded[e] + 1 ELSE recorded[e])
      /\ begin # done
  BY <1>1 DEF StreamTypes, BeginStep, Recording, begin, done
<1>. DEFINE a == [kind |-> "upload", invocation |-> invocation + 1]
            b == [kind |-> "wait", on |-> <<done, recorded[done]>>]
            r == [kind |-> "record", mark |-> <<begin, recorded[begin] + 1>>]
            w == [kind |-> "wait", on |-> <<begin, recorded[begin] + 1>>]
<1>3. a \in Operation /\ b \in Operation /\ r \in Operation /\ w \in Operation
  BY <1>1, <1>2 DEF Operation, SyncOperation, CallerOperation, Mark
<1>4. queue' = [s \in Stream |-> IF s = c THEN queue[c] \o <<a, b, r>>
                                 ELSE IF s \in Group THEN Append(queue[s], w) ELSE queue[s]]
  BY DEF BeginStep, Wait, Record, WaitNew
<1>k. a.kind = "upload" /\ b.kind = "wait" /\ r.kind = "record" /\ w.kind = "wait"
      /\ r.mark = <<begin, recorded[begin] + 1>>
  OBVIOUS
<1>. HIDE DEF a, b, r, w
<1>5. \A s \in Stream : queue[s] \in Seq(Operation) BY DEF StreamTypes
<1>6. /\ queue'[c] = queue[c] \o <<a, b, r>> /\ queue'[c] \in Seq(Operation)
      /\ Len(queue'[c]) = Len(queue[c]) + 3 /\ Len(queue[c]) \in Nat
      /\ \A i \in 1 .. Len(queue[c]) : queue'[c][i] = queue[c][i]
      /\ queue'[c][Len(queue[c]) + 1] = a /\ queue'[c][Len(queue[c]) + 2] = b
      /\ queue'[c][Len(queue[c]) + 3] = r
  <2>1. queue'[c] = queue[c] \o <<a, b, r>> BY <1>1, <1>4
  <2>2. <<a, b, r>> \in Seq(Operation) /\ Len(<<a, b, r>>) = 3 BY <1>3
  <2>3. queue[c] \in Seq(Operation) BY <1>1, <1>5
  <2>4. /\ queue[c] \o <<a, b, r>> \in Seq(Operation)
        /\ Len(queue[c] \o <<a, b, r>>) = Len(queue[c]) + 3
        /\ \A i \in 1 .. Len(queue[c]) : (queue[c] \o <<a, b, r>>)[i] = queue[c][i]
        /\ \A i \in 1 .. 3 : (queue[c] \o <<a, b, r>>)[Len(queue[c]) + i] = <<a, b, r>>[i]
    BY <2>2, <2>3, AppendFacts
  <2>. QED BY <2>1, <2>3, <2>4
<1>7. \A g \in Group :
        /\ queue'[g] \in Seq(Operation)
        /\ Len(queue'[g]) = Len(queue[g]) + 1 /\ Len(queue[g]) \in Nat
        /\ \A i \in 1 .. Len(queue[g]) : queue'[g][i] = queue[g][i]
        /\ queue'[g][Len(queue[g]) + 1] = w
  <2>. TAKE g \in Group
  <2>1. queue'[g] = Append(queue[g], w) /\ queue[g] \in Seq(Operation) BY <1>1, <1>4, <1>5
  <2>. QED BY <1>3, <2>1
<1>8. \A s \in Stream \ (Group \cup {c}) : queue'[s] = queue[s] BY <1>1, <1>4
<1>9. Grown
  <2>1. queue' \in [Stream -> Seq(Operation')]
    <3>1. \A s \in Stream : queue'[s] \in Seq(Operation) BY <1>5, <1>6, <1>7, <1>8
    <3>2. queue' = [s \in Stream |-> queue'[s]] BY <1>4
    <3>. QED BY <1>1, <3>1, <3>2
  <2>2. \A s \in Stream : Len(queue'[s]) >= Len(queue[s]) /\ \A i \in Ops(s) : queue'[s][i] = queue[s][i]
    BY <1>5, <1>6, <1>7, <1>8 DEF Ops
  <2>3. completed' = completed BY DEF BeginStep
  <2>4. \A e \in Event : recorded'[e] >= recorded[e]
    <3>. TAKE e \in Event
    <3>1. recorded[e] \in Nat BY DEF StreamTypes
    <3>2. recorded'[e] = recorded[e] + 1 \/ recorded'[e] = recorded[e] BY <1>2
    <3>. QED BY <3>1, <3>2
  <2>. QED BY <1>2, <2>1, <2>2, <2>3, <2>4 DEF Grown
<1>10. \A s \in Stream, i \in Nat : New(s, i) /\ queue'[s][i].kind = "record"
          => s = c /\ i = Len(queue[c]) + 3 /\ queue'[s][i].mark = <<begin, recorded[begin] + 1>>
  <2>. SUFFICES ASSUME NEW s \in Stream, NEW i \in Nat, New(s, i), queue'[s][i].kind = "record"
                PROVE  s = c /\ i = Len(queue[c]) + 3 /\ queue'[s][i].mark = <<begin, recorded[begin] + 1>>
    OBVIOUS
  <2>1. CASE s = c
    <3>1. i \in Len(queue[c]) + 1 .. Len(queue[c]) + 3 BY <1>6, <2>1 DEF New
    <3>2. i = Len(queue[c]) + 1 \/ i = Len(queue[c]) + 2 \/ i = Len(queue[c]) + 3
      <4>1. Len(queue[c]) \in Nat BY <1>6
      <4>. QED BY <3>1, <4>1
    <3>. QED BY <1>6, <1>k, <2>1, <3>2
  <2>2. CASE s \in Group
    <3>1. i = Len(queue[s]) + 1 BY <1>7, <2>2 DEF New
    <3>. QED BY <1>7, <1>k, <2>2, <3>1
  <2>3. CASE s \notin Group \cup {c} BY <1>5, <1>8, <2>3 DEF New
  <2>. QED BY <2>1, <2>2, <2>3
<1>11. NewRecords BY <1>1, <1>2, <1>10 DEF NewRecords
<1>12. StreamInv' BY <1>1, <1>9, <1>11, StreamGrow
<1>. QED BY <1>1, <1>2, <1>6, <1>7, <1>8, <1>9, <1>11, <1>12 DEF a, b, r, w

\* What begin leaves as it was.
LEMMA BeginSame ==
    ASSUME CallTypes, StreamInv, NEW c, BeginStep(c)
    PROVE  /\ plan' = plan /\ failed' = failed /\ CallTypes' /\ ~Active /\ Active' /\ host'.caller = c
           /\ invocation' = invocation + 1 /\ invocation \in Nat
           /\ \A v \in 1 .. invocation : Ended(v) <=> v \notin failed
           /\ \A v : Ended(v)' <=> Ended(v)
           /\ \A g \in Group : \A v, p : Passed(g, v, p)' <=> Passed(g, v, p)
<1>1. plan' = plan /\ failed' = failed /\ invocation' = invocation + 1 /\ invocation \in Nat
      /\ failed \subseteq 1 .. invocation /\ invocation < Invocations /\ Invocations \in Nat
  BY PlansAssumption DEF BeginStep, CallTypes, ValidPlans
<1>2. ~Active /\ Active' /\ host'.caller = c /\ host = Idle /\ c \in Caller
  BY DEF BeginStep, Active, Idle
<1>3. \A v \in 1 .. invocation : Ended(v) <=> v \notin failed BY <1>2 DEF Ended
<1>4. \A v : Ended(v)' <=> Ended(v) BY <1>1, <1>2 DEF Ended
<1>5. CallTypes'
  <2>1. /\ plan' \in (IF OfFactors' THEN FactorPlans ELSE Plans)
        /\ invocation' \in 0 .. Invocations /\ failed' \subseteq 1 .. invocation'
        /\ ~MayFail' => failed' = {}
        /\ input' \in [Caller -> Nat]
        /\ invocation' \in 1 .. Invocations /\ invocation' \notin failed'
    BY <1>1, SamePlan DEF CallTypes, BeginStep
  <2>2. CASE ~OfFactors
    <3>1. 0 \in Offset /\ 0 \in Group BY <2>2, PlanFacts DEF Offset
    <3>2. host' \in [phase : {"tiles", "end"}, caller : Caller, offset : Offset, group : Group]
      BY <1>2, <2>2, <3>1 DEF BeginStep
    <3>. QED BY <1>1, <2>1, <2>2, <3>2, SamePlan DEF CallTypes
  <2>3. CASE OfFactors
    <3>1. 0 \in Digits!Slice /\ 0 \in Boundary BY <2>3, PlanFacts DEF Digits!Slice, Boundary
    <3>2. host' \in [phase : {"slices", "last"}, caller : Caller, slice : Digits!Slice, group : Boundary]
      BY <1>2, <2>3, <3>1 DEF BeginStep
    <3>. QED BY <1>1, <2>1, <2>3, <3>2, SamePlan DEF CallTypes
  <2>. QED BY <2>2, <2>3
<1>6. ASSUME NEW g \in Group, NEW p \in Piece PROVE HostPast(g, p) /\ ~HostPast(g, p)'
  <2>1. HostPast(g, p) BY <1>2 DEF HostPast, Idle
  <2>2. p \in Nat /\ g \in Nat BY PlanFacts
  <2>3. CASE host' = [phase |-> "tiles", caller |-> c, offset |-> 0, group |-> 0]
    BY <2>1, <2>2, <2>3 DEF HostPast
  <2>4. CASE host' = [phase |-> "slices", caller |-> c, slice |-> 0, group |-> 0]
    BY <2>1, <2>2, <2>4 DEF HostPast
  <2>. QED BY <2>1, <2>3, <2>4 DEF BeginStep
<1>7. \A g \in Group : \A v, p : Passed(g, v, p)' <=> Passed(g, v, p)
  BY <1>1, <1>6, SamePlan DEF Passed
<1>. QED BY <1>1, <1>2, <1>3, <1>4, <1>5, <1>7

\* Only the caller's stream gets an operation that is not a wait.
LEMMA BeginNew ==
    ASSUME CallTypes, StreamInv, NEW c, BeginStep(c), NEW s \in Stream, NEW i \in Ops(s)'
    PROVE  /\ i \in Nat /\ i >= 1
           /\ \/ i \in Ops(s) /\ queue'[s][i] = queue[s][i] /\ (\A k : Is(s, i, k)' <=> Is(s, i, k))
              \/ s \in Group /\ Is(s, i, "wait")'
              \/ s = c /\ i = Len(queue[c]) + 1 /\ Is(s, i, "upload")'
                       /\ queue'[s][i].invocation = invocation + 1 /\ New(s, i)
              \/ s = c /\ i > Len(queue[c]) + 1 /\ (Is(s, i, "wait")' \/ Is(s, i, "record")')
<1>1. Grown /\ Len(queue[s]) \in Nat /\ Len(queue'[s]) \in Nat
  BY BeginQueues DEF Grown, StreamInv, StreamTypes
<1>2. i \in Nat /\ i >= 1 /\ (i \in Ops(s) \/ i \in Len(queue[s]) + 1 .. Len(queue'[s])) BY <1>1 DEF Ops
<1>3. CASE i \in Ops(s) BY <1>1, <1>2, <1>3, KeptGrow
<1>4. CASE i \in Len(queue[s]) + 1 .. Len(queue'[s])
  <2>1. CASE s \in Group
    <3>1. i = Len(queue[s]) + 1 BY <1>1, <1>4, <2>1, BeginQueues
    <3>2. queue'[s][i].kind = "wait" BY <2>1, <3>1, BeginQueues
    <3>. QED BY <1>2, <2>1, <3>2 DEF Is
  <2>2. CASE s = c
    <3>1. Len(queue'[c]) = Len(queue[c]) + 3 BY BeginQueues
    <3>2. i = Len(queue[c]) + 1 \/ i = Len(queue[c]) + 2 \/ i = Len(queue[c]) + 3
      BY <1>1, <1>4, <2>2, <3>1
    <3>3. CASE i = Len(queue[c]) + 1
      <4>1. queue'[s][i] = [kind |-> "upload", invocation |-> invocation + 1] BY <2>2, <3>3, BeginQueues
      <4>. QED BY <1>2, <1>4, <2>2, <3>3, <4>1 DEF Is, New
    <3>4. CASE i = Len(queue[c]) + 2
      <4>1. queue'[s][i].kind = "wait" BY <2>2, <3>4, BeginQueues
      <4>. QED BY <1>1, <1>2, <2>2, <3>4, <4>1 DEF Is
    <3>5. CASE i = Len(queue[c]) + 3
      <4>1. queue'[s][i].kind = "record" BY <2>2, <3>5, BeginQueues
      <4>. QED BY <1>1, <1>2, <2>2, <3>5, <4>1 DEF Is
    <3>. QED BY <3>2, <3>3, <3>4, <3>5
  <2>3. CASE s \notin Group \cup {c} BY <1>1, <1>4, <2>3, BeginQueues
  <2>. QED BY <2>1, <2>2, <2>3
<1>. QED BY <1>2, <1>3, <1>4

\* Begin keeps the call invariant.
LEMMA BeginCall ==
    ASSUME CallInv, NEW c, BeginStep(c)
    PROVE  CallInv'
<1>. USE DEF CallInv
<1>1. /\ plan' = plan /\ failed' = failed /\ CallTypes' /\ ~Active /\ Active' /\ host'.caller = c
      /\ invocation' = invocation + 1 /\ invocation \in Nat /\ c \in Caller
      /\ \A v \in 1 .. invocation : Ended(v) <=> v \notin failed
      /\ \A v : Ended(v)' <=> Ended(v)
      /\ \A g \in Group : \A v, p : Passed(g, v, p)' <=> Passed(g, v, p)
  BY BeginSame DEF BeginStep
<1>2. Grown /\ StreamInv' /\ recorded'[done] = recorded[done] BY BeginQueues
<1>3. /\ Group' = Group /\ Group \subseteq Stream /\ Caller \subseteq Stream /\ c \notin Group
      /\ Last' = Last /\ Last \in Group /\ Boundary' = Boundary /\ Boundary \subseteq Group
      /\ OfFactors' = OfFactors /\ Offset' = Offset /\ Digits!Slice' = Digits!Slice
      /\ 0 \in Group /\ Group \subseteq Nat
      /\ \A g, op, p : Covers(g, op, p)' <=> Covers(g, op, p)
      /\ \A o : SlotOf(o)' = SlotOf(o)
  BY <1>1, SamePlan, PlanFacts
\* Launches and uses are old ones.
<1>4. \A g \in Group : \A i \in Ops(g)' : Is(g, i, "launch")' =>
          i \in Nat /\ i >= 1 /\ i \in Ops(g) /\ queue'[g][i] = queue[g][i] /\ Is(g, i, "launch")
  BY <1>3, BeginNew DEF Is
<1>5. \A d \in Caller : \A i \in Ops(d)' : Is(d, i, "use")' =>
          i \in Nat /\ i >= 1 /\ i \in Ops(d) /\ queue'[d][i] = queue[d][i] /\ Is(d, i, "use")
  <2>1. \A d \in Caller : d \notin Group BY PlanFacts
  <2>. QED BY <1>3, <2>1, BeginNew DEF Is
<1>6. \A d \in Caller : \A i \in Ops(d)' : Is(d, i, "upload")' =>
          /\ i \in Nat /\ i >= 1
          /\ \/ i \in Ops(d) /\ queue'[d][i] = queue[d][i] /\ Is(d, i, "upload")
             \/ d = c /\ i = Len(queue[c]) + 1 /\ queue'[d][i].invocation = invocation + 1 /\ New(d, i)
  <2>1. \A d \in Caller : d \notin Group BY PlanFacts
  <2>. QED BY <1>3, <2>1, BeginNew DEF Is
<1>7. GroupOps'
  <2>. SUFFICES ASSUME NEW g \in Group, NEW i \in Ops(g)', Is(g, i, "launch")'
                PROVE  /\ queue'[g][i].invocation \in 1 .. invocation
                       /\ ~OfFactors => /\ queue'[g][i].offset \in Offset
                                        /\ queue'[g][i].slot = SlotOf(queue'[g][i].offset)
                       /\ OfFactors => queue'[g][i].slice \in (IF g = Last THEN {0} ELSE Digits!Slice)
    BY <1>1, <1>3 DEF GroupOps
  <2>. QED BY <1>4 DEF GroupOps
<1>8. CallerOps'
  <2>. SUFFICES ASSUME NEW d \in Caller, NEW i \in Ops(d)'
                PROVE  /\ Is(d, i, "upload")' => queue'[d][i].invocation \in 1 .. invocation + 1
                       /\ Is(d, i, "use")' => Ended(queue'[d][i].invocation)
    BY <1>1 DEF CallerOps
  <2>. QED BY <1>1, <1>5, <1>6 DEF CallerOps
<1>9. SameCaller'
  <2>. SUFFICES ASSUME NEW g \in Group, NEW i \in Ops(g)', Is(g, i, "launch")'
                PROVE /\ \A h \in Group : \A j \in Ops(h)' :
                             Is(h, j, "launch")' /\ queue'[g][i].invocation = queue'[h][j].invocation
                                 => queue'[g][i].caller = queue'[h][j].caller
                      /\ \A d \in Caller : \A j \in Ops(d)' :
                             Is(d, j, "use")' /\ queue'[g][i].invocation = queue'[d][j].invocation
                                 => queue'[g][i].caller = d
    BY <1>3 DEF SameCaller
  <2>. QED BY <1>4, <1>5 DEF SameCaller
<1>10. Ordered'
  <2>. SUFFICES ASSUME NEW s \in Stream, NEW t \in Stream, NEW i \in Ops(s)', NEW j \in Ops(t)',
                       After(s, queue'[s][i], t, queue'[t][j])
                PROVE  Behind(s, i, t, j)'
    BY <1>1, AfterSame DEF Ordered
  <2>1. i \in Nat /\ j \in Nat BY BeginNew
  <2>2. queue'[t][j].kind \in {"launch", "upload", "use"} /\ queue'[s][i].kind \in {"launch", "upload", "use"}
    BY DEF After, UseAfter, UploadAfter, LaunchAfter, ReadAfter, FillAfter
  <2>3. \/ i \in Ops(s) /\ queue'[s][i] = queue[s][i]
        \/ s = c /\ New(s, i) /\ queue'[s][i].kind = "upload" /\ queue'[s][i].invocation = invocation + 1
    BY <2>2, BeginNew DEF Is
  <2>4. \/ j \in Ops(t) /\ queue'[t][j] = queue[t][j]
        \/ t = c /\ queue'[t][j].kind = "upload" /\ queue'[t][j].invocation = invocation + 1
    BY <2>2, BeginNew DEF Is
  <2>5. CASE i \in Ops(s) /\ queue'[s][i] = queue[s][i] /\ j \in Ops(t) /\ queue'[t][j] = queue[t][j]
    <3>1. Behind(s, i, t, j) BY <2>5 DEF Ordered
    <3>. QED BY <1>2, <2>1, <3>1, BehindGrow
  <2>6. CASE s = c /\ New(s, i) /\ queue'[s][i].kind = "upload" /\ queue'[s][i].invocation = invocation + 1
    <3>1. UploadAfter(s, queue'[s][i], t, queue'[t][j])
      BY <2>6 DEF After, UseAfter, UploadAfter, LaunchAfter, ReadAfter, FillAfter
    <3>2. t = Last /\ j \in Ops(Last) /\ Is(Last, j, "launch") /\ queue'[t][j] = queue[Last][j]
      BY <1>4, <1>3, <3>1 DEF UploadAfter, Is
    <3>3. queue[Last][j].invocation \in 1 .. invocation BY <1>3, <3>2 DEF GroupOps
    <3>4. Ended(queue[Last][j].invocation) BY <1>1, <3>1, <3>2, <3>3 DEF UploadAfter
    <3>5. Held(s, Last, j) BY <1>1, <2>6, <3>1, <3>2, <3>4 DEF DoneLatest, UploadAfter
    <3>. QED BY <1>2, <1>3, <2>1, <2>6, <3>2, <3>5, HeldNew
  <2>7. CASE i \in Ops(s) /\ queue'[s][i] = queue[s][i]
             /\ queue'[t][j].kind = "upload" /\ queue'[t][j].invocation = invocation + 1
    <3>1. LaunchAfter(s, queue[s][i], t, queue'[t][j])
      BY <2>7 DEF After, UseAfter, UploadAfter, LaunchAfter, ReadAfter, FillAfter
    <3>2. queue[s][i].invocation \in 1 .. invocation BY <2>7, <3>1 DEF LaunchAfter, GroupOps, Is
    <3>. QED BY <1>1, <2>7, <3>1, <3>2 DEF LaunchAfter
  <2>. QED BY <2>3, <2>4, <2>5, <2>6, <2>7
<1>11. Fenced'
  <2>. SUFFICES ASSUME NEW g \in Group, NEW i \in Ops(g)', NEW j \in Ops(Last)',
                       Is(g, i, "launch")', Is(Last, j, "launch")',
                       queue'[Last][j].invocation < queue'[g][i].invocation,
                       queue'[Last][j].invocation \notin failed
                PROVE  BehindCaller(g, i, Last, j)'
    BY <1>1, <1>3 DEF Fenced
  <2>1. BehindCaller(g, i, Last, j) /\ i \in Nat /\ j \in Nat BY <1>3, <1>4 DEF Fenced
  <2>. QED BY <1>2, <1>3, <2>1, BehindCallerGrow
<1>12. HostFenced'
  <2>0. PICK n \in Nat : n = Len(queue[c]) /\ c \in Stream BY <1>1, <1>3, Lengths DEF StreamInv
  <2>1. /\ n + 2 \in Ops(c)' /\ n + 3 \in Ops(c)' /\ Is(c, n + 2, "wait")' /\ Is(c, n + 3, "record")'
        /\ queue'[c][n + 2].on = <<done, recorded[done]>>
        /\ queue'[c][n + 3].mark = <<begin, recorded[begin] + 1>>
    BY <2>0, BeginQueues DEF Is, Ops
  <2>2. ASSUME NEW g \in Group
        PROVE  \E k \in Ops(g)' : Is(g, k, "wait")' /\ queue'[g][k].on = queue'[c][n + 3].mark
    <3>1. Len(queue[g]) \in Nat BY <1>3, Lengths DEF StreamInv
    <3>2. queue'[g][Len(queue[g]) + 1] = [kind |-> "wait", on |-> <<begin, recorded[begin] + 1>>]
          /\ Len(queue'[g]) = Len(queue[g]) + 1
      BY BeginQueues
    <3>. QED BY <2>1, <3>1, <3>2 DEF Is, Ops
  <2>3. ASSUME NEW g \in Group, NEW j \in Ops(Last)', Is(Last, j, "launch")',
               queue'[Last][j].invocation \notin failed
        PROVE  HeldCaller(g, Last, j)'
    <3>1. j \in Ops(Last) /\ Is(Last, j, "launch") /\ queue'[Last][j] = queue[Last][j] /\ j \in Nat
      BY <1>3, <1>4, <2>3
    <3>2. Ended(queue[Last][j].invocation) BY <1>1, <1>3, <2>3, <3>1 DEF GroupOps
    <3>3. RecordAfter(Last, j, done) BY <3>1, <3>2 DEF DoneLatest
    <3>4. n + 2 \in 1 .. (n + 3) - 1 /\ n + 3 \in Nat BY <2>0
    <3>5. Behind(c, n + 3, Last, j)' BY <1>2, <1>3, <2>0, <2>1, <3>1, <3>3, <3>4, WaitedFor
    <3>6. PICK l \in Nat : l = n + 3 BY <3>4
    <3>7. Behind(c, l, Last, j)' /\ l \in Ops(c)' /\ Is(c, l, "record")'
          /\ queue'[c][l].mark = queue'[c][n + 3].mark
      BY <2>1, <3>5, <3>6
    <3>8. PICK k \in Ops(g)' : Is(g, k, "wait")' /\ queue'[g][k].on = queue'[c][l].mark
      BY <2>2, <3>7
    <3>. QED BY <1>1, <3>7, <3>8 DEF HeldCaller
  <2>4. ASSUME NEW g \in Group, NEW j \in Ops(c)', Is(c, j, "upload")' \/ Is(c, j, "use")'
        PROVE  Held(g, c, j)'
    <3>1. n + 3 > j
      <4>1. j \in Ops(c) \/ j = n + 1 BY <1>1, <1>5, <1>6, <2>0, <2>4
      <4>. QED BY <2>0, <4>1 DEF Ops
    <3>. QED BY <2>1, <2>2, <3>1 DEF Held
  <2>. QED BY <1>1, <1>3, <2>3, <2>4 DEF HostFenced
<1>13. DoneLatest'
  <2>. SUFFICES ASSUME NEW j \in Ops(Last)', Is(Last, j, "launch")', Ended(queue'[Last][j].invocation)
                PROVE  /\ RecordAfter(Last, j, done)'
                       /\ \A d \in Caller : d = queue'[Last][j].caller => Held(d, Last, j)'
    BY <1>1, <1>3 DEF DoneLatest
  <2>1. j \in Ops(Last) /\ Is(Last, j, "launch") /\ queue'[Last][j] = queue[Last][j] /\ j \in Nat
    BY <1>3, <1>4
  <2>2. RecordAfter(Last, j, done)
        /\ \A d \in Caller : d = queue'[Last][j].caller => Held(d, Last, j)
    BY <2>1 DEF DoneLatest
  <2>3. RecordAfter(Last, j, done)' BY <1>2, <1>3, <2>1, <2>2, RecordAfterGrow DEF done
  <2>. QED BY <1>2, <1>3, <2>1, <2>2, <2>3, HeldGrow
<1>14. ReadyLatest'
  <2>1. host'.phase \in {"tiles", "slices"} /\ host'.group = 0 BY DEF BeginStep
  <2>2. \A g \in Boundary : g \in Nat BY <1>3
  <2>. QED BY <1>3, <2>1, <2>2 DEF ReadyLatest
<1>15. \A g \in Group : \A i \in Ops(g)' : \A v, p : LaunchOf(g, i, v, p)' => LaunchOf(g, i, v, p) /\ i \in Ops(g)
  BY <1>3, <1>4 DEF LaunchOf
<1>16. \A g \in Group : \A v, p : Pending(g, v, p)' <=> Pending(g, v, p)
  <2>1. \A g \in Group : \A i \in Ops(g) : \A v, p : LaunchOf(g, i, v, p) => LaunchOf(g, i, v, p)' /\ i \in Ops(g)'
    BY <1>2, <1>3, KeptGrow DEF LaunchOf
  <2>. QED BY <1>15, <2>1 DEF Pending
<1>17. OrderInv'
  <2>1. Sorted' BY <1>3, <1>15 DEF OrderInv, Sorted, Before
  <2>2. LaunchPassed' BY <1>1, <1>3, <1>15 DEF OrderInv, LaunchPassed
  <2>3. Fifo' BY <1>1, <1>3, <1>15, <1>16 DEF OrderInv, Fifo, Before
  <2>4. Downstream' BY <1>1, <1>3, <1>16 DEF OrderInv, Downstream
  <2>. QED BY <2>1, <2>2, <2>3, <2>4 DEF OrderInv
<1>18. InputTrue'
  <2>1. ASSUME NEW d \in Caller, NEW v \in 1 .. invocation, Uploaded(v, d) PROVE Uploaded(v, d)'
    <3>0. d \in Stream /\ Len(queue[d]) \in Nat BY <1>3, Lengths DEF StreamInv
    <3>1. CASE input[d] = v /\ \A j \in Ops(d) : Is(d, j, "upload") => queue[d][j].invocation > v
      <4>1. \A j \in Ops(d)' : Is(d, j, "upload")' => queue'[d][j].invocation > v
        BY <1>1, <1>6, <3>1
      <4>. QED BY <3>1, <4>1 DEF Uploaded, BeginStep
    <3>2. CASE \E i \in Ops(d) :
                  /\ Is(d, i, "upload") /\ queue[d][i].invocation = v
                  /\ \A j \in Ops(d) : Is(d, j, "upload") /\ queue[d][j].invocation <= v => j <= i
      <4>1. PICK i \in Ops(d) :
                  /\ Is(d, i, "upload") /\ queue[d][i].invocation = v
                  /\ \A j \in Ops(d) : Is(d, j, "upload") /\ queue[d][j].invocation <= v => j <= i
        BY <3>2
      <4>2. i \in Ops(d)' /\ Is(d, i, "upload")' /\ queue'[d][i].invocation = v
        BY <1>2, <3>0, <4>1, KeptGrow
      <4>3. \A j \in Ops(d)' : Is(d, j, "upload")' /\ queue'[d][j].invocation <= v => j <= i
        BY <1>1, <1>6, <4>1
      <4>. QED BY <4>2, <4>3 DEF Uploaded
    <3>. QED BY <2>1, <3>1, <3>2 DEF Uploaded
  <2>2. \A v : v = invocation + 1 => Uploaded(v, c)'
    <3>0. PICK n \in Nat : n = Len(queue[c]) /\ c \in Stream BY <1>1, <1>3, Lengths DEF StreamInv
    <3>1. n + 1 \in Ops(c)' /\ Is(c, n + 1, "upload")' /\ queue'[c][n + 1].invocation = invocation + 1
      BY <3>0, BeginQueues DEF Ops, Is
    <3>2. \A j \in Ops(c)' : Is(c, j, "upload")' => j <= n + 1
      BY <1>1, <1>6, <3>0 DEF Ops
    <3>. QED BY <3>1, <3>2 DEF Uploaded
  <2>3. ASSUME NEW i \in Ops(0)', Is(0, i, "launch")', queue'[0][i].invocation \notin failed
        PROVE  \A d \in Caller : \A v : d = queue'[0][i].caller /\ v = queue'[0][i].invocation => Uploaded(v, d)'
    <3>1. i \in Ops(0) /\ queue'[0][i] = queue[0][i] /\ Is(0, i, "launch")
          /\ queue[0][i].invocation \in 1 .. invocation
      BY <1>3, <1>4, <2>3 DEF GroupOps
    <3>2. Uploaded(queue[0][i].invocation, queue[0][i].caller) BY <2>3, <3>1 DEF InputTrue
    <3>. QED BY <2>1, <3>1, <3>2
  <2>4. \A i \in Ops(0)' : Is(0, i, "launch")' => queue'[0][i].caller \in Caller
    BY <1>3, <1>4, OperationTypes DEF StreamInv
  <2>. QED BY <1>1, <2>2, <2>3, <2>4 DEF InputTrue
<1>. QED BY <1>1, <1>2, <1>7, <1>8, <1>9, <1>10, <1>11, <1>12, <1>13, <1>14, <1>17, <1>18

----------------------------------------------------------------------------
(* The host enqueues one launch (launched), finds it refused (refused), or *)
(* ends the call; the factor pipeline does the first and the last together.*)

Enqueue(g, m, c, launched, refused, ending) ==
    /\ Active /\ c = host.caller /\ g \in Group
    /\ {launched, refused, ending} \subseteq BOOLEAN
    /\ refused => ~launched /\ ~ending
    /\ ending => g = Last
    /\ Grown /\ NewRecords /\ CallTypes'
    /\ plan' = plan /\ invocation' = invocation /\ input' = input
    /\ failed' = failed \cup {v \in {invocation} : refused}
    /\ Active' <=> ~refused /\ ~ending
    /\ Active' => host'.caller = c
    /\ ~ending => recorded'[done] = recorded[done]
    /\ \A s \in Stream, i \in Nat : New(s, i) =>
           \/ s = g /\ queue'[s][i].kind \in {"wait", "record", "launch"}
           \/ ending /\ s = c /\ queue'[s][i].kind \in {"wait", "use"}
    /\ \A i \in Nat : New(g, i) /\ queue'[g][i].kind = "launch" => launched /\ i = m
    /\ \A i \in Nat : New(c, i) /\ queue'[c][i].kind = "use" => queue'[c][i].invocation = invocation

\* The launch.
Launched(g, m) ==
    /\ m \in Nat /\ New(g, m)
    /\ queue'[g][m].kind = "launch"
    /\ queue'[g][m].invocation = invocation
    /\ queue'[g][m].caller = host.caller
    /\ ~OfFactors => /\ queue'[g][m].offset \in Offset
                     /\ queue'[g][m].slot = SlotOf(queue'[g][m].offset)
    /\ OfFactors => queue'[g][m].slice \in (IF g = Last THEN {0} ELSE Digits!Slice)
    /\ \A t \in Group : \A j \in Ops(t) :
           ReadAfter(g, queue'[g][m], t, queue[t][j]) \/ FillAfter(g, queue'[g][m], t, queue[t][j])
               => Behind(g, m, t, j)'
    /\ \A h \in Group : \A p, q :
           Covers(g, queue'[g][m], p) /\ Passed(h, invocation, q) =>
               /\ g <= h => q < p
               /\ ~OfFactors /\ h < g => q <= p

\* The last group's record of done, the caller's wait for it and the use.
Finished(c) ==
    /\ \E l \in Nat : /\ New(Last, l) /\ l = Len(queue'[Last])
                      /\ queue'[Last][l].kind = "record" /\ queue'[Last][l].mark = <<done, recorded'[done]>>
    /\ \E k \in Nat : /\ New(c, k) /\ queue'[c][k].kind = "wait" /\ queue'[c][k].on = <<done, recorded'[done]>>
                      /\ \A i \in Nat : New(c, i) /\ queue'[c][i].kind = "use" => k < i

EnqueueStep(g, m, c, launched, refused, ending) ==
    /\ Enqueue(g, m, c, launched, refused, ending)
    /\ launched => Launched(g, m)
    /\ ending => Finished(c)
    /\ \A h \in Group : \A v, p :
           Passed(h, v, p)' <=>
               /\ ~(refused /\ v = invocation)
               /\ Passed(h, v, p) \/ (launched /\ h = g /\ v = invocation /\ Covers(g, queue'[g][m], p))
    /\ ReadyLatest'

\* What every enqueue of a call has in common.
LEMMA EnqueueFacts ==
    ASSUME CallInv, NEW g, NEW m, NEW c, NEW launched, NEW refused, NEW ending,
           EnqueueStep(g, m, c, launched, refused, ending)
    PROVE  /\ StreamInv' /\ Grown /\ CallTypes'
           /\ c \in Caller /\ c \in Stream /\ g \in Group /\ g \in Stream /\ c \notin Group
           /\ Group' = Group /\ Group \subseteq Stream /\ Caller \subseteq Stream
           /\ Last' = Last /\ Last \in Group /\ Boundary' = Boundary
           /\ OfFactors' = OfFactors /\ Offset' = Offset /\ Digits!Slice' = Digits!Slice
           /\ 0 \in Group /\ Group \subseteq Nat
           /\ (\A h, op, p : Covers(h, op, p)' <=> Covers(h, op, p))
           /\ (\A o : SlotOf(o)' = SlotOf(o))
           /\ invocation \in Nat /\ invocation \notin failed /\ invocation \in 1 .. invocation
           /\ failed \subseteq failed' /\ (\A v : v # invocation => (v \in failed' <=> v \in failed))
           /\ (refused <=> invocation \in failed')
           /\ \A v : Ended(v)' <=> Ended(v) \/ (ending /\ v = invocation)
<1>. USE DEF CallInv
<1>1. Enqueue(g, m, c, launched, refused, ending) BY DEF EnqueueStep
<1>2. plan' = plan /\ Active /\ c = host.caller /\ Grown /\ NewRecords /\ g \in Group
      /\ failed' = failed \cup {v \in {invocation} : refused} /\ CallTypes'
      /\ invocation' = invocation
      /\ refused \in BOOLEAN /\ ending \in BOOLEAN /\ (refused => ~ending)
      /\ (Active' <=> ~refused /\ ~ending)
  BY <1>1 DEF Enqueue
<1>3. StreamInv' BY <1>2, StreamGrow, SamePlan
<1>4. c \in Caller BY <1>2 DEF CallTypes, Active, Idle
<1>5. invocation \in 1 .. Invocations /\ invocation \notin failed /\ Invocations \in Nat
  BY <1>2, PlansAssumption DEF CallTypes, ValidPlans
<1>6. \A v : Ended(v)' <=> Ended(v) \/ (ending /\ v = invocation)
  <2>1. ~Ended(invocation) BY <1>2 DEF Ended
  <2>2. Ended(invocation)' <=> ending BY <1>2, <1>5 DEF Ended
  <2>3. \A v : v # invocation => (Ended(v)' <=> Ended(v)) BY <1>2 DEF Ended
  <2>. QED BY <1>2, <2>1, <2>2, <2>3
<1>. QED BY <1>2, <1>3, <1>4, <1>5, <1>6, SamePlan, PlanFacts

\* Where an operation of the new state comes from.
LEMMA EnqueueNew ==
    ASSUME CallInv, NEW g, NEW m, NEW c, NEW launched, NEW refused, NEW ending,
           EnqueueStep(g, m, c, launched, refused, ending), NEW s \in Stream, NEW i \in Ops(s)'
    PROVE  /\ i \in Nat /\ i >= 1
           /\ \/ i \in Ops(s) /\ queue'[s][i] = queue[s][i] /\ (\A k : Is(s, i, k)' <=> Is(s, i, k))
              \/ New(s, i) /\ i \notin Ops(s) /\ (Is(s, i, "wait")' \/ Is(s, i, "record")')
              \/ New(s, i) /\ i \notin Ops(s) /\ s = g /\ i = m /\ launched /\ Is(s, i, "launch")'
              \/ New(s, i) /\ i \notin Ops(s) /\ s = c /\ ending /\ Is(s, i, "use")'
                           /\ queue'[s][i].invocation = invocation
<1>1. Grown /\ StreamInv BY DEF EnqueueStep, Enqueue, CallInv
<1>2. Len(queue[s]) \in Nat /\ Len(queue'[s]) \in Nat BY <1>1 DEF Grown, StreamInv, StreamTypes
<1>3. i \in Nat /\ i >= 1 /\ (i \in Ops(s) \/ (New(s, i) /\ i \notin Ops(s))) BY <1>2 DEF Ops, New
<1>4. CASE i \in Ops(s) BY <1>1, <1>3, <1>4, KeptGrow
<1>5. CASE New(s, i) /\ i \notin Ops(s)
  <2>1. \/ s = g /\ queue'[s][i].kind \in {"wait", "record", "launch"}
        \/ ending /\ s = c /\ queue'[s][i].kind \in {"wait", "use"}
    BY <1>3, <1>5 DEF EnqueueStep, Enqueue
  <2>2. s = g /\ queue'[s][i].kind = "launch" => launched /\ i = m
    BY <1>3, <1>5 DEF EnqueueStep, Enqueue
  <2>3. s = c /\ queue'[s][i].kind = "use" => queue'[s][i].invocation = invocation
    BY <1>3, <1>5 DEF EnqueueStep, Enqueue
  <2>. QED BY <1>3, <1>5, <2>1, <2>2, <2>3 DEF Is
<1>. QED BY <1>3, <1>4, <1>5

\* An enqueue keeps the well-formedness of launches, uploads and uses, ...
LEMMA EnqueueOps ==
    ASSUME CallInv, NEW g, NEW m, NEW c, NEW launched, NEW refused, NEW ending,
           EnqueueStep(g, m, c, launched, refused, ending)
    PROVE  GroupOps' /\ CallerOps' /\ SameCaller'
<1>. USE DEF CallInv
<1>1. /\ c \in Caller /\ c \notin Group /\ Group' = Group /\ Group \subseteq Stream /\ Caller \subseteq Stream
      /\ Last' = Last /\ OfFactors' = OfFactors /\ Offset' = Offset /\ Digits!Slice' = Digits!Slice
      /\ (\A o : SlotOf(o)' = SlotOf(o))
      /\ invocation \in Nat /\ invocation \in 1 .. invocation /\ invocation \notin failed
      /\ \A v : Ended(v)' <=> Ended(v) \/ (ending /\ v = invocation)
  BY EnqueueFacts
<1>2. Active /\ c = host.caller /\ invocation' = invocation /\ (Active' => host'.caller = c)
      /\ (launched => Launched(g, m))
  BY DEF EnqueueStep, Enqueue
<1>3. \A d \in Caller : d \notin Group BY PlanFacts
<1>4. \A h \in Group : \A i \in Ops(h)' : Is(h, i, "launch")' =>
         \/ i \in Ops(h) /\ queue'[h][i] = queue[h][i] /\ Is(h, i, "launch")
         \/ h = g /\ i = m /\ Launched(g, m)
  BY <1>1, <1>2, EnqueueNew DEF Is
<1>5. \A d \in Caller : \A i \in Ops(d)' :
         /\ Is(d, i, "use")' =>
               \/ i \in Ops(d) /\ queue'[d][i] = queue[d][i] /\ Is(d, i, "use")
               \/ d = c /\ ending /\ queue'[d][i].invocation = invocation
         /\ Is(d, i, "upload")' => i \in Ops(d) /\ queue'[d][i] = queue[d][i] /\ Is(d, i, "upload")
  BY <1>1, <1>3, EnqueueNew DEF Is
<1>6. GroupOps'
  <2>. SUFFICES ASSUME NEW h \in Group, NEW i \in Ops(h)', Is(h, i, "launch")'
                PROVE  /\ queue'[h][i].invocation \in 1 .. invocation
                       /\ ~OfFactors => /\ queue'[h][i].offset \in Offset
                                        /\ queue'[h][i].slot = SlotOf(queue'[h][i].offset)
                       /\ OfFactors => queue'[h][i].slice \in (IF h = Last THEN {0} ELSE Digits!Slice)
                       /\ queue'[h][i].invocation = invocation => queue'[h][i].caller = c
    BY <1>1, <1>2 DEF GroupOps
  <2>. QED BY <1>1, <1>2, <1>4 DEF GroupOps, Launched
<1>7. CallerOps'
  <2>. SUFFICES ASSUME NEW d \in Caller, NEW i \in Ops(d)'
                PROVE  /\ Is(d, i, "upload")' => queue'[d][i].invocation \in 1 .. invocation
                       /\ Is(d, i, "use")' => \/ Ended(queue'[d][i].invocation)
                                              \/ ending /\ queue'[d][i].invocation = invocation
    BY <1>1, <1>2 DEF CallerOps
  <2>. QED BY <1>1, <1>5 DEF CallerOps
<1>8. SameCaller'
  <2>. SUFFICES ASSUME NEW h \in Group, NEW i \in Ops(h)', Is(h, i, "launch")'
                PROVE /\ \A k \in Group : \A j \in Ops(k)' :
                             Is(k, j, "launch")' /\ queue'[h][i].invocation = queue'[k][j].invocation
                                 => queue'[h][i].caller = queue'[k][j].caller
                      /\ \A d \in Caller : \A j \in Ops(d)' :
                             Is(d, j, "use")' /\ queue'[h][i].invocation = queue'[d][j].invocation
                                 => queue'[h][i].caller = d
    BY <1>1 DEF SameCaller
  <2>1. \A k \in Group : \A j \in Ops(k)' : Is(k, j, "launch")' /\ queue'[k][j].invocation = invocation
            => queue'[k][j].caller = c
    BY <1>2, <1>4 DEF Launched, GroupOps
  <2>2. \A d \in Caller : \A j \in Ops(d)' : Is(d, j, "use")' /\ queue'[d][j].invocation = invocation => d = c
    BY <1>2, <1>5 DEF CallerOps, Ended
  <2>3. CASE queue'[h][i].invocation = invocation BY <2>1, <2>2, <2>3
  <2>4. CASE queue'[h][i].invocation # invocation BY <1>4, <1>5, <2>4 DEF SameCaller, Launched
  <2>. QED BY <2>3, <2>4
<1>. QED BY <1>6, <1>7, <1>8

\* ... puts what it adds behind everything it must come after, ...
LEMMA EnqueueOrdered ==
    ASSUME CallInv, NEW g, NEW m, NEW c, NEW launched, NEW refused, NEW ending,
           EnqueueStep(g, m, c, launched, refused, ending)
    PROVE  Ordered'
<1>. USE DEF CallInv
<1>1. /\ StreamInv' /\ Grown /\ c \in Caller /\ c \notin Group /\ Group' = Group /\ Group \subseteq Stream
      /\ Caller \subseteq Stream /\ c \in Stream /\ g \in Group /\ g \in Stream /\ Last \in Group
      /\ Last' = Last /\ OfFactors' = OfFactors
      /\ invocation \in Nat /\ invocation \in 1 .. invocation /\ invocation \notin failed
      /\ failed \subseteq failed'
  BY EnqueueFacts
<1>2. /\ Active /\ c = host.caller /\ plan' = plan /\ (launched => Launched(g, m))
      /\ (ending => Finished(c) /\ g = Last)
  BY DEF EnqueueStep, Enqueue
<1>. SUFFICES ASSUME NEW s \in Stream, NEW t \in Stream, NEW i \in Ops(s)', NEW j \in Ops(t)',
                     After(s, queue'[s][i], t, queue'[t][j])
              PROVE  Behind(s, i, t, j)'
  BY <1>1, <1>2, AfterSame DEF Ordered
<1>. DEFINE a == queue'[s][i]
            b == queue'[t][j]
<1>3. i \in Nat /\ j \in Nat BY EnqueueNew
<1>4. a.kind \in {"launch", "upload", "use"} /\ b.kind \in {"launch", "upload", "use"}
  BY DEF After, UseAfter, UploadAfter, LaunchAfter, ReadAfter, FillAfter
<1>5. \/ i \in Ops(s) /\ a = queue[s][i]
      \/ i \notin Ops(s) /\ New(s, i) /\ s = g /\ i = m /\ launched
      \/ i \notin Ops(s) /\ New(s, i) /\ s = c /\ ending /\ a.kind = "use" /\ a.invocation = invocation
  BY <1>4, EnqueueNew DEF Is
<1>6. \/ j \in Ops(t) /\ b = queue[t][j]
      \/ j \notin Ops(t) /\ New(t, j) /\ t = g /\ j = m /\ launched
      \/ j \notin Ops(t) /\ New(t, j) /\ t = c /\ ending /\ b.kind = "use" /\ b.invocation = invocation
  BY <1>4, EnqueueNew DEF Is
<1>7. CASE i \in Ops(s) /\ a = queue[s][i] /\ j \in Ops(t) /\ b = queue[t][j]
  <2>1. Behind(s, i, t, j) BY <1>7 DEF Ordered
  <2>. QED BY <1>1, <1>3, <2>1, BehindGrow
<1>8. CASE s = g /\ i = m /\ launched /\ New(s, i) /\ j \in Ops(t) /\ b = queue[t][j]
  <2>1. a.kind = "launch" /\ a.invocation = invocation /\ a.caller = c
    BY <1>2, <1>8 DEF Launched
  <2>2. CASE LaunchAfter(s, a, t, b)
    <3>1. Held(g, c, j) BY <1>1, <1>2, <1>8, <2>1, <2>2 DEF HostFenced, LaunchAfter, Is
    <3>. QED BY <1>1, <1>3, <1>8, <2>1, <2>2, <3>1, HeldNew DEF LaunchAfter
  <2>3. CASE ReadAfter(s, a, t, b) \/ FillAfter(s, a, t, b)
    BY <1>2, <1>8, <2>3 DEF Launched, ReadAfter, FillAfter
  <2>. QED BY <2>1, <2>2, <2>3 DEF After, UseAfter, UploadAfter
<1>9. CASE t = g /\ j = m /\ launched /\ New(t, j) /\ i \in Ops(s) /\ a = queue[s][i]
  <2>1. b.kind = "launch" /\ b.invocation = invocation /\ b.caller = c
        /\ \A h \in Group : \A p, q :
              Covers(g, b, p) /\ Passed(h, invocation, q) =>
                  /\ g <= h => q < p
                  /\ ~OfFactors /\ h < g => q <= p
    BY <1>2, <1>9 DEF Launched
  <2>2. CASE UseAfter(s, a, t, b)
    BY <1>2, <1>9, <2>1, <2>2 DEF UseAfter, CallerOps, Is, Ended
  <2>3. CASE UploadAfter(s, a, t, b)
    <3>1. s = c /\ Is(s, i, "upload") BY <1>9, <2>1, <2>3 DEF UploadAfter, Is
    <3>. QED BY <1>1, <1>9, <2>1, <2>3, <3>1 DEF UploadAfter, CallerOps
  <2>4. CASE ReadAfter(s, a, t, b)
    <3>1. s = g + 1 /\ s \in Group /\ Is(s, i, "launch") /\ g \in Nat
      BY <1>1, <1>9, <2>4, PlanFacts DEF ReadAfter, Is
    <3>2. PICK p, q \in Piece : Covers(s, a, p) /\ Covers(t, b, q) /\ ~Before(a.invocation, p, b.invocation, q)
      BY <2>4 DEF ReadAfter
    <3>3. a.invocation \in 1 .. invocation BY <1>9, <3>1 DEF GroupOps
    <3>4. a.invocation = invocation /\ ~(p < q) BY <1>1, <2>1, <3>2, <3>3 DEF Before
    <3>5. LaunchOf(s, i, invocation, p) BY <1>9, <3>1, <3>2, <3>4 DEF LaunchOf
    <3>6. Passed(s, invocation, p) BY <1>1, <1>9, <3>1, <3>5 DEF OrderInv, LaunchPassed
    <3>. QED BY <1>9, <2>1, <3>1, <3>2, <3>4, <3>6
  <2>5. CASE FillAfter(s, a, t, b)
    <3>1. g = s + 1 /\ s \in Group /\ Is(s, i, "launch") /\ s \in Nat /\ ~OfFactors
          /\ a.invocation = invocation /\ b.offset < a.offset
      BY <1>1, <1>9, <2>1, <2>5, PlanFacts DEF FillAfter, Is
    <3>2. LaunchOf(s, i, invocation, a.offset) /\ a.offset \in Nat /\ b.offset \in Nat
      <4>1. Covers(s, a, a.offset) BY <3>1 DEF Covers
      <4>2. a.offset \in Piece BY <1>9, <3>1 DEF GroupOps, Piece
      <4>3. b.offset \in Piece BY <1>2, <1>9, <3>1 DEF Launched, Piece
      <4>. QED BY <1>9, <3>1, <4>1, <4>2, <4>3, PlanFacts DEF LaunchOf
    <3>3. Passed(s, invocation, a.offset) BY <1>1, <1>9, <3>1, <3>2 DEF OrderInv, LaunchPassed
    <3>4. Covers(g, b, b.offset) BY <3>1 DEF Covers
    <3>5. s < g BY <3>1
    <3>6. a.offset <= b.offset BY <2>1, <3>1, <3>3, <3>4, <3>5
    <3>. QED BY <3>1, <3>2, <3>6
  <2>6. ~LaunchAfter(s, a, t, b) BY <2>1 DEF LaunchAfter
  <2>. QED BY <2>2, <2>3, <2>4, <2>5, <2>6 DEF After
<1>10. CASE s = c /\ ending /\ New(s, i) /\ a.kind = "use" /\ a.invocation = invocation
  <2>1. UseAfter(s, a, t, b) BY <1>10 DEF After, UseAfter, UploadAfter, LaunchAfter, ReadAfter, FillAfter
  <2>2. t = Last /\ b.kind = "launch" BY <2>1 DEF UseAfter
  <2>3. PICK k \in Nat : /\ New(c, k) /\ queue'[c][k].kind = "wait" /\ queue'[c][k].on = <<done, recorded'[done]>>
                         /\ \A n \in Nat : New(c, n) /\ queue'[c][n].kind = "use" => k < n
    BY <1>2, <1>10 DEF Finished
  <2>4. PICK l \in Nat : /\ New(Last, l) /\ l = Len(queue'[Last])
                      /\ queue'[Last][l].kind = "record" /\ queue'[Last][l].mark = <<done, recorded'[done]>>
    BY <1>2, <1>10 DEF Finished
  <2>5. k < i BY <1>3, <1>10, <2>3
  <2>6. /\ Len(queue[c]) \in Nat /\ Len(queue[Last]) \in Nat
        /\ Len(queue'[c]) \in Nat /\ Len(queue'[Last]) \in Nat
    <3>1. queue' \in [Stream -> Seq(Operation')] BY <1>1 DEF Grown
    <3>. QED BY <1>1, <3>1, Lengths DEF StreamInv
  <2>7. k \in 1 .. i - 1 /\ Is(c, k, "wait")' BY <1>3, <1>10, <2>3, <2>5, <2>6 DEF Is, Ops, New
  <2>8. l \in Ops(t)' /\ Is(t, l, "record")' /\ l > j
    <3>1. l \in Ops(t)' BY <1>1, <2>2, <2>4, <2>6 DEF Ops, New
    <3>2. j # l BY <2>2, <2>4
    <3>3. j <= l BY <1>3, <2>2, <2>4, <2>6 DEF Ops
    <3>. QED BY <1>1, <1>3, <2>2, <2>4, <3>1, <3>2, <3>3 DEF Is
  <2>. QED BY <1>1, <1>10, <2>2, <2>3, <2>4, <2>7, <2>8 DEF Behind
<1>11. CASE t = c /\ ending /\ b.kind = "use" /\ b.invocation = invocation
  <2>1. LaunchAfter(s, a, t, b) /\ a.invocation > invocation
    BY <1>11 DEF After, UseAfter, UploadAfter, LaunchAfter, ReadAfter, FillAfter
  <2>2. a.invocation \in 1 .. invocation
    <3>1. s \in Group /\ Is(s, i, "launch")' BY <2>1 DEF LaunchAfter, Is
    <3>2. GroupOps' BY EnqueueOps
    <3>4. invocation' = invocation BY DEF EnqueueStep, Enqueue
    <3>3. \A h \in Group : \A n \in Ops(h)' : Is(h, n, "launch")' => queue'[h][n].invocation \in 1 .. invocation
      BY <1>1, <3>2, <3>4 DEF GroupOps
    <3>. QED BY <3>1, <3>3
  <2>. QED BY <1>1, <2>1, <2>2
<1>12. CASE i \notin Ops(s) /\ s = g /\ i = m /\ launched /\ j \notin Ops(t) /\ t = g /\ j = m
  <2>1. a = b /\ s = t /\ s \in Nat /\ s # a.caller BY <1>1, <1>2, <1>12, PlanFacts DEF Launched
  <2>2. a.kind = "launch" BY <1>2, <1>12 DEF Launched
  <2>. QED BY <2>1, <2>2 DEF After, UseAfter, UploadAfter, LaunchAfter, ReadAfter, FillAfter
<1>. QED BY <1>5, <1>6, <1>7, <1>8, <1>9, <1>10, <1>11, <1>12

\* ... keeps the fences between invocations, ...
LEMMA EnqueueFenced ==
    ASSUME CallInv, NEW g, NEW m, NEW c, NEW launched, NEW refused, NEW ending,
           EnqueueStep(g, m, c, launched, refused, ending)
    PROVE  Fenced' /\ HostFenced' /\ DoneLatest'
<1>. USE DEF CallInv
<1>1. /\ StreamInv' /\ Grown /\ c \in Caller /\ c \notin Group /\ Group' = Group /\ Group \subseteq Stream
      /\ Caller \subseteq Stream /\ c \in Stream /\ g \in Group /\ g \in Stream /\ Last \in Group
      /\ Last' = Last
      /\ invocation \in Nat /\ invocation \in 1 .. invocation /\ invocation \notin failed
      /\ failed \subseteq failed'
      /\ \A v : Ended(v)' <=> Ended(v) \/ (ending /\ v = invocation)
  BY EnqueueFacts
<1>2. /\ Active /\ c = host.caller /\ plan' = plan /\ invocation' = invocation
      /\ (launched => Launched(g, m))
      /\ (ending => Finished(c) /\ g = Last)
      /\ (~ending => recorded'[done] = recorded[done])
      /\ (Active' => ~refused /\ ~ending /\ host'.caller = c)
  BY DEF EnqueueStep, Enqueue
<1>3. \A d \in Caller : d \notin Group BY PlanFacts
<1>4. \A h \in Group : \A i \in Ops(h)' : Is(h, i, "launch")' =>
         /\ i \in Nat /\ i >= 1
         /\ \/ i \in Ops(h) /\ queue'[h][i] = queue[h][i] /\ Is(h, i, "launch")
            \/ h = g /\ i = m /\ New(h, i) /\ Launched(g, m)
  BY <1>1, <1>2, EnqueueNew DEF Is
<1>5. \A h \in Group : \A i \in Ops(h) : Is(h, i, "launch") => queue[h][i].invocation \in 1 .. invocation
  BY DEF GroupOps
<1>6. \A j \in Ops(Last)' : Is(Last, j, "launch")' /\ queue'[Last][j].invocation # invocation
         => j \in Nat /\ j \in Ops(Last) /\ queue'[Last][j] = queue[Last][j] /\ Is(Last, j, "launch")
  BY <1>1, <1>4 DEF Launched
<1>7. Fenced'
  <2>. SUFFICES ASSUME NEW h \in Group, NEW i \in Ops(h)', NEW j \in Ops(Last)',
                       Is(h, i, "launch")', Is(Last, j, "launch")',
                       queue'[Last][j].invocation < queue'[h][i].invocation,
                       queue'[Last][j].invocation \notin failed
                PROVE  BehindCaller(h, i, Last, j)'
    BY <1>1 DEF Fenced
  <2>1. queue'[h][i].invocation \in 1 .. invocation BY <1>1, <1>4, <1>5 DEF Launched
  <2>2. queue'[Last][j].invocation # invocation BY <1>1, <2>1
  <2>3. j \in Nat /\ j \in Ops(Last) /\ queue'[Last][j] = queue[Last][j] /\ Is(Last, j, "launch")
        /\ queue[Last][j].invocation \in Nat
    BY <1>1, <1>5, <1>6, <2>2
  <2>4. CASE i \in Ops(h) /\ queue'[h][i] = queue[h][i] /\ Is(h, i, "launch")
    <3>1. BehindCaller(h, i, Last, j) BY <2>3, <2>4 DEF Fenced
    <3>a. i \in Nat BY <1>4
    <3>b. i >= i BY <3>a
    <3>2. i \in Nat /\ i >= i /\ h \in Stream /\ Last \in Stream /\ j \in Nat BY <1>1, <2>3, <3>a, <3>b
    <3>3. \A t : t = Last => BehindCaller(h, i, t, j)' BY <1>1, <3>1, <3>2, BehindCallerGrow
    <3>. QED BY <1>1, <3>3
  <2>5. CASE h = g /\ i = m /\ New(h, i)
    <3>1. queue[Last][j].invocation < invocation BY <1>1, <2>1, <2>3
    <3>2. HeldCaller(h, Last, j) BY <1>2, <2>3, <3>1 DEF HostFenced
    <3>. QED BY <1>1, <1>4, <2>3, <2>5, <3>2, HeldCallerGrow
  <2>. QED BY <1>4, <2>4, <2>5
<1>8. HostFenced'
  <2>. SUFFICES ASSUME Active', NEW h \in Group
                PROVE  /\ \A j \in Ops(Last)' :
                              /\ Is(Last, j, "launch")' /\ queue'[Last][j].invocation < invocation
                              /\ queue'[Last][j].invocation \notin failed
                              => HeldCaller(h, Last, j)'
                       /\ \A d \in Caller : \A j \in Ops(d)' :
                              d = c /\ (Is(d, j, "upload")' \/ Is(d, j, "use")')
                              => Held(h, d, j)'
    BY <1>1, <1>2 DEF HostFenced
  <2>1. ASSUME NEW j \in Ops(Last)', Is(Last, j, "launch")', queue'[Last][j].invocation < invocation,
               queue'[Last][j].invocation \notin failed
        PROVE  HeldCaller(h, Last, j)'
    <3>1. j \in Nat /\ j \in Ops(Last) /\ queue'[Last][j] = queue[Last][j] /\ Is(Last, j, "launch")
      BY <1>1, <1>6, <2>1
    <3>2. HeldCaller(h, Last, j) BY <1>2, <2>1, <3>1 DEF HostFenced
    <3>. QED BY <1>1, <3>1, <3>2, HeldCallerGrow
  <2>2. ASSUME NEW d \in Caller, NEW j \in Ops(d)', d = c, Is(d, j, "upload")' \/ Is(d, j, "use")'
        PROVE  Held(h, d, j)'
    <3>1. j \in Nat /\ j \in Ops(d) /\ (Is(d, j, "upload") \/ Is(d, j, "use"))
      BY <1>1, <1>2, <1>3, <2>2, EnqueueNew DEF Is
    <3>2. Held(h, d, j) BY <1>2, <2>2, <3>1 DEF HostFenced
    <3>. QED BY <1>1, <3>1, <3>2, HeldGrow
  <2>. QED BY <2>1, <2>2
<1>9. DoneLatest'
  <2>. SUFFICES ASSUME NEW j \in Ops(Last)', Is(Last, j, "launch")', Ended(queue'[Last][j].invocation) \/
                            (ending /\ queue'[Last][j].invocation = invocation)
                PROVE  /\ RecordAfter(Last, j, done)'
                       /\ \A d \in Caller : d = queue'[Last][j].caller => Held(d, Last, j)'
    BY <1>1 DEF DoneLatest
  <2>1. ASSUME queue'[Last][j].invocation # invocation \/ ~ending
        PROVE  /\ j \in Nat /\ j \in Ops(Last) /\ queue'[Last][j] = queue[Last][j] /\ Is(Last, j, "launch")
               /\ RecordAfter(Last, j, done)
               /\ \A d \in Caller : d = queue'[Last][j].caller => Held(d, Last, j)'
    <3>1. Ended(queue'[Last][j].invocation) BY <2>1
    <3>2. queue'[Last][j].invocation # invocation BY <1>2, <3>1 DEF Ended
    <3>3. j \in Nat /\ j \in Ops(Last) /\ queue'[Last][j] = queue[Last][j] /\ Is(Last, j, "launch")
      BY <1>6, <3>2
    <3>4. RecordAfter(Last, j, done) /\ \A d \in Caller : d = queue[Last][j].caller => Held(d, Last, j)
      BY <3>1, <3>3 DEF DoneLatest
    <3>. QED BY <1>1, <3>3, <3>4, HeldGrow
  <2>2. CASE ~ending
    <3>1. RecordAfter(Last, j, done)' BY <1>1, <1>2, <2>1, <2>2, RecordAfterGrow DEF done
    <3>. QED BY <2>1, <2>2, <3>1
  <2>3. CASE ending
    <3>1. PICK l \in Nat : /\ New(Last, l) /\ l = Len(queue'[Last])
                      /\ queue'[Last][l].kind = "record" /\ queue'[Last][l].mark = <<done, recorded'[done]>>
      BY <1>2, <2>3 DEF Finished
    <3>2. PICK k \in Nat : New(c, k) /\ queue'[c][k].kind = "wait" /\ queue'[c][k].on = <<done, recorded'[done]>>
      BY <1>2, <2>3 DEF Finished
    <3>3. /\ Len(queue[c]) \in Nat /\ Len(queue[Last]) \in Nat
          /\ Len(queue'[c]) \in Nat /\ Len(queue'[Last]) \in Nat
      <4>1. queue' \in [Stream -> Seq(Operation')] BY <1>1 DEF Grown
      <4>. QED BY <1>1, <4>1, Lengths DEF StreamInv
    <3>4. l \in Ops(Last)' /\ Is(Last, l, "record")' BY <1>1, <3>1, <3>3 DEF Ops, New, Is
    <3>5. j \in Nat /\ l > j
      <4>1. j # l BY <1>1, <3>1 DEF Is
      <4>2. j \in Nat /\ j <= l BY <1>1, <3>1, <3>3 DEF Ops
      <4>. QED BY <4>1, <4>2
    <3>6. RecordAfter(Last, j, done)' BY <1>1, <3>1, <3>4, <3>5 DEF RecordAfter, done
    <3>7. k \in Ops(c)' /\ Is(c, k, "wait")' BY <3>2, <3>3 DEF Ops, New, Is
    <3>8. Held(c, Last, j)' BY <1>1, <3>1, <3>2, <3>4, <3>5, <3>7 DEF Held
    <3>9. queue'[Last][j].invocation = invocation => queue'[Last][j].caller = c
      BY <1>1, <1>2, <1>4 DEF GroupOps, Launched
    <3>. QED BY <2>1, <3>6, <3>8, <3>9
  <2>. QED BY <2>2, <2>3
<1>. QED BY <1>7, <1>8, <1>9

\* The launches and the pieces pending after the step.
LEMMA EnqueuePending ==
    ASSUME CallInv, NEW g, NEW m, NEW c, NEW launched, NEW refused, NEW ending,
           EnqueueStep(g, m, c, launched, refused, ending)
    PROVE  /\ \A h \in Group : \A i \in Ops(h)' : \A v, p : LaunchOf(h, i, v, p)' =>
                \/ i \in Ops(h) /\ LaunchOf(h, i, v, p)
                \/ /\ i = m /\ New(h, i)
                   /\ launched /\ h = g /\ v = invocation /\ Covers(g, queue'[g][m], p)
           /\ \A h \in Group : \A v, p : Pending(h, v, p)' <=>
                \/ Pending(h, v, p)
                \/ launched /\ h = g /\ v = invocation /\ Covers(g, queue'[g][m], p)
<1>. USE DEF CallInv
<1>. DEFINE Fresh(h, v, p) == launched /\ h = g /\ v = invocation /\ Covers(g, queue'[g][m], p)
<1>1. /\ StreamInv' /\ Grown /\ Group' = Group /\ Group \subseteq Stream /\ g \in Group
      /\ (\A h, op, p : Covers(h, op, p)' <=> Covers(h, op, p))
  BY EnqueueFacts
<1>2. launched => Launched(g, m)
  BY DEF EnqueueStep
<1>3. \A h \in Group : \A i \in Ops(h)' : \A v, p : LaunchOf(h, i, v, p)' =>
         \/ i \in Ops(h) /\ LaunchOf(h, i, v, p)
         \/ i = m /\ Fresh(h, v, p) /\ New(h, i)
  <2>. SUFFICES ASSUME NEW h \in Group, NEW i \in Ops(h)', NEW v, NEW p, LaunchOf(h, i, v, p)'
                PROVE  \/ i \in Ops(h) /\ LaunchOf(h, i, v, p)
                       \/ i = m /\ Fresh(h, v, p) /\ New(h, i)
    OBVIOUS
  <2>1. Is(h, i, "launch")' /\ queue'[h][i].invocation = v /\ Covers(h, queue'[h][i], p)
    BY <1>1 DEF LaunchOf
  <2>2. \/ i \in Ops(h) /\ queue'[h][i] = queue[h][i] /\ Is(h, i, "launch")
        \/ h = g /\ i = m /\ New(h, i) /\ launched
    BY <1>1, <2>1, EnqueueNew, PlanFacts DEF Is
  <2>. QED BY <1>2, <2>1, <2>2 DEF LaunchOf, Launched
<1>4. \A h \in Group : \A v, p : Pending(h, v, p)' <=> Pending(h, v, p) \/ Fresh(h, v, p)
  <2>1. ASSUME NEW h \in Group, NEW v, NEW p, Pending(h, v, p) PROVE Pending(h, v, p)'
    <3>1. PICK i \in Ops(h) : LaunchOf(h, i, v, p) BY <2>1 DEF Pending
    <3>2. i \in Ops(h)' /\ queue'[h][i] = queue[h][i] /\ (Is(h, i, "launch")' <=> Is(h, i, "launch"))
      BY <1>1, KeptGrow
    <3>3. LaunchOf(h, i, v, p)' BY <1>1, <3>1, <3>2 DEF LaunchOf
    <3>. QED BY <3>2, <3>3 DEF Pending
  <2>2. ASSUME NEW h \in Group, NEW v, NEW p, Fresh(h, v, p) PROVE Pending(h, v, p)'
    <3>0. Len(queue[g]) \in Nat /\ Len(queue'[g]) \in Nat BY <1>1 DEF Grown, StreamInv, StreamTypes
    <3>1. m \in Ops(g)' /\ Is(g, m, "launch")' BY <1>2, <2>2, <3>0 DEF Launched, New, Ops, Is
    <3>2. LaunchOf(g, m, invocation, p)' BY <1>1, <1>2, <2>2, <3>1 DEF LaunchOf, Launched, EnqueueStep, Enqueue
    <3>3. \A x : x = invocation => LaunchOf(g, m, x, p)'
      BY <1>1, <1>2, <2>2, <3>1 DEF LaunchOf, Launched
    <3>. QED BY <2>2, <3>1, <3>3 DEF Pending
  <2>3. ASSUME NEW h \in Group, NEW v, NEW p, Pending(h, v, p)' PROVE Pending(h, v, p) \/ Fresh(h, v, p)
    BY <1>3, <2>3 DEF Pending
  <2>. QED BY <2>1, <2>2, <2>3
<1>. QED BY <1>3, <1>4

\* ... keeps each group's launches in the order of the pieces, ...
LEMMA EnqueueOrder ==
    ASSUME CallInv, NEW g, NEW m, NEW c, NEW launched, NEW refused, NEW ending,
           EnqueueStep(g, m, c, launched, refused, ending)
    PROVE  OrderInv'
<1>. USE DEF CallInv
<1>. DEFINE Fresh(h, v, p) == launched /\ h = g /\ v = invocation /\ Covers(g, queue'[g][m], p)
<1>1. /\ StreamInv' /\ Grown /\ Group' = Group /\ Group \subseteq Stream /\ g \in Group
      /\ invocation \in Nat /\ invocation \in 1 .. invocation /\ invocation \notin failed
      /\ failed \subseteq failed' /\ (refused <=> invocation \in failed') /\ Group \subseteq Nat
      /\ (\A h, op, p : Covers(h, op, p)' <=> Covers(h, op, p))
      /\ (\A v : v # invocation => (v \in failed' <=> v \in failed))
  BY EnqueueFacts
<1>2. /\ (launched => Launched(g, m))
      /\ \A h \in Group : \A v, p :
             Passed(h, v, p)' <=> ~(refused /\ v = invocation) /\ (Passed(h, v, p) \/ Fresh(h, v, p))
  BY DEF EnqueueStep
<1>3. \A h \in Group : \A i \in Ops(h)' : \A v, p : LaunchOf(h, i, v, p)' =>
         \/ i \in Ops(h) /\ LaunchOf(h, i, v, p)
         \/ i = m /\ Fresh(h, v, p) /\ New(h, i)
  BY EnqueuePending
<1>4. \A h \in Group : \A v, p : Pending(h, v, p)' <=> Pending(h, v, p) \/ Fresh(h, v, p)
  BY EnqueuePending
<1>5. \A h \in Group : \A p, q : Fresh(g, invocation, p) /\ Passed(h, invocation, q) /\ g <= h => q < p
  BY <1>2 DEF Launched
<1>6. \A h \in Group : \A v, p : Passed(h, v, p) => v \in Nat /\ v <= invocation /\ p \in Nat
  BY PassedTypes
<1>7. \A h \in Group : \A i \in Ops(h) : \A v, p : LaunchOf(h, i, v, p) =>
          i \in Nat /\ v \in Nat /\ v <= invocation
  BY <1>1, LaunchTypes
<1>n. \A h \in Group : \A i, j \in Ops(h) : i < j => ~(New(h, i) /\ j \in Ops(h)) 
  BY <1>1, Lengths DEF StreamInv, Ops, New
<1>8. Sorted'
  <2>. SUFFICES ASSUME NEW h \in Group, NEW i \in Ops(h)', NEW j \in Ops(h)', NEW v, NEW w, NEW p, NEW q,
                       i < j, LaunchOf(h, i, v, p)', LaunchOf(h, j, w, q)'
                PROVE  Before(v, p, w, q)
    BY <1>1 DEF Sorted, Before
  <2>1. CASE i \in Ops(h) /\ LaunchOf(h, i, v, p) /\ j \in Ops(h) /\ LaunchOf(h, j, w, q)
    BY <2>1 DEF OrderInv, Sorted
  <2>2. CASE i \in Ops(h) /\ LaunchOf(h, i, v, p) /\ Fresh(h, w, q)
    <3>1. v \in Nat /\ v <= invocation /\ w = invocation /\ h = g BY <1>7, <2>2
    <3>2. CASE v = invocation
      <4>1. Passed(g, invocation, p) BY <1>1, <2>2, <3>1, <3>2 DEF OrderInv, LaunchPassed
      <4>2. p < q BY <1>1, <1>5, <2>2, <3>1, <4>1
      <4>. QED BY <3>1, <3>2, <4>2 DEF Before
    <3>3. CASE v # invocation BY <1>1, <3>1, <3>3 DEF Before
    <3>. QED BY <3>2, <3>3
  <2>3. CASE i = m /\ New(h, i)
    <3>0. j \in Nat /\ i \in Nat BY <1>1, EnqueueNew
    <3>1. Len(queue[h]) \in Nat /\ j \in Nat /\ i \in Nat /\ i > Len(queue[h])
      BY <1>1, <2>3, <3>0, Lengths DEF StreamInv, New
    <3>2. j \notin Ops(h) BY <3>1 DEF Ops
    <3>3. j = m BY <1>3, <3>2
    <3>. QED BY <2>3, <3>1, <3>3
  <2>. QED BY <1>3, <2>1, <2>2, <2>3
<1>9. LaunchPassed'
  <2>. SUFFICES ASSUME NEW h \in Group, NEW i \in Ops(h)', NEW v, NEW p, LaunchOf(h, i, v, p)', v \notin failed'
                PROVE  Passed(h, v, p)'
    BY <1>1 DEF LaunchPassed
  <2>1. ~(refused /\ v = invocation) /\ v \notin failed BY <1>1
  <2>2. Passed(h, v, p) \/ Fresh(h, v, p) BY <1>3, <2>1 DEF OrderInv, LaunchPassed
  <2>. QED BY <1>2, <2>1, <2>2
<1>10. Fifo'
  <2>. SUFFICES ASSUME NEW h \in Group, NEW i \in Ops(h)', NEW v, NEW p, NEW w, NEW q,
                       Passed(h, v, p)', LaunchOf(h, i, w, q)', Before(w, q, v, p)
                PROVE  Pending(h, v, p)'
    BY <1>1 DEF Fifo, Before
  <2>1. CASE Fresh(h, v, p) BY <1>4, <2>1
  <2>2. CASE Passed(h, v, p) /\ i \in Ops(h) /\ LaunchOf(h, i, w, q)
    <3>1. Pending(h, v, p) BY <2>2 DEF OrderInv, Fifo
    <3>. QED BY <1>4, <3>1
  <2>3. CASE Passed(h, v, p) /\ Fresh(h, w, q)
    <3>1. v \in Nat /\ v <= invocation /\ w = invocation /\ h = g BY <1>6, <2>3
    <3>2. v = invocation /\ q < p BY <1>1, <3>1 DEF Before
    <3>3. p < q BY <1>1, <1>5, <2>3, <3>1, <3>2
    <3>4. p \in Nat /\ q \in Piece BY <1>6, <2>3, <1>2 DEF Launched, Covers, Piece
    <3>5. q \in Nat BY <3>4, PlanFacts
    <3>. QED BY <3>2, <3>3, <3>4, <3>5
  <2>. QED BY <1>2, <1>3, <2>1, <2>2, <2>3
<1>11. Downstream'
  <2>. SUFFICES ASSUME NEW f \in Group, NEW h \in Group, NEW v, NEW p, f < h,
                       Pending(f, v, p)', Passed(h, v, p)'
                PROVE  Pending(h, v, p)'
    BY <1>1 DEF Downstream
  <2>1. CASE Fresh(h, v, p) BY <1>4, <2>1
  <2>2. CASE Passed(h, v, p) /\ Pending(f, v, p)
    <3>1. Pending(h, v, p) BY <2>2 DEF OrderInv, Downstream
    <3>. QED BY <1>4, <3>1
  <2>3. CASE Passed(h, v, p) /\ Fresh(f, v, p)
    <3>1. f = g /\ v = invocation /\ g <= h /\ p \in Nat BY <1>1, <1>6, <2>3
    <3>2. p < p BY <1>5, <2>3, <3>1
    <3>. QED BY <3>1, <3>2
  <2>. QED BY <1>2, <1>4, <2>1, <2>2, <2>3
<1>. QED BY <1>8, <1>9, <1>10, <1>11 DEF OrderInv

\* ... leaves the inputs to the uploads, ...
LEMMA EnqueueInput ==
    ASSUME CallInv, NEW g, NEW m, NEW c, NEW launched, NEW refused, NEW ending,
           EnqueueStep(g, m, c, launched, refused, ending)
    PROVE  InputTrue'
<1>. USE DEF CallInv
<1>1. /\ StreamInv' /\ Grown /\ c \in Caller /\ Group' = Group /\ Group \subseteq Stream
      /\ Caller \subseteq Stream /\ 0 \in Group
      /\ invocation \in Nat /\ invocation \in 1 .. invocation /\ invocation \notin failed
      /\ failed \subseteq failed'
  BY EnqueueFacts
<1>2. /\ Active /\ c = host.caller /\ invocation' = invocation /\ input' = input
      /\ (launched => Launched(g, m)) /\ (Active' => host'.caller = c)
  BY DEF EnqueueStep, Enqueue
<1>3. \A d \in Caller : d \notin Group BY PlanFacts
<1>4. \A d \in Caller : \A i \in Ops(d)' :
          Is(d, i, "upload")' => i \in Ops(d) /\ queue'[d][i] = queue[d][i] /\ Is(d, i, "upload")
  BY <1>1, <1>3, EnqueueNew DEF Is
<1>5. ASSUME NEW d \in Caller, NEW v, Uploaded(v, d) PROVE Uploaded(v, d)'
  <2>1. CASE input[d] = v /\ \A j \in Ops(d) : Is(d, j, "upload") => queue[d][j].invocation > v
    BY <1>2, <1>4, <2>1 DEF Uploaded
  <2>2. CASE \E i \in Ops(d) :
                /\ Is(d, i, "upload") /\ queue[d][i].invocation = v
                /\ \A j \in Ops(d) : Is(d, j, "upload") /\ queue[d][j].invocation <= v => j <= i
    <3>1. PICK i \in Ops(d) :
                /\ Is(d, i, "upload") /\ queue[d][i].invocation = v
                /\ \A j \in Ops(d) : Is(d, j, "upload") /\ queue[d][j].invocation <= v => j <= i
      BY <2>2
    <3>2. i \in Ops(d)' /\ Is(d, i, "upload")' /\ queue'[d][i].invocation = v
      BY <1>1, <3>1, KeptGrow
    <3>3. \A j \in Ops(d)' : Is(d, j, "upload")' /\ queue'[d][j].invocation <= v => j <= i
      BY <1>4, <3>1
    <3>. QED BY <3>2, <3>3 DEF Uploaded
  <2>. QED BY <1>5, <2>1, <2>2 DEF Uploaded
<1>6. \A v : v = invocation => Uploaded(v, c)' BY <1>1, <1>2, <1>5 DEF InputTrue
<1>7. ASSUME NEW i \in Ops(0)', Is(0, i, "launch")', queue'[0][i].invocation \notin failed
      PROVE  /\ queue'[0][i].caller \in Caller
             /\ \A d \in Caller : \A v : d = queue'[0][i].caller /\ v = queue'[0][i].invocation => Uploaded(v, d)'
  <2>1. CASE i \in Ops(0) /\ queue'[0][i] = queue[0][i] /\ Is(0, i, "launch")
    <3>1. queue[0][i].caller \in Caller BY <1>1, <2>1, OperationTypes DEF StreamInv
    <3>2. Uploaded(queue[0][i].invocation, queue[0][i].caller) BY <1>7, <2>1 DEF InputTrue
    <3>. QED BY <1>5, <2>1, <3>1, <3>2
  <2>2. CASE i = m /\ g = 0 /\ launched
    <3>1. queue'[0][i].invocation = invocation /\ queue'[0][i].caller = c BY <1>2, <2>2 DEF Launched
    <3>. QED BY <1>1, <1>6, <3>1
  <2>. QED BY <1>1, <1>7, <2>1, <2>2, EnqueueNew DEF Is
<1>. QED BY <1>1, <1>2, <1>6, <1>7 DEF InputTrue

\* ... and so keeps the call invariant.
LEMMA EnqueueCall ==
    ASSUME CallInv, NEW g, NEW m, NEW c, NEW launched, NEW refused, NEW ending,
           EnqueueStep(g, m, c, launched, refused, ending)
    PROVE  CallInv'
<1>1. CallTypes' /\ StreamInv' BY EnqueueFacts
<1>2. ReadyLatest' BY DEF EnqueueStep
<1>. QED BY <1>1, <1>2, EnqueueOps, EnqueueOrdered, EnqueueFenced, EnqueueOrder, EnqueueInput DEF CallInv

----------------------------------------------------------------------------
(* A step that leaves the streams and the calls alone, and what the steps   *)
(* do to the data that is still needed.                                    *)

StillStep ==
    /\ UNCHANGED <<plan, queue, recorded, completed, invocation, failed, input>>
    /\ host' = host \/ (host = Idle /\ host' = [phase |-> "released"])

\* A step that leaves the streams and the host alone changes none of these.
LEMMA StillSame ==
    ASSUME StillStep
    PROVE  /\ \A s : Ops(s)' = Ops(s)
           /\ \A s, i, k : Is(s, i, k)' <=> Is(s, i, k)
           /\ (Active' <=> Active) /\ (Active => host' = host)
           /\ \A v : Ended(v)' <=> Ended(v)
           /\ \A g, v, p : Passed(g, v, p)' <=> Passed(g, v, p)
           /\ \A g, i, v, p : LaunchOf(g, i, v, p)' <=> LaunchOf(g, i, v, p)
           /\ \A g, v, p : Pending(g, v, p)' <=> Pending(g, v, p)
<1>1. /\ plan' = plan /\ queue' = queue /\ invocation' = invocation /\ failed' = failed
      /\ host' = host \/ (host = Idle /\ host' = [phase |-> "released"])
  BY DEF StillStep
<1>2. \A s : Ops(s)' = Ops(s) BY <1>1 DEF Ops
<1>3. \A s, i, k : Is(s, i, k)' <=> Is(s, i, k) BY <1>1, <1>2 DEF Is
<1>4. (Active' <=> Active) /\ (Active => host' = host) BY <1>1 DEF Active, Idle
<1>5. \A v : Ended(v)' <=> Ended(v) BY <1>1, <1>4 DEF Ended
<1>6. \A g, p : HostPast(g, p)' <=> HostPast(g, p) BY <1>1, SamePlan DEF HostPast, Idle
<1>7. \A g, v, p : Passed(g, v, p)' <=> Passed(g, v, p) BY <1>1, <1>6, SamePlan DEF Passed
<1>8. \A g, i, v, p : LaunchOf(g, i, v, p)' <=> LaunchOf(g, i, v, p)
  BY <1>1, <1>3, SamePlan DEF LaunchOf
<1>9. \A g, v, p : Pending(g, v, p)' <=> Pending(g, v, p) BY <1>2, <1>8 DEF Pending
<1>. QED BY <1>2, <1>3, <1>4, <1>5, <1>7, <1>8, <1>9

\* Such a step keeps the call invariant.
LEMMA StillCall ==
    ASSUME CallInv, StillStep
    PROVE  CallInv'
<1>. USE DEF CallInv
<1>1. /\ plan' = plan /\ queue' = queue /\ recorded' = recorded /\ completed' = completed
      /\ invocation' = invocation /\ failed' = failed /\ input' = input
      /\ host' = host \/ (host = Idle /\ host' = [phase |-> "released"])
  BY DEF StillStep
<1>2. /\ \A s : Ops(s)' = Ops(s)
      /\ \A s, i, k : Is(s, i, k)' <=> Is(s, i, k)
      /\ (Active' <=> Active) /\ (Active => host' = host)
      /\ \A v : Ended(v)' <=> Ended(v)
      /\ \A g, v, p : Passed(g, v, p)' <=> Passed(g, v, p)
      /\ \A g, i, v, p : LaunchOf(g, i, v, p)' <=> LaunchOf(g, i, v, p)
      /\ \A g, v, p : Pending(g, v, p)' <=> Pending(g, v, p)
  BY StillSame
<1>3. /\ Group' = Group /\ Last' = Last /\ Boundary' = Boundary /\ OfFactors' = OfFactors /\ MayFail' = MayFail
      /\ Offset' = Offset /\ Digits!Slice' = Digits!Slice /\ Operation' = Operation
      /\ \A o : SlotOf(o)' = SlotOf(o)
  BY <1>1, SamePlan
<1>4. \A s, i, t, j : Behind(s, i, t, j)' <=> Behind(s, i, t, j) BY <1>1, <1>2 DEF Behind
<1>5. \A s, i, t, j : BehindCaller(s, i, t, j)' <=> BehindCaller(s, i, t, j)
  BY <1>1, <1>2, <1>4 DEF BehindCaller
<1>6. \A s, t, j : Held(s, t, j)' <=> Held(s, t, j) BY <1>1, <1>2 DEF Held
<1>7. \A s, t, j : HeldCaller(s, t, j)' <=> HeldCaller(s, t, j) BY <1>1, <1>2, <1>4 DEF HeldCaller
<1>8. \A s, i, e : RecordAfter(s, i, e)' <=> RecordAfter(s, i, e) BY <1>1, <1>2 DEF RecordAfter
<1>9. CallTypes' BY <1>1, <1>2, <1>3 DEF CallTypes, Idle
<1>10. StreamInv' BY <1>1, <1>2, <1>3 DEF StreamInv, StreamTypes, RecordsPending, RecordsUnique
<1>11. GroupOps' BY <1>1, <1>2, <1>3 DEF GroupOps
<1>12. CallerOps' BY <1>1, <1>2 DEF CallerOps
<1>13. SameCaller' BY <1>1, <1>2, <1>3 DEF SameCaller
<1>14. Ordered' BY <1>1, <1>2, <1>4, AfterSame DEF Ordered
<1>15. Fenced' BY <1>1, <1>2, <1>3, <1>5 DEF Fenced
<1>16. HostFenced' BY <1>1, <1>2, <1>3, <1>6, <1>7 DEF HostFenced
<1>17. DoneLatest' BY <1>1, <1>2, <1>3, <1>6, <1>8 DEF DoneLatest, done
<1>18. ReadyLatest'
  <2>1. CASE Active
    <3>1. host' = host BY <1>2, <2>1
    <3>2. SlotOf(host.offset)' = SlotOf(host.offset) /\ Digits!FanIn' = Digits!FanIn
      BY <1>1, <3>1, SamePlan DEF Digits!FanIn, SlotOf, Tile, Digits!ready, Digits!Slices, Digits!Last, Digits!Groups, TileBatch
    <3>3. \A e : \A g, i : RecordAfter(g, i, e) => \A f : f = e => RecordAfter(g, i, f)' BY <1>8
    <3>. QED BY <1>1, <1>2, <1>3, <3>1, <3>2, <3>3 DEF ReadyLatest, ready
  <2>2. CASE ~Active BY <1>2, <2>2 DEF ReadyLatest, Active
  <2>. QED BY <2>1, <2>2
<1>19. OrderInv'
  <2>0. \A v, p, w, q : Before(v, p, w, q)' <=> Before(v, p, w, q) BY DEF Before
  <2>1. Sorted' BY <1>2, <1>3, <2>0 DEF OrderInv, Sorted
  <2>2. LaunchPassed' BY <1>1, <1>2, <1>3 DEF OrderInv, LaunchPassed
  <2>3. Fifo' BY <1>2, <1>3, <2>0 DEF OrderInv, Fifo
  <2>4. Downstream' BY <1>2, <1>3 DEF OrderInv, Downstream
  <2>. QED BY <2>1, <2>2, <2>3, <2>4 DEF OrderInv
<1>20. InputTrue'
  <2>1. \A v, c : Uploaded(v, c)' <=> Uploaded(v, c) BY <1>1, <1>2 DEF Uploaded
  <2>2. Active => \A v, c : v = invocation /\ c = host.caller => Uploaded(v, c)' BY <2>1 DEF InputTrue
  <2>3. \A i \in Ops(0) : Is(0, i, "launch") /\ queue[0][i].invocation \notin failed
           => \A v, c : v = queue[0][i].invocation /\ c = queue[0][i].caller => Uploaded(v, c)'
    BY <2>1 DEF InputTrue
  <2>. QED BY <1>1, <1>2, <2>2, <2>3 DEF InputTrue
<1>. QED BY <1>9, <1>10, <1>11, <1>12, <1>13, <1>14, <1>15, <1>16, <1>17, <1>18, <1>19, <1>20

\* The piece is done in the group b and not yet in the one that reads it there.
Needed(b, v, p) ==
    Passed(b, v, p) /\ ~Pending(b, v, p) /\ (Pending(b + 1, v, p) \/ ~Passed(b + 1, v, p))

\* The piece is done in the last group and its caller will use it.
Delivered(c, v, p) == Passed(Last, v, p) /\ ~Pending(Last, v, p) /\ Awaited(c, v)

\* No new value is needed, or delivered, by a step that leaves the streams alone, ...
LEMMA StillNeeded ==
    ASSUME CallInv, StillStep
    PROVE  /\ \A b \in Boundary : \A v, p : Needed(b, v, p)' => Needed(b, v, p)
           /\ \A c \in Caller : \A v, p : Delivered(c, v, p)' => Delivered(c, v, p)
<1>1. Last' = Last BY SamePlan DEF StillStep
<1>2. \A c \in Caller : \A v : Awaited(c, v)' => Awaited(c, v)
  BY StillSame DEF Awaited, StillStep
<1>. QED BY <1>1, <1>2, StillSame DEF Needed, Delivered

\* ... by begin, ...
LEMMA BeginNeeded ==
    ASSUME CallInv, NEW d, BeginStep(d)
    PROVE  /\ \A b \in Boundary : \A v, p : Needed(b, v, p)' => Needed(b, v, p)
           /\ \A c \in Caller : \A v, p : Delivered(c, v, p)' => Delivered(c, v, p)
           /\ \A g \in Group : \A v, p : Passed(g, v, p)' <=> Passed(g, v, p)
           /\ \A g \in Group : \A v, p : Pending(g, v, p)' <=> Pending(g, v, p)
<1>. USE DEF CallInv
<1>0. /\ plan' = plan /\ invocation' = invocation + 1 /\ invocation \in Nat
      /\ \A g \in Group : \A v, p : Passed(g, v, p)' <=> Passed(g, v, p)
  BY BeginSame DEF BeginStep
<1>1. /\ plan' = plan /\ invocation' = invocation + 1 /\ invocation \in Nat /\ Last \in Group
      /\ Last' = Last /\ Grown
      /\ \A g \in Group : \A v, p : Passed(g, v, p)' <=> Passed(g, v, p)
  BY <1>0, SamePlan, PlanFacts, BeginQueues
<1>2. \A g \in Group : g \in Stream /\ g # d BY PlanFacts DEF BeginStep
<1>3. \A g \in Group : \A v, p : Pending(g, v, p)' <=> Pending(g, v, p)
  <2>1. \A g \in Group : \A i \in Ops(g)' : \A v, p : LaunchOf(g, i, v, p)' => LaunchOf(g, i, v, p) /\ i \in Ops(g)
    BY <1>1, <1>2, BeginNew, SamePlan DEF LaunchOf, Is
  <2>2. \A g \in Group : \A i \in Ops(g) : \A v, p : LaunchOf(g, i, v, p) => LaunchOf(g, i, v, p)' /\ i \in Ops(g)'
    BY <1>1, <1>2, KeptGrow, SamePlan DEF LaunchOf
  <2>. QED BY <2>1, <2>2 DEF Pending
<1>4. \A g \in Boundary : g \in Group /\ g + 1 \in Group BY PlanFacts DEF Group, Boundary
<1>5. ASSUME NEW c \in Caller, NEW v, Awaited(c, v)' PROVE Awaited(c, v) \/ v = invocation + 1
  <2>1. \A i \in Ops(c)' : Is(c, i, "use")' => i \in Ops(c) /\ queue'[c][i] = queue[c][i] /\ Is(c, i, "use")
    BY BeginNew, PlanFacts DEF Is
  <2>. QED BY <1>1, <1>5, <2>1 DEF Awaited
<1>6. \A g, p : ~Passed(g, invocation + 1, p) BY <1>1 DEF Passed
<1>. QED BY <1>1, <1>3, <1>4, <1>5, <1>6 DEF Needed, Delivered

\* ... or by an enqueue; its pieces are passed and pending together.
LEMMA EnqueueNeeded ==
    ASSUME CallInv, NEW g, NEW m, NEW d, NEW launched, NEW refused, NEW ending,
           EnqueueStep(g, m, d, launched, refused, ending)
    PROVE  /\ \A b \in Boundary : \A v, p : Needed(b, v, p)' => Needed(b, v, p)
           /\ \A c \in Caller : \A v, p : Delivered(c, v, p)' => Delivered(c, v, p)
           /\ \A h \in Group : \A v, p : (Passed(h, v, p) => Pending(h, v, p))
                                         => (Passed(h, v, p) => Pending(h, v, p))'
           /\ ~refused => \A h \in Group : \A v, p : (Passed(h, v, p) => Pending(h, v, p))'
                                         => (Passed(h, v, p) => Pending(h, v, p))
<1>. USE DEF CallInv
<1>. DEFINE Fresh(h, v, p) == launched /\ h = g /\ v = invocation /\ Covers(g, queue'[g][m], p)
<1>0. /\ (refused <=> invocation \in failed')
      /\ Last \in Group /\ Last' = Last /\ d \in Caller /\ g \in Group
  BY EnqueueFacts
<1>1. /\ plan' = plan /\ invocation' = invocation /\ (refused <=> invocation \in failed')
      /\ Last \in Group /\ Last' = Last /\ d \in Caller /\ g \in Group
      /\ \A h \in Group : \A v, p :
             Passed(h, v, p)' <=> ~(refused /\ v = invocation) /\ (Passed(h, v, p) \/ Fresh(h, v, p))
  BY <1>0 DEF EnqueueStep, Enqueue
<1>2. \A h \in Group : \A v, p : Pending(h, v, p)' <=> Pending(h, v, p) \/ Fresh(h, v, p)
  BY EnqueuePending
<1>3. \A h \in Group : \A v, p : Fresh(h, v, p) => ~Passed(h, v, p)
  <2>1. launched => Launched(g, m) BY DEF EnqueueStep
  <2>2. \A v, p : Passed(g, v, p) => p \in Nat BY PassedTypes
  <2>3. \A p : Fresh(g, invocation, p) /\ Passed(g, invocation, p) => p < p BY <1>1, <2>1, PlanFacts DEF Launched
  <2>. QED BY <2>2, <2>3
<1>4. \A h \in Boundary : h \in Group /\ h + 1 \in Group BY PlanFacts DEF Group, Boundary
<1>5. ASSUME NEW c \in Caller, NEW v, Awaited(c, v)' PROVE Awaited(c, v)
  <2>1. \A i \in Ops(c)' : Is(c, i, "use")' =>
            \/ i \in Ops(c) /\ queue'[c][i] = queue[c][i] /\ Is(c, i, "use")
            \/ c = d /\ queue'[c][i].invocation = invocation
    BY EnqueueNew, PlanFacts DEF Is
  <2>2. Active /\ d = host.caller /\ (Active' => host'.caller = d) BY DEF EnqueueStep, Enqueue
  <2>. QED BY <1>1, <1>5, <2>1, <2>2 DEF Awaited
<1>. HIDE DEF Fresh
<1>6. \A b \in Boundary : \A v, p : Needed(b, v, p)' => Needed(b, v, p) BY <1>1, <1>2, <1>3, <1>4 DEF Needed
<1>7. \A c \in Caller : \A v, p : Delivered(c, v, p)' => Delivered(c, v, p) BY <1>1, <1>2, <1>5 DEF Delivered
<1>8. \A h \in Group : \A v, p : (Passed(h, v, p) => Pending(h, v, p))
                                         => (Passed(h, v, p) => Pending(h, v, p))'
  BY <1>1, <1>2
<1>9. ~refused => \A h \in Group : \A v, p : (Passed(h, v, p) => Pending(h, v, p))'
                                         => (Passed(h, v, p) => Pending(h, v, p))
  BY <1>1, <1>2, <1>3
<1>. QED BY <1>6, <1>7, <1>8, <1>9

\* A pop makes a value needed, or delivered, only by finishing the launch that made it.
LEMMA PopNeeded ==
    ASSUME CallInv, NEW u, PopStep(u)
    PROVE  /\ \A b \in Boundary : \A v, p : Needed(b, v, p)' =>
                   Needed(b, v, p) \/ (u = b /\ LaunchOf(b, 1, v, p) /\ Passed(b, v, p))
           /\ \A c \in Caller : \A v, p : Delivered(c, v, p)' =>
                   /\ Awaited(c, v)
                   /\ Delivered(c, v, p) \/ (u = Last /\ LaunchOf(Last, 1, v, p) /\ Passed(Last, v, p))
<1>. USE DEF CallInv
<1>1. /\ plan' = plan /\ host' = host /\ invocation' = invocation /\ (Active' <=> Active)
      /\ \A g, v, p : Passed(g, v, p)' <=> Passed(g, v, p)
  BY PopSame DEF PopStep
<1>2. Last' = Last /\ Last \in Group /\ Caller \subseteq Stream /\ Popped(u)
  BY <1>1, SamePlan, PlanFacts DEF PopStep
<1>3. \A g \in Group : \A v, p : /\ Pending(g, v, p)' => Pending(g, v, p)
                                 /\ Pending(g, v, p) /\ ~Pending(g, v, p)' => g = u /\ LaunchOf(g, 1, v, p)
  BY PopLaunch
<1>4. \A h \in Boundary : h \in Group /\ h + 1 \in Group BY PlanFacts DEF Group, Boundary
<1>5. ASSUME NEW c \in Caller, NEW v, Awaited(c, v)' PROVE Awaited(c, v)
  <2>1. \A i \in Ops(c)' : Is(c, i, "use")' =>
           /\ i + Shift(c, u) \in Ops(c) /\ queue'[c][i] = queue[c][i + Shift(c, u)]
           /\ Is(c, i + Shift(c, u), "use")
    BY <1>2, KeptPop
  <2>. QED BY <1>1, <1>5, <2>1 DEF Awaited
<1>. QED BY <1>1, <1>2, <1>3, <1>4, <1>5 DEF Needed, Delivered

----------------------------------------------------------------------------
(* What the launch at the head of a stream may rely on, and disturb.       *)

\* Nothing of an earlier invocation that ended is left in any group.
LEMMA Overtaken ==
    ASSUME CallInv, NEW g \in Group, Is(g, 1, "launch"), NEW h \in Group, NEW v, NEW p,
           Pending(h, v, p), v \notin failed, v < queue[g][1].invocation
    PROVE  FALSE
<1>. USE DEF CallInv
<1>1. PICK i \in Ops(h) : LaunchOf(h, i, v, p) BY DEF Pending
<1>2. v \in Nat /\ v \in 1 .. invocation /\ p \in Piece /\ invocation \in Nat BY <1>1, LaunchTypes
<1>3. queue[g][1].invocation \in 1 .. invocation BY DEF GroupOps, Is
<1>4. Ended(v) BY <1>2, <1>3 DEF Ended
<1>5. Pending(Last, v, p)
  <2>1. CASE h = Last BY <2>1
  <2>2. CASE h # Last
    <3>1. h < Last /\ Last \in Group BY <2>2, PlanFacts DEF Group, Last
    <3>2. Passed(Last, v, p) BY <1>2, <1>4, AllPassed
    <3>. QED BY <3>1, <3>2 DEF OrderInv, Downstream
  <2>. QED BY <2>1, <2>2
<1>6. PICK j \in Ops(Last) : LaunchOf(Last, j, v, p) BY <1>5 DEF Pending
<1>7. BehindCaller(g, 1, Last, j) BY <1>6 DEF Fenced, LaunchOf, Is
<1>. QED BY <1>7, BehindHead

\* A launch at the head of a group comes after the pieces the group has done.
LEMMA HeadBefore ==
    ASSUME CallInv, NEW g \in Group, NEW v, NEW p, NEW w, NEW q,
           LaunchOf(g, 1, w, q), Passed(g, v, p), ~Pending(g, v, p)
    PROVE  v < w \/ (v = w /\ p < q)
<1>. USE DEF CallInv
<1>1. v \in Nat /\ p \in Nat BY PassedTypes
<1>2. w \in Nat /\ q \in Nat BY LaunchTypes
<1>3. 1 \in Ops(g) BY DEF LaunchOf, Is
<1>4. ~Before(w, q, v, p) BY <1>3 DEF OrderInv, Fifo
<1>5. ~(v = w /\ p = q) BY <1>3 DEF Pending
<1>. QED BY <1>1, <1>2, <1>4, <1>5 DEF Before

\* While a value is needed downstream, the next launch of its group is for a later
\* piece of the same invocation.
LEMMA Intact ==
    ASSUME CallInv, NEW g \in Boundary, NEW v, NEW p, NEW w, NEW q,
           Needed(g, v, p), LaunchOf(g, 1, w, q)
    PROVE  v = w /\ p < q
<1>. USE DEF CallInv
<1>1. g \in Group /\ g + 1 \in Group BY PlanFacts DEF Group, Boundary
<1>2. v < w \/ (v = w /\ p < q) BY <1>1, HeadBefore DEF Needed
<1>3. ASSUME v < w PROVE FALSE
  <2>1. Is(g, 1, "launch") /\ w = queue[g][1].invocation BY DEF LaunchOf
  <2>2. v \notin failed /\ v \in 1 .. invocation /\ p \in Piece /\ invocation \in Nat
    BY PassedTypes DEF Needed
  <2>3. w \in 1 .. invocation BY <1>1, LaunchTypes
  <2>4. Ended(v) BY <1>3, <2>2, <2>3 DEF Ended
  <2>5. Passed(g + 1, v, p) BY <2>2, <2>4, AllPassed
  <2>6. Pending(g + 1, v, p) BY <2>5 DEF Needed
  <2>. QED BY <1>1, <1>3, <2>1, <2>2, <2>6, Overtaken
<1>. QED BY <1>2, <1>3

\* While a caller awaits a piece of its output, the last group's next write to it is
\* of a later piece of the same invocation.
LEMMA DeliveredIntact ==
    ASSUME CallInv, NEW c \in Caller, NEW v, NEW p, NEW w, NEW q,
           Delivered(c, v, p), LaunchOf(Last, 1, w, q), queue[Last][1].caller = c
    PROVE  v = w /\ p < q
<1>. USE DEF CallInv
<1>1. Last \in Group /\ Group \cup Caller \subseteq Stream BY PlanFacts
<1>2. v < w \/ (v = w /\ p < q) BY <1>1, HeadBefore DEF Delivered
<1>3. ASSUME v < w PROVE FALSE
  <2>1. w \in 1 .. invocation /\ invocation \in Nat BY <1>1, LaunchTypes
  <2>2. PICK i \in Ops(c) : Is(c, i, "use") /\ queue[c][i].invocation = v
    BY <1>3, <2>1 DEF Delivered, Awaited
  <2>3. LaunchAfter(Last, queue[Last][1], c, queue[c][i]) BY <1>1, <1>3, <2>2 DEF LaunchAfter, LaunchOf, Is
  <2>4. Behind(Last, 1, c, i) BY <1>1, <2>2, <2>3 DEF Ordered, After, LaunchOf, Is
  <2>. QED BY <2>4, BehindHead
<1>. QED BY <1>2, <1>3

\* The launch of an invocation writes to the caller that awaits it.
LEMMA HeadCaller ==
    ASSUME CallInv, NEW c \in Caller, NEW v, NEW p, Awaited(c, v), LaunchOf(Last, 1, v, p)
    PROVE  queue[Last][1].caller = c
<1>. USE DEF CallInv
<1>1. Last \in Group BY PlanFacts
<1>2. 1 \in Ops(Last) /\ Is(Last, 1, "launch") /\ queue[Last][1].invocation = v BY DEF LaunchOf, Is
<1>3. CASE Active /\ v = invocation /\ c = host.caller BY <1>1, <1>2, <1>3 DEF GroupOps
<1>4. CASE \E i \in Ops(c) : Is(c, i, "use") /\ queue[c][i].invocation = v
  BY <1>1, <1>2, <1>4 DEF SameCaller
<1>. QED BY <1>3, <1>4 DEF Awaited

\* The piece that it reads is there, ...
LEMMA HeadNeeds ==
    ASSUME CallInv, NEW g \in Group, g # 0, NEW v, NEW p, LaunchOf(g, 1, v, p), v \notin failed
    PROVE  g - 1 \in Boundary /\ g = (g - 1) + 1 /\ Needed(g - 1, v, p)
<1>. USE DEF CallInv
<1>1. g \in Nat /\ g - 1 \in Boundary /\ g = (g - 1) + 1 /\ g - 1 \in Group /\ g - 1 < g
  BY PlanFacts DEF Group, Boundary
<1>2. 1 \in Ops(g) BY DEF LaunchOf, Is
<1>3. Passed(g, v, p) BY <1>2 DEF OrderInv, LaunchPassed
<1>4. Passed(g - 1, v, p) BY <1>1, <1>3, PassedDown
<1>5. ~Pending(g - 1, v, p) BY <1>1, <1>3, HeadDownstream
<1>6. Pending(g, v, p) BY <1>2 DEF Pending
<1>. QED BY <1>1, <1>4, <1>5, <1>6 DEF Needed

\* ... in the first group the caller's input, ...
LEMMA HeadInput ==
    ASSUME CallInv, Is(0, 1, "launch"), queue[0][1].invocation \notin failed
    PROVE  input[queue[0][1].caller] = queue[0][1].invocation
<1>. USE DEF CallInv
<1>1. 0 \in Group /\ 0 \in Stream /\ Caller \subseteq Stream BY PlanFacts
<1>2. 1 \in Ops(0) BY DEF Is
<1>3. queue[0][1].caller \in Caller /\ queue[0][1].invocation \in Nat
  <2>1. OfFactors => queue[0][1].invocation \in Nat /\ queue[0][1].caller \in Caller
    BY <1>1, <1>2, LaunchCovers, LaunchTypes
  <2>2. ~OfFactors => queue[0][1].invocation \in Nat /\ queue[0][1].caller \in Caller
    BY <1>1, <1>2, LaunchCovers, LaunchTypes
  <2>. QED BY <2>1, <2>2
<1>. DEFINE c == queue[0][1].caller
            v == queue[0][1].invocation
<1>4. Uploaded(v, c) BY <1>2 DEF InputTrue
<1>5. ASSUME NEW i \in Ops(c), Is(c, i, "upload"), queue[c][i].invocation = v PROVE FALSE
  <2>1. LaunchAfter(0, queue[0][1], c, queue[c][i]) BY <1>1, <1>3, <1>5 DEF LaunchAfter, Is
  <2>2. Behind(0, 1, c, i) BY <1>1, <1>2, <1>3, <1>5, <2>1 DEF Ordered, After
  <2>. QED BY <2>2, BehindHead
<1>. QED BY <1>4, <1>5 DEF Uploaded

\* ... and a use finds the whole output.
LEMMA HeadUse ==
    ASSUME CallInv, NEW c \in Caller, Is(c, 1, "use"), NEW p \in Piece
    PROVE  Delivered(c, queue[c][1].invocation, p)
<1>. USE DEF CallInv
<1>1. 1 \in Ops(c) BY DEF Is
<1>2. Ended(queue[c][1].invocation) BY <1>1 DEF CallerOps
<1>3. Last \in Stream /\ c \in Stream BY PlanFacts
<1>4. Passed(Last, queue[c][1].invocation, p) BY <1>2, AllPassed
<1>5. ASSUME NEW j \in Ops(Last), LaunchOf(Last, j, queue[c][1].invocation, p) PROVE FALSE
  <2>1. UseAfter(c, queue[c][1], Last, queue[Last][j]) BY <1>5 DEF UseAfter, LaunchOf, Is
  <2>2. Behind(c, 1, Last, j) BY <1>1, <1>3, <2>1 DEF Ordered, After
  <2>. QED BY <2>2, BehindHead
<1>6. ~Pending(Last, queue[c][1].invocation, p) BY <1>5 DEF Pending
<1>7. Awaited(c, queue[c][1].invocation) BY <1>1 DEF Awaited
<1>. QED BY <1>4, <1>6, <1>7 DEF Delivered

\* A running launch stays at the head of its stream while the host enqueues.
LEMMA RunningStays ==
    ASSUME CallInv, RunningTrue, running' = running, plan' = plan, Grown, failed \subseteq failed'
    PROVE  RunningTrue'
<1>. USE DEF CallInv
<1>1. Group' = Group /\ Group \subseteq Stream BY SamePlan, PlanFacts
<1>2. \A g \in Group : Is(g, 1, "launch") => Is(g, 1, "launch")' /\ queue'[g][1] = queue[g][1]
  BY <1>1, KeptGrow DEF Is
<1>. QED BY <1>1, <1>2 DEF RunningTrue

\* Only a launch at the head of a group runs, also after a pop.
LEMMA RunningPops ==
    ASSUME CallInv, RunningTrue, NEW u, PopStep(u), plan' = plan,
           \A g \in Group : g # u => running'[g] = running[g],
           u \in Group => running'[u] = "idle"
    PROVE  RunningTrue'
<1>. USE DEF CallInv
<1>1. Group' = Group /\ Group \subseteq Stream /\ Popped(u) /\ failed' = failed
  BY SamePlan, PlanFacts DEF PopStep
<1>2. ASSUME NEW g \in Group, g # u, Is(g, 1, "launch")
      PROVE  Is(g, 1, "launch")' /\ queue'[g][1] = queue[g][1]
  <2>1. Len(queue'[g]) = Len(queue[g]) /\ Len(queue[g]) \in Nat BY <1>1, <1>2, Lengths DEF Popped, StreamInv, Shift
  <2>2. 1 \in Ops(g)' BY <1>2, <2>1 DEF Is, Ops
  <2>. QED BY <1>1, <1>2, <2>2, KeptPop DEF Shift
<1>3. ASSUME NEW g \in Group, running'[g] # "idle"
      PROVE  /\ Is(g, 1, "launch")'
             /\ queue'[g][1].invocation \notin failed => running'[g] = "right"
  <2>1. g # u BY <1>3
  <2>2. running[g] # "idle" /\ running'[g] = running[g] BY <1>3, <2>1
  <2>. QED BY <1>2, <2>1, <2>2 DEF RunningTrue
<1>. QED BY <1>1, <1>3 DEF RunningTrue

----------------------------------------------------------------------------
(* The device's steps of either pipeline remove the head of a stream.      *)

\* What a pop does to the sequences.
LEMMA PopQueue ==
    ASSUME StreamTypes, Operation' = Operation, NEW u \in Stream, queue[u] # <<>>,
           queue' = [queue EXCEPT ![u] = Tail(@)]
    PROVE  /\ Len(queue[u]) >= 1 /\ Head(queue[u]) = queue[u][1] /\ 1 \in Ops(u)
           /\ queue' \in [Stream -> Seq(Operation')]
           /\ \A s \in Stream : Len(queue'[s]) = Len(queue[s]) - Shift(s, u)
           /\ \A s \in Stream : \A i \in 1 .. Len(queue'[s]) : queue'[s][i] = queue[s][i + Shift(s, u)]
<1>1. queue[u] \in Seq(Operation) /\ queue \in [Stream -> Seq(Operation)] BY DEF StreamTypes
<1>2. Len(queue[u]) >= 1 /\ Head(queue[u]) = queue[u][1] /\ Len(queue[u]) \in Nat /\ 1 \in Ops(u)
  BY <1>1 DEF Ops
<1>3. /\ Tail(queue[u]) \in Seq(Operation) /\ Len(Tail(queue[u])) = Len(queue[u]) - 1
      /\ \A i \in 1 .. Len(queue[u]) - 1 : Tail(queue[u])[i] = queue[u][i + 1]
  BY <1>1, <1>2
<1>4. queue'[u] = Tail(queue[u]) /\ \A s \in Stream : s # u => queue'[s] = queue[s] BY <1>1
<1>5. queue' \in [Stream -> Seq(Operation)] BY <1>1, <1>3
<1>6. ASSUME NEW s \in Stream
      PROVE  /\ Len(queue'[s]) = Len(queue[s]) - Shift(s, u)
             /\ \A i \in 1 .. Len(queue'[s]) : queue'[s][i] = queue[s][i + Shift(s, u)]
  <2>1. CASE s = u
    <3>1. Shift(s, u) = 1 BY <2>1 DEF Shift
    <3>2. queue'[s] = Tail(queue[u]) /\ Len(queue'[s]) = Len(queue[u]) - 1 BY <1>3, <1>4, <2>1
    <3>. QED BY <1>2, <1>3, <2>1, <3>1, <3>2
  <2>2. CASE s # u
    <3>1. Len(queue[s]) \in Nat BY <1>1
    <3>2. \A i \in 1 .. Len(queue[s]) : i + 0 = i BY <3>1
    <3>3. Len(queue[s]) - 0 = Len(queue[s]) BY <3>1
    <3>. QED BY <1>4, <2>2, <3>1, <3>2, <3>3 DEF Shift
  <2>. QED BY <2>1, <2>2
<1>. QED BY <1>2, <1>5, <1>6

\* A step that pops the head of u, of the kind it executes.
LEMMA PopDevice ==
    ASSUME CallInv, NEW u \in Stream, queue[u] # <<>>, queue' = [queue EXCEPT ![u] = Tail(@)],
           recorded' = recorded, plan' = plan, host' = host, invocation' = invocation, failed' = failed,
           \/ /\ Head(queue[u]).kind = "wait" /\ Happened(Head(queue[u]).on)
              /\ completed' = completed /\ input' = input
           \/ /\ Head(queue[u]).kind = "record"
              /\ completed' = completed \cup {Head(queue[u]).mark} /\ input' = input
           \/ /\ Head(queue[u]).kind \in {"use", "launch"} /\ completed' = completed /\ input' = input
           \/ /\ Head(queue[u]).kind = "upload" /\ completed' = completed /\ u \in Caller
              /\ input' = [input EXCEPT ![u] = Head(queue[u]).invocation]
    PROVE  PopStep(u)
<1>. USE DEF CallInv, StreamInv
<1>1. Operation' = Operation BY SamePlan
<1>2. /\ Len(queue[u]) >= 1 /\ Head(queue[u]) = queue[u][1] /\ 1 \in Ops(u)
      /\ queue' \in [Stream -> Seq(Operation')]
      /\ \A s \in Stream : Len(queue'[s]) = Len(queue[s]) - Shift(s, u)
      /\ \A s \in Stream : \A i \in 1 .. Len(queue'[s]) : queue'[s][i] = queue[s][i + Shift(s, u)]
  BY <1>1, PopQueue
<1>3. \A k : Is(u, 1, k) <=> Head(queue[u]).kind = k BY <1>2 DEF Is
<1>4. Is(u, 1, "record") => Head(queue[u]).mark \in Mark BY <1>2, OperationTypes
<1>5. completed' = completed \cup {x \in Mark : Is(u, 1, "record") /\ x = queue[u][1].mark}
  <2>1. CASE Is(u, 1, "record") BY <1>2, <1>3, <1>4, <2>1
  <2>2. CASE ~Is(u, 1, "record") BY <1>3, <2>2
  <2>. QED BY <2>1, <2>2
<1>6. Is(u, 1, "wait") => Happened(queue[u][1].on) BY <1>2, <1>3
<1>7. Popped(u) BY <1>2, <1>5, <1>6 DEF Popped
<1>8. IF Is(u, 1, "upload")
      THEN u \in Caller /\ input' = [input EXCEPT ![u] = queue[u][1].invocation]
      ELSE input' = input
  BY <1>2, <1>3
<1>. QED BY <1>7, <1>8 DEF PopStep

\* What appending leaves in a sequence.
LEMMA ThreeParts ==
    ASSUME NEW S, NEW q \in Seq(S), NEW w \in Seq(S), NEW x \in Seq(S)
    PROVE  /\ (q \o w) \o x \in Seq(S)
           /\ Len((q \o w) \o x) = Len(q) + Len(w) + Len(x)
           /\ \A i \in 1 .. Len(q) : ((q \o w) \o x)[i] = q[i]
           /\ \A i \in 1 .. Len(w) : ((q \o w) \o x)[Len(q) + i] = w[i]
           /\ \A i \in 1 .. Len(x) : ((q \o w) \o x)[Len(q) + Len(w) + i] = x[i]
<1>. DEFINE y == q \o w
            z == y \o x
<1>1. /\ y \in Seq(S) /\ Len(y) = Len(q) + Len(w)
      /\ \A i \in 1 .. Len(q) : y[i] = q[i]
      /\ \A i \in 1 .. Len(w) : y[Len(q) + i] = w[i]
  BY AppendFacts
<1>0. y \in Seq(S) BY <1>1
<1>. HIDE DEF y
<1>2. /\ z \in Seq(S) /\ Len(z) = Len(y) + Len(x)
      /\ \A i \in 1 .. Len(y) : z[i] = y[i]
      /\ \A i \in 1 .. Len(x) : z[Len(y) + i] = x[i]
  BY <1>0, AppendFacts
<1>3. Len(q) \in Nat /\ Len(w) \in Nat /\ Len(x) \in Nat OBVIOUS
<1>. HIDE DEF z
<1>4. \A i \in 1 .. Len(q) : z[i] = q[i] BY <1>1, <1>2, <1>3
<1>5. \A i \in 1 .. Len(w) : Len(q) + i \in 1 .. Len(y) BY <1>1, <1>3
<1>6. \A i \in 1 .. Len(w) : z[Len(q) + i] = w[i] BY <1>1, <1>2, <1>5
<1>7. z \in Seq(S) /\ Len(z) = Len(q) + Len(w) + Len(x)
      /\ (\A i \in 1 .. Len(q) : z[i] = q[i])
      /\ (\A i \in 1 .. Len(w) : z[Len(q) + i] = w[i])
      /\ (\A i \in 1 .. Len(x) : z[Len(q) + Len(w) + i] = x[i])
  BY <1>1, <1>2, <1>4, <1>6
<1>. QED BY <1>7 DEF z, y

Joined(q, w, x, l, r) == (((q \o w) \o x) \o l) \o r

Parts(z, q, w, x, l, r) ==
    /\ Len(z) = Len(q) + Len(w) + Len(x) + Len(l) + Len(r)
    /\ \A i \in 1 .. Len(q) : z[i] = q[i]
    /\ \A i \in 1 .. Len(w) : z[Len(q) + i] = w[i]
    /\ \A i \in 1 .. Len(x) : z[Len(q) + Len(w) + i] = x[i]
    /\ \A i \in 1 .. Len(l) : z[Len(q) + Len(w) + Len(x) + i] = l[i]
    /\ \A i \in 1 .. Len(r) : z[Len(q) + Len(w) + Len(x) + Len(l) + i] = r[i]

\* A stream grown by four sequences, in terms of its parts.
LEMMA FiveParts ==
    ASSUME NEW S, NEW q \in Seq(S), NEW w \in Seq(S), NEW x \in Seq(S), NEW l \in Seq(S), NEW r \in Seq(S)
    PROVE  Joined(q, w, x, l, r) \in Seq(S) /\ Parts(Joined(q, w, x, l, r), q, w, x, l, r)
<1>. DEFINE y == (q \o w) \o x
            u == y \o l
            z == u \o r
<1>1. /\ y \in Seq(S) /\ Len(y) = Len(q) + Len(w) + Len(x)
      /\ \A i \in 1 .. Len(q) : y[i] = q[i]
      /\ \A i \in 1 .. Len(w) : y[Len(q) + i] = w[i]
      /\ \A i \in 1 .. Len(x) : y[Len(q) + Len(w) + i] = x[i]
  BY ThreeParts
<1>2. y \in Seq(S) BY <1>1
<1>. HIDE DEF y
<1>3. /\ u \in Seq(S) /\ Len(u) = Len(y) + Len(l)
      /\ \A i \in 1 .. Len(y) : u[i] = y[i]
      /\ \A i \in 1 .. Len(l) : u[Len(y) + i] = l[i]
  BY <1>2, AppendFacts
<1>4. u \in Seq(S) BY <1>3
<1>. HIDE DEF u
<1>5. /\ z \in Seq(S) /\ Len(z) = Len(u) + Len(r)
      /\ \A i \in 1 .. Len(u) : z[i] = u[i]
      /\ \A i \in 1 .. Len(r) : z[Len(u) + i] = r[i]
  BY <1>4, AppendFacts
<1>. HIDE DEF z
<1>6. Len(q) \in Nat /\ Len(w) \in Nat /\ Len(x) \in Nat /\ Len(l) \in Nat /\ Len(r) \in Nat
  OBVIOUS
<1>7. /\ \A i \in 1 .. Len(q) : i \in 1 .. Len(y) /\ i \in 1 .. Len(u)
      /\ \A i \in 1 .. Len(w) : Len(q) + i \in 1 .. Len(y) /\ Len(q) + i \in 1 .. Len(u)
      /\ \A i \in 1 .. Len(x) : Len(q) + Len(w) + i \in 1 .. Len(y) /\ Len(q) + Len(w) + i \in 1 .. Len(u)
      /\ \A i \in 1 .. Len(l) : Len(y) + i \in 1 .. Len(u)
  <2>1. \A n, b, c, d, k, j \in Nat : k = n + b + c /\ j = k + d =>
           /\ \A i \in 1 .. n : i \in 1 .. k /\ i \in 1 .. j
           /\ \A i \in 1 .. b : n + i \in 1 .. k /\ n + i \in 1 .. j
           /\ \A i \in 1 .. c : n + b + i \in 1 .. k /\ n + b + i \in 1 .. j
           /\ \A i \in 1 .. d : k + i \in 1 .. j
    OBVIOUS
  <2>2. Len(y) = Len(q) + Len(w) + Len(x) /\ Len(u) = Len(y) + Len(l) /\ Len(y) \in Nat /\ Len(u) \in Nat
    BY <1>1, <1>2, <1>3, <1>4
  <2>. QED BY <1>6, <2>1, <2>2
<1>8. /\ \A i \in 1 .. Len(q) : z[i] = q[i]
      /\ \A i \in 1 .. Len(w) : z[Len(q) + i] = w[i]
      /\ \A i \in 1 .. Len(x) : z[Len(q) + Len(w) + i] = x[i]
      /\ \A i \in 1 .. Len(l) : z[Len(y) + i] = l[i]
  BY <1>1, <1>3, <1>5, <1>7
<1>9. Len(u) = Len(q) + Len(w) + Len(x) + Len(l) /\ Len(z) = Len(q) + Len(w) + Len(x) + Len(l) + Len(r)
  BY <1>1, <1>3, <1>5, <1>6
<1>10. /\ z \in Seq(S)
       /\ Len(z) = Len(q) + Len(w) + Len(x) + Len(l) + Len(r)
       /\ \A i \in 1 .. Len(q) : z[i] = q[i]
       /\ \A i \in 1 .. Len(w) : z[Len(q) + i] = w[i]
       /\ \A i \in 1 .. Len(x) : z[Len(q) + Len(w) + i] = x[i]
       /\ \A i \in 1 .. Len(l) : z[Len(q) + Len(w) + Len(x) + i] = l[i]
       /\ \A i \in 1 .. Len(r) : z[Len(q) + Len(w) + Len(x) + Len(l) + i] = r[i]
  BY <1>1, <1>5, <1>8, <1>9
<1>11. Joined(q, w, x, l, r) = z BY DEF Joined, z, u, y
<1>12. Parts(z, q, w, x, l, r) BY <1>10 DEF Parts
<1>. QED BY <1>10, <1>11, <1>12

\* Streams that only grew.
LEMMA GrownStreams ==
    ASSUME CallTypes, StreamInv, plan' = plan, completed' = completed, NEW E, recorded' = Recording(E),
           queue' = [s \in Stream |-> queue'[s]],
           \A s \in Stream : /\ queue'[s] \in Seq(Operation)
                             /\ Len(queue'[s]) >= Len(queue[s])
                             /\ \A i \in 1 .. Len(queue[s]) : queue'[s][i] = queue[s][i]
    PROVE  Grown /\ (\A e \in Event : recorded'[e] = IF e \in E THEN recorded[e] + 1 ELSE recorded[e])
<1>. USE DEF StreamInv, StreamTypes
<1>1. Operation' = Operation BY SamePlan
<1>2. queue' \in [Stream -> Seq(Operation')] BY <1>1
<1>3. \A e \in Event : recorded'[e] = IF e \in E THEN recorded[e] + 1 ELSE recorded[e] BY DEF Recording
<1>4. recorded' \in [Event -> Nat] BY DEF Recording
<1>5. \A e \in Event : recorded'[e] >= recorded[e] BY <1>3
<1>. QED BY <1>2, <1>3, <1>4, <1>5 DEF Grown, Ops

----------------------------------------------------------------------------
(* Tiles.                                                                  *)

\* Quotient and remainder.
LEMMA DivMod ==
    ASSUME NEW a \in Nat, NEW m \in Nat \ {0}
    PROVE  /\ a \div m \in Nat
           /\ a % m \in 0 .. m - 1
           /\ a = (a \div m) * m + (a % m)
BY SMT

\* The next multiple.
LEMMA ProductStep ==
    ASSUME NEW x \in Nat, NEW y \in Nat, NEW m \in Nat \ {0}, x < y
    PROVE  x * m + m <= y * m
BY SMT

\* A quotient and a remainder determine, and are determined by, the number.
LEMMA DivModUnique ==
    ASSUME NEW m \in Nat \ {0}, NEW q \in Nat, NEW r \in 0 .. m - 1
    PROVE  /\ (q * m + r) \div m = q
           /\ (q * m + r) % m = r
<1>. DEFINE a == q * m + r
            x == a \div m
            y == a % m
<1>1. a \in Nat BY SMT
<1>2. x \in Nat /\ y \in 0 .. m - 1 /\ a = x * m + y BY <1>1, DivMod
<1>3. q * m + r = x * m + y BY <1>2
<1>4. x = q /\ y = r
  <2>. HIDE DEF x, y, a
  <2>1. CASE x < q
    <3>1. x * m + m <= q * m BY <2>1, <1>2, ProductStep
    <3>. QED BY <3>1, <1>2, <1>3, SMT
  <2>2. CASE q < x
    <3>1. q * m + m <= x * m BY <2>2, <1>2, ProductStep
    <3>. QED BY <3>1, <1>2, <1>3, SMT
  <2>3. CASE x = q BY <1>2, <1>3, <2>3, SMT
  <2>. QED BY <1>2, <2>1, <2>2, <2>3
<1>. QED BY <1>4 DEF a, x, y

\* An offset is a multiple of the tile.
LEMMA OffsetFacts ==
    ASSUME CallTypes, ~OfFactors
    PROVE  /\ 0 \in Offset /\ Tile(0) = 0
           /\ \A o \in Offset : o \in Nat /\ o < Batch /\ Tile(o) \in Nat /\ o = Tile(o) * TileBatch
           /\ \A t \in Nat : t * TileBatch < Batch => t * TileBatch \in Offset /\ Tile(t * TileBatch) = t
<1>1. Batch \in Nat \ {0} /\ TileBatch \in Nat \ {0} BY PlanFacts
<1>2. ASSUME NEW o \in Offset PROVE o \in Nat /\ o < Batch /\ Tile(o) \in Nat /\ o = Tile(o) * TileBatch
  <2>1. o \in Nat /\ o < Batch /\ o % TileBatch = 0 BY <1>1 DEF Offset
  <2>2. o \div TileBatch \in Nat /\ o = (o \div TileBatch) * TileBatch + (o % TileBatch)
    BY <1>1, <2>1, DivMod
  <2>. DEFINE x == (o \div TileBatch) * TileBatch
  <2>3. x \in Nat BY <1>1, <2>2
  <2>4. o = x + 0 BY <2>1, <2>2
  <2>. HIDE DEF x
  <2>5. o = x BY <2>3, <2>4
  <2>. QED BY <2>1, <2>2, <2>5 DEF x, Tile
<1>3. ASSUME NEW t \in Nat, t * TileBatch < Batch
      PROVE  t * TileBatch \in Offset /\ Tile(t * TileBatch) = t
  <2>. DEFINE x == t * TileBatch
  <2>1. x \in Nat BY <1>1
  <2>2. 0 \in 0 .. TileBatch - 1 BY <1>1
  <2>3. (t * TileBatch + 0) \div TileBatch = t /\ (t * TileBatch + 0) % TileBatch = 0
    BY <1>1, <2>2, DivModUnique
  <2>4. x + 0 = x BY <2>1
  <2>5. x \div TileBatch = t /\ x % TileBatch = 0 BY <2>3, <2>4
  <2>6. x < Batch BY <1>3
  <2>. HIDE DEF x
  <2>7. x \in Offset /\ Tile(x) = t BY <1>1, <2>1, <2>5, <2>6 DEF Offset, Tile
  <2>. QED BY <2>7 DEF x
<1>4. 0 \in Offset /\ Tile(0) = 0
  <2>1. 0 * TileBatch = 0 /\ 0 < Batch BY <1>1
  <2>. QED BY <1>3, <2>1
<1>. QED BY <1>2, <1>3, <1>4

\* Two tiles are a whole tile apart, two of a slot two tiles.
LEMMA OffsetGap ==
    ASSUME CallTypes, ~OfFactors, NEW p \in Offset, NEW q \in Offset, p < q
    PROVE  /\ p + TileBatch <= q /\ Tile(p) < Tile(q)
           /\ SlotOf(p) = SlotOf(q) => Tile(p) + 2 <= Tile(q)
<1>1. TileBatch \in Nat \ {0} BY PlanFacts
<1>2. /\ Tile(p) \in Nat /\ Tile(q) \in Nat /\ p \in Nat /\ q \in Nat
      /\ p = Tile(p) * TileBatch /\ q = Tile(q) * TileBatch
  BY OffsetFacts
<1>. DEFINE x == Tile(p)
            y == Tile(q)
<1>. HIDE DEF x, y
<1>3. x < y
  <2>1. CASE x = y BY <1>2, <2>1 DEF x, y
  <2>2. CASE y < x
    <3>1. y * TileBatch + TileBatch <= x * TileBatch BY <1>1, <1>2, <2>2, ProductStep DEF x, y
    <3>2. q + TileBatch <= p BY <1>2, <3>1 DEF x, y
    <3>. QED BY <1>1, <1>2, <3>2
  <2>. QED BY <1>2, <2>1, <2>2 DEF x, y
<1>4. x * TileBatch + TileBatch <= y * TileBatch BY <1>1, <1>2, <1>3, ProductStep DEF x, y
<1>5. p + TileBatch <= q BY <1>2, <1>4 DEF x, y
<1>6. ASSUME x % 2 = y % 2 PROVE x + 2 <= y
  <2>1. x \in Nat /\ y \in Nat BY <1>2 DEF x, y
  <2>. QED BY <1>3, <1>6, <2>1, SMT
<1>. QED BY <1>3, <1>5, <1>6 DEF x, y, SlotOf

\* The next tile ...
LEMMA OffsetNext ==
    ASSUME CallTypes, ~OfFactors, NEW o \in Offset, o + TileBatch < Batch
    PROVE  o + TileBatch \in Offset /\ Tile(o + TileBatch) = Tile(o) + 1
<1>1. TileBatch \in Nat \ {0} /\ Batch \in Nat BY PlanFacts
<1>2. Tile(o) \in Nat /\ o \in Nat /\ o = Tile(o) * TileBatch BY OffsetFacts
<1>. DEFINE t == Tile(o)
<1>. HIDE DEF t
<1>3. (t + 1) * TileBatch = t * TileBatch + TileBatch BY <1>1, <1>2 DEF t
<1>4. (t + 1) * TileBatch = o + TileBatch BY <1>2, <1>3 DEF t
<1>5. t + 1 \in Nat BY <1>2 DEF t
<1>6. (t + 1) * TileBatch \in Offset /\ Tile((t + 1) * TileBatch) = t + 1 BY <1>4, <1>5, OffsetFacts
<1>. QED BY <1>4, <1>6 DEF t

\* ... and the tiles before.
LEMMA OffsetBack ==
    ASSUME CallTypes, ~OfFactors, NEW o \in Offset, NEW k \in Nat, k <= Tile(o)
    PROVE  \E q \in Offset : q <= o /\ Tile(q) = Tile(o) - k /\ (k > 0 => q < o)
<1>1. TileBatch \in Nat \ {0} /\ Batch \in Nat BY PlanFacts
<1>2. Tile(o) \in Nat /\ o \in Nat /\ o < Batch /\ o = Tile(o) * TileBatch BY OffsetFacts
<1>. DEFINE t == Tile(o)
            u == t - k
<1>3. t \in Nat /\ u \in Nat /\ u <= t /\ (k > 0 => u < t) BY <1>2
<1>. HIDE DEF t, u
<1>4. u < t => u * TileBatch < o
  <2>. SUFFICES ASSUME u < t PROVE u * TileBatch < o OBVIOUS
  <2>1. u * TileBatch + TileBatch <= t * TileBatch BY <1>1, <1>3, ProductStep
  <2>2. u * TileBatch \in Nat BY <1>1, <1>3
  <2>3. u * TileBatch + TileBatch <= o BY <1>2, <2>1 DEF t
  <2>. QED BY <1>1, <1>2, <2>2, <2>3
<1>5. u = t => u * TileBatch = o BY <1>2 DEF t
<1>6. u * TileBatch \in Nat BY <1>1, <1>3
<1>7. u * TileBatch <= o /\ u * TileBatch < Batch BY <1>1, <1>2, <1>3, <1>4, <1>5, <1>6
<1>8. u * TileBatch \in Offset /\ Tile(u * TileBatch) = u BY <1>3, <1>7, OffsetFacts
<1>. QED BY <1>3, <1>4, <1>7, <1>8 DEF t, u

\* The tile of a transform.
LEMMA OffsetOf ==
    ASSUME CallTypes, ~OfFactors, NEW x \in 0 .. Batch - 1
    PROVE  /\ (x \div TileBatch) * TileBatch \in Offset
           /\ \A o : o = (x \div TileBatch) * TileBatch => x \in o .. o + Count(o) - 1
<1>1. TileBatch \in Nat \ {0} /\ Batch \in Nat BY PlanFacts
<1>. DEFINE t == x \div TileBatch
            r == x % TileBatch
            o == t * TileBatch
<1>0. x \in Nat BY <1>1
<1>2. t \in Nat /\ r \in 0 .. TileBatch - 1 /\ x = o + r BY <1>0, <1>1, DivMod
<1>3. o \in Nat BY <1>1, <1>2
<1>4. x \in Nat /\ x < Batch BY <1>1
<1>5. o <= x /\ o < Batch /\ x < o + TileBatch
  <2>. HIDE DEF t, r, o
  <2>. QED BY <1>1, <1>2, <1>3, <1>4
<1>6. o \in Offset BY <1>2, <1>5, OffsetFacts
<1>7. x \in o .. o + Count(o) - 1
  <2>. HIDE DEF t, r, o
  <2>1. Count(o) = (IF Batch - o < TileBatch THEN Batch - o ELSE TileBatch) BY DEF Count
  <2>. QED BY <1>1, <1>3, <1>4, <1>5, <2>1
<1>. QED BY <1>6, <1>7

\* The size of a tile.
LEMMA CountFacts ==
    ASSUME CallTypes, ~OfFactors, NEW o \in Offset
    PROVE  Count(o) \in Nat /\ Count(o) <= TileBatch
<1>1. TileBatch \in Nat \ {0} /\ Batch \in Nat BY PlanFacts
<1>2. o \in Nat /\ o < Batch BY OffsetFacts
<1>. QED BY <1>1, <1>2 DEF Count

\* There are two slots.
LEMMA SlotFacts ==
    ASSUME CallTypes, ~OfFactors, NEW o \in Offset
    PROVE  SlotOf(o) \in {0, 1}
<1>1. Tile(o) \in Nat BY OffsetFacts
<1>. QED BY <1>1 DEF SlotOf


\* Transforms past the batch are not counted.
LEMMA CountBatch ==
    ASSUME CallTypes, ~OfFactors, NEW o \in Offset, NEW x \in o .. o + Count(o) - 1
    PROVE  x \in 0 .. Batch - 1
<1>1. o \in Nat /\ o < Batch /\ Batch \in Nat /\ TileBatch \in Nat BY OffsetFacts, PlanFacts
<1>2. Count(o) \in Nat /\ o + Count(o) <= Batch BY <1>1 DEF Count
<1>. QED BY <1>1, <1>2
----------------------------------------------------------------------------
(* The host's steps of the batch pipeline.                                 *)

\* What EnqueueGroup puts before and behind the launch.
LEMMA BatchWaits ==
    ASSUME CallTypes, StreamTypes, ~OfFactors, NEW g \in Group, NEW o \in Offset
    PROVE  /\ SlotWait(g, o) \in Seq(Operation) /\ TileWait(g, o) \in Seq(Operation)
           /\ \A i \in 1 .. Len(SlotWait(g, o)) : SlotWait(g, o)[i].kind = "wait"
           /\ \A i \in 1 .. Len(TileWait(g, o)) : TileWait(g, o)[i].kind = "wait"
           /\ g # Last /\ Tile(o) >= 2 =>
                  Len(SlotWait(g, o)) = 1 /\ SlotWait(g, o)[1] = Wait(consumed(g, SlotOf(o)))
           /\ g # 0 => Len(TileWait(g, o)) = 1 /\ TileWait(g, o)[1] = Wait(ready(g - 1, SlotOf(o)))
<1>1. SlotOf(o) \in {0, 1} BY SlotFacts
<1>2. (g # Last => g \in Boundary) /\ (g # 0 => g - 1 \in Boundary)
  BY PlanFacts DEF Group, Boundary, Last
<1>3. /\ \A b \in Boundary : consumed(b, SlotOf(o)) \in Event /\ ready(b, SlotOf(o)) \in Event
      /\ \A e \in Event : recorded[e] \in Nat
  BY <1>1, PlanFacts DEF StreamTypes
<1>4. \A e \in Event : Wait(e) \in Operation /\ Wait(e).kind = "wait"
  BY <1>3 DEF Wait, Operation, SyncOperation, Mark
<1>5. CASE g # Last /\ Tile(o) >= 2
  <2>1. SlotWait(g, o) = <<Wait(consumed(g, SlotOf(o)))>> BY <1>5 DEF SlotWait
  <2>2. Wait(consumed(g, SlotOf(o))) \in Operation /\ Wait(consumed(g, SlotOf(o))).kind = "wait"
    BY <1>2, <1>3, <1>4, <1>5
  <2>3. /\ SlotWait(g, o) \in Seq(Operation) /\ Len(SlotWait(g, o)) = 1
        /\ SlotWait(g, o)[1] = Wait(consumed(g, SlotOf(o)))
        /\ \A i \in 1 .. Len(SlotWait(g, o)) : SlotWait(g, o)[i].kind = "wait"
    BY <2>1, <2>2
  <2>4. CASE g # 0
    <3>1. TileWait(g, o) = <<Wait(ready(g - 1, SlotOf(o)))>> BY <2>4 DEF TileWait
    <3>2. Wait(ready(g - 1, SlotOf(o))) \in Operation /\ Wait(ready(g - 1, SlotOf(o))).kind = "wait"
      BY <1>2, <1>3, <1>4, <2>4
    <3>. QED BY <2>3, <3>1, <3>2
  <2>5. CASE g = 0
    <3>1. TileWait(g, o) = <<>> BY <2>5 DEF TileWait
    <3>2. TileWait(g, o) \in Seq(Operation) /\ \A i \in 1 .. Len(TileWait(g, o)) : TileWait(g, o)[i].kind = "wait"
      BY <3>1
    <3>. QED BY <1>5, <2>3, <2>5, <3>2
  <2>. QED BY <2>4, <2>5
<1>6. CASE ~(g # Last /\ Tile(o) >= 2)
  <2>1. SlotWait(g, o) = <<>> BY <1>6 DEF SlotWait
  <2>4. CASE g # 0
    <3>1. TileWait(g, o) = <<Wait(ready(g - 1, SlotOf(o)))>> BY <2>4 DEF TileWait
    <3>2. Wait(ready(g - 1, SlotOf(o))) \in Operation /\ Wait(ready(g - 1, SlotOf(o))).kind = "wait"
      BY <1>2, <1>3, <1>4, <2>4
    <3>. QED BY <1>6, <2>1, <3>1, <3>2
  <2>5. CASE g = 0
    <3>1. TileWait(g, o) = <<>> BY <2>5 DEF TileWait
    <3>2. TileWait(g, o) \in Seq(Operation) /\ \A i \in 1 .. Len(TileWait(g, o)) : TileWait(g, o)[i].kind = "wait"
      BY <3>1
    <3>3. SlotWait(g, o) \in Seq(Operation) /\ \A i \in 1 .. Len(SlotWait(g, o)) : SlotWait(g, o)[i].kind = "wait"
      BY <2>1
    <3>. QED BY <1>6, <2>5, <3>2, <3>3
  <2>. QED BY <2>4, <2>5
<1>. QED BY <1>5, <1>6

\* The records of a group's tile, by what they announce.
LEMMA BatchRecords ==
    ASSUME CallTypes, StreamTypes, ~OfFactors, NEW g \in Group, NEW o \in Offset
    PROVE  /\ Announce(g, o) \in Seq(Operation)
           /\ Announced(g, o) \subseteq Event
           /\ \A i \in 1 .. Len(Announce(g, o)) : \E e \in Announced(g, o) : Announce(g, o)[i] = Record(e)
           /\ \A i, j \in 1 .. Len(Announce(g, o)) : Announce(g, o)[i] = Announce(g, o)[j] => i = j
           /\ \A e \in Announced(g, o) : \E i \in 1 .. Len(Announce(g, o)) : Announce(g, o)[i] = Record(e)
<1>1. SlotOf(o) \in {0, 1} BY SlotFacts
<1>2. (g # Last => g \in Boundary) /\ (g # 0 => g - 1 \in Boundary) /\ (g = 0 => g # Last)
  BY PlanFacts DEF Group, Boundary, Last
<1>3. /\ \A b \in Boundary : consumed(b, SlotOf(o)) \in Event /\ ready(b, SlotOf(o)) \in Event
      /\ \A e \in Event : recorded[e] \in Nat
  BY <1>1, PlanFacts DEF StreamTypes
<1>4. \A e \in Event : Record(e) \in Operation
  BY <1>3 DEF Record, Operation, SyncOperation, Mark
<1>. DEFINE a == consumed(g - 1, SlotOf(o))
            b == ready(g, SlotOf(o))
<1>5. a # b BY DEF consumed, ready
<1>6. (g # 0 => a \in Event) /\ (g # Last => b \in Event) BY <1>2, <1>3
<1>7. Announced(g, o) = (IF g # 0 THEN {a} ELSE {}) \cup (IF g # Last THEN {b} ELSE {}) BY DEF Announced
<1>8. Announce(g, o) = (IF g # 0 THEN <<Record(a)>> ELSE <<>>) \o (IF g # Last THEN <<Record(b)>> ELSE <<>>)
  BY DEF Announce
<1>9. g # 0 /\ g # Last => Record(a) # Record(b) BY <1>5 DEF Record
<1>10. (g # 0 => Record(a) \in Operation) /\ (g # Last => Record(b) \in Operation) BY <1>4, <1>6
<1>. HIDE DEF a, b
<1>11. CASE g = 0
  <2>1. Announce(g, o) = <<Record(b)>> /\ Announced(g, o) = {b} BY <1>2, <1>7, <1>8, <1>11
  <2>2. b \in Event /\ Record(b) \in Operation BY <1>2, <1>6, <1>10, <1>11
  <2>3. <<Record(b)>> \in Seq(Operation) /\ Len(<<Record(b)>>) = 1 /\ <<Record(b)>>[1] = Record(b) BY <2>2
  <2>. QED BY <2>1, <2>2, <2>3
<1>12. CASE g = Last
  <2>1. Announce(g, o) = <<Record(a)>> /\ Announced(g, o) = {a} BY <1>2, <1>7, <1>8, <1>12
  <2>. QED BY <1>2, <1>6, <1>10, <1>12, <2>1
<1>13. CASE g # 0 /\ g # Last
  <2>0. Announce(g, o) = <<Record(a)>> \o <<Record(b)>> /\ Announced(g, o) = {a} \cup {b} BY <1>7, <1>8, <1>13
  <2>. DEFINE x == <<Record(a)>>
              y == <<Record(b)>>
              z == x \o y
  <2>1. x \in Seq(Operation) /\ y \in Seq(Operation) /\ Len(x) = 1 /\ Len(y) = 1 BY <1>10, <1>13
  <2>2. x[1] = Record(a) /\ y[1] = Record(b) OBVIOUS
  <2>3. Announce(g, o) = z BY <2>0
  <2>. HIDE DEF x, y
  <2>4. /\ z \in Seq(Operation) /\ Len(z) = Len(x) + Len(y)
        /\ \A i \in 1 .. Len(x) : z[i] = x[i]
        /\ \A i \in 1 .. Len(y) : z[Len(x) + i] = y[i]
    BY <2>1, AppendFacts
  <2>. HIDE DEF z
  <2>5. Len(z) = 2 /\ z[1] = x[1] /\ z[1 + 1] = y[1]
    <3>1. 1 \in 1 .. Len(x) /\ 1 \in 1 .. Len(y) BY <2>1
    <3>. QED BY <2>1, <2>4, <3>1
  <2>6. z[1] = Record(a) /\ z[2] = Record(b) BY <2>2, <2>5
  <2>. QED BY <1>6, <1>9, <1>13, <2>0, <2>3, <2>4, <2>5, <2>6
<1>. QED BY <1>11, <1>12, <1>13

\* The state of the call in progress.
LEMMA HostTypes ==
    ASSUME CallTypes, ~OfFactors, host.phase \in {"tiles", "end"}
    PROVE  /\ host.group \in Group /\ host.offset \in Offset /\ host.caller \in Caller /\ Active
           /\ host \in [phase : {"tiles", "end"}, caller : Caller, offset : Offset, group : Group]
           /\ invocation \in Nat /\ invocation \in 1 .. invocation /\ invocation \notin failed
<1>1. Active BY DEF Active
<1>2. host \in [phase : {"tiles", "end"}, caller : Caller, offset : Offset, group : Group]
  BY DEF CallTypes, Idle
<1>. QED BY <1>1, <1>2, PlansAssumption DEF CallTypes, ValidPlans

\* What the enqueue of a tile adds to its group: waits for the slot and for the tile,
\* the launch, and the records that announce it.
LEMMA GroupQueue ==
    ASSUME CallTypes, StreamInv, ~OfFactors, EnqueueGroup
    PROVE  \E m \in Nat :
               /\ Grown /\ NewRecords
               /\ New(host.group, m) /\ queue'[host.group][m] = Launch(host.group)
               /\ \A s \in Stream, i \in Nat : New(s, i) =>
                     /\ s = host.group
                     /\ \/ i = m
                        \/ i < m /\ queue'[s][i].kind = "wait"
                        \/ i > m /\ queue'[s][i].kind = "record"
               /\ host.group # Last /\ Tile(host.offset) >= 2 => \E k \in Nat :
                     /\ New(host.group, k) /\ k < m
                     /\ queue'[host.group][k] = Wait(consumed(host.group, SlotOf(host.offset)))
               /\ host.group # 0 => \E k \in Nat :
                     /\ New(host.group, k) /\ k < m
                     /\ queue'[host.group][k] = Wait(ready(host.group - 1, SlotOf(host.offset)))
               /\ \A e \in Announced(host.group, host.offset) : \E l \in Nat :
                     /\ New(host.group, l) /\ l > m /\ queue'[host.group][l] = Record(e)
               /\ Announced(host.group, host.offset) \subseteq Event
               /\ \A e \in Event : recorded'[e] = IF e \in Announced(host.group, host.offset)
                                                  THEN recorded[e] + 1 ELSE recorded[e]
<1>. USE DEF StreamInv
<1>1. /\ host.group \in Group /\ host.offset \in Offset /\ host.caller \in Caller /\ invocation \in Nat
      /\ host.phase = "tiles"
  BY HostTypes DEF EnqueueGroup
<1>. DEFINE g == host.group
            o == host.offset
            q == queue[g]
            w == SlotWait(g, o)
            x == TileWait(g, o)
            l == <<Launch(g)>>
            r == Announce(g, o)
<1>2. /\ plan' = plan /\ completed' = completed /\ recorded' = Recording(Announced(g, o))
      /\ queue' = [queue EXCEPT ![g] = (((q \o w) \o x) \o l) \o r]
  BY DEF EnqueueGroup
<1>3. g \in Stream /\ queue \in [Stream -> Seq(Operation)] /\ q \in Seq(Operation)
  BY <1>1, PlanFacts DEF StreamTypes
<1>4. /\ w \in Seq(Operation) /\ x \in Seq(Operation)
      /\ \A i \in 1 .. Len(w) : w[i].kind = "wait"
      /\ \A i \in 1 .. Len(x) : x[i].kind = "wait"
      /\ g # Last /\ Tile(o) >= 2 => Len(w) = 1 /\ w[1] = Wait(consumed(g, SlotOf(o)))
      /\ g # 0 => Len(x) = 1 /\ x[1] = Wait(ready(g - 1, SlotOf(o)))
  BY <1>1, BatchWaits
<1>5. /\ r \in Seq(Operation)
      /\ Announced(g, o) \subseteq Event
      /\ \A i \in 1 .. Len(r) : \E e \in Announced(g, o) : r[i] = Record(e)
      /\ \A i, j \in 1 .. Len(r) : r[i] = r[j] => i = j
      /\ \A e \in Announced(g, o) : \E i \in 1 .. Len(r) : r[i] = Record(e)
  BY <1>1, BatchRecords
<1>6. Launch(g) \in Operation /\ Launch(g).kind = "launch"
  <2>1. SlotOf(o) \in {0, 1} /\ o \in Nat BY <1>1, SlotFacts, OffsetFacts
  <2>2. Launch(g) \in BatchLaunch BY <1>1, <2>1 DEF Launch, BatchLaunch
  <2>. QED BY <2>2 DEF Operation, Launch
<1>7. l \in Seq(Operation) /\ Len(l) = 1 /\ l[1] = Launch(g) BY <1>6
<1>. DEFINE z == Joined(q, w, x, l, r)
<1>8. queue'[g] = z /\ \A s \in Stream : s # g => queue'[s] = queue[s] BY <1>2, <1>3 DEF Joined
<1>9. queue' = [s \in Stream |-> queue'[s]] BY <1>2, <1>3
<1>0. z = Joined(q, w, x, l, r) OBVIOUS
<1>. HIDE DEF l, r, x, w, q, z
<1>10. /\ z \in Seq(Operation)
       /\ Len(z) = Len(q) + Len(w) + Len(x) + Len(l) + Len(r)
       /\ \A i \in 1 .. Len(q) : z[i] = q[i]
       /\ \A i \in 1 .. Len(w) : z[Len(q) + i] = w[i]
       /\ \A i \in 1 .. Len(x) : z[Len(q) + Len(w) + i] = x[i]
       /\ \A i \in 1 .. Len(l) : z[Len(q) + Len(w) + Len(x) + i] = l[i]
       /\ \A i \in 1 .. Len(r) : z[Len(q) + Len(w) + Len(x) + Len(l) + i] = r[i]
  <2>1. q \in Seq(Operation) /\ w \in Seq(Operation) /\ x \in Seq(Operation) /\ l \in Seq(Operation) /\ r \in Seq(Operation)
    BY <1>3, <1>4, <1>5, <1>7
  <2>2. Joined(q, w, x, l, r) \in Seq(Operation) /\ Parts(Joined(q, w, x, l, r), q, w, x, l, r)
    BY ONLY <2>1, FiveParts
  <2>3. z \in Seq(Operation) /\ Parts(z, q, w, x, l, r) BY <1>0, <2>2
  <2>. QED BY <2>3 DEF Parts
<1>11. PICK n \in Nat, a \in Nat, b \in Nat, c \in Nat : n = Len(q) /\ a = Len(w) /\ b = Len(x) /\ c = Len(r)
  BY <1>3, <1>4, <1>5
<1>. DEFINE m == n + a + b + 1
<1>12. /\ queue[g] = q /\ Len(queue[g]) = n /\ Len(queue'[g]) = n + a + b + 1 + c
       /\ \A i \in 1 .. n : queue'[g][i] = queue[g][i]
       /\ \A i \in 1 .. a : queue'[g][n + i] = w[i]
       /\ \A i \in 1 .. b : queue'[g][n + a + i] = x[i]
       /\ queue'[g][n + a + b + 1] = Launch(g)
       /\ \A i \in 1 .. c : queue'[g][n + a + b + 1 + i] = r[i]
  <2>1. queue[g] = q BY DEF q
  <2>2. Len(queue'[g]) = n + a + b + 1 + c BY <1>7, <1>8, <1>10, <1>11
  <2>3. 1 \in 1 .. Len(l) BY <1>7
  <2>4. queue'[g][n + a + b + 1] = Launch(g) BY <1>7, <1>8, <1>10, <1>11, <2>3
  <2>5. \A i \in 1 .. c : queue'[g][n + a + b + 1 + i] = r[i] BY <1>7, <1>8, <1>10, <1>11
  <2>. QED BY <1>8, <1>10, <1>11, <2>1, <2>2, <2>4, <2>5
<1>. HIDE DEF g, o
<1>13. Grown /\ (\A e \in Event : recorded'[e] = IF e \in Announced(g, o) THEN recorded[e] + 1 ELSE recorded[e])
  <2>1. ASSUME NEW s \in Stream
        PROVE  /\ queue'[s] \in Seq(Operation)
               /\ Len(queue'[s]) >= Len(queue[s])
               /\ \A i \in 1 .. Len(queue[s]) : queue'[s][i] = queue[s][i]
    <3>1. Len(queue[s]) \in Nat /\ queue[s] \in Seq(Operation) BY <1>3
    <3>2. CASE s = g BY <1>8, <1>10, <1>12, <3>2
    <3>3. CASE s # g BY <1>8, <3>1, <3>3
    <3>. QED BY <3>2, <3>3
  <2>. QED BY <1>2, <1>9, <2>1, GrownStreams
<1>14. ASSUME NEW s \in Stream, NEW i \in Nat, New(s, i)
       PROVE  /\ s = g
              /\ \/ i \in n + 1 .. n + a /\ queue'[g][i].kind = "wait"
                 \/ i \in n + a + 1 .. n + a + b /\ queue'[g][i].kind = "wait"
                 \/ i = m
                 \/ \E j \in 1 .. c : i = m + j /\ queue'[g][i] = r[j]
  <2>1. s = g
    <3>1. s # g => queue'[s] = queue[s] /\ Len(queue[s]) \in Nat BY <1>3, <1>8
    <3>. QED BY <1>14, <3>1 DEF New
  <2>2. i \in n + 1 .. n + a + b + 1 + c BY <1>12, <1>14, <2>1 DEF New
  <2>3. CASE i \in n + 1 .. n + a
    <3>1. i - n \in 1 .. a /\ n + (i - n) = i BY <2>3
    <3>2. queue'[g][i] = w[i - n] BY <1>12, <3>1
    <3>. QED BY <1>4, <1>11, <2>1, <2>3, <3>1, <3>2
  <2>4. CASE i \in n + a + 1 .. n + a + b
    <3>1. i - (n + a) \in 1 .. b /\ n + a + (i - (n + a)) = i BY <2>4
    <3>2. queue'[g][i] = x[i - (n + a)] BY <1>12, <3>1
    <3>. QED BY <1>4, <1>11, <2>1, <2>4, <3>1, <3>2
  <2>5. CASE i = m BY <2>1, <2>5
  <2>6. CASE i \in n + a + b + 2 .. n + a + b + 1 + c
    <3>1. i - (n + a + b + 1) \in 1 .. c /\ n + a + b + 1 + (i - (n + a + b + 1)) = i BY <2>6
    <3>2. queue'[g][i] = r[i - (n + a + b + 1)] BY <1>12, <3>1
    <3>. QED BY <2>1, <3>1, <3>2
  <2>7. i \in n + 1 .. n + a \/ i \in n + a + 1 .. n + a + b \/ i = m \/ i \in n + a + b + 2 .. n + a + b + 1 + c
    BY <2>2
  <2>. QED BY <2>3, <2>4, <2>5, <2>6, <2>7
<1>15. \A s \in Stream, i \in Nat : New(s, i) =>
          /\ s = g
          /\ \/ i = m
             \/ i < m /\ queue'[s][i].kind = "wait"
             \/ i > m /\ queue'[s][i].kind = "record"
  <2>. SUFFICES ASSUME NEW s \in Stream, NEW i \in Nat, New(s, i)
                PROVE  /\ s = g
                       /\ \/ i = m
                          \/ i < m /\ queue'[s][i].kind = "wait"
                          \/ i > m /\ queue'[s][i].kind = "record"
    OBVIOUS
  <2>a. \A e : Record(e).kind = "record" BY DEF Record
  <2>b. \A j \in 1 .. c : r[j].kind = "record" BY <1>5, <1>11, <2>a
  <2>1. \A j \in 1 .. c : r[j].kind = "record" /\ j > 0 BY <2>b
  <2>2. s = g BY <1>14
  <2>3. CASE i \in n + 1 .. n + a /\ queue'[g][i].kind = "wait" BY <2>2, <2>3
  <2>4. CASE i \in n + a + 1 .. n + a + b /\ queue'[g][i].kind = "wait" BY <2>2, <2>4
  <2>5. CASE i = m BY <2>2, <2>5
  <2>6. CASE \E j \in 1 .. c : i = m + j /\ queue'[g][i] = r[j]
    <3>1. PICK j \in 1 .. c : i = m + j /\ queue'[g][i] = r[j] BY <2>6
    <3>. QED BY <2>1, <2>2, <3>1
  <2>. QED BY <1>14, <2>3, <2>4, <2>5, <2>6
<1>16. NewRecords
  <2>1. ASSUME NEW s \in Stream, NEW i \in Nat, New(s, i), queue'[s][i].kind = "record"
        PROVE  s = g /\ \E j \in 1 .. c : i = m + j /\ queue'[g][i] = r[j]
    <3>1. Launch(g).kind # "record" BY <1>6
    <3>. QED BY <1>12, <1>14, <2>1, <3>1
  <2>2. \A e \in Event : recorded[e] \in Nat BY DEF StreamTypes
  <2>3. \A s \in Stream, i \in Nat : New(s, i) /\ queue'[s][i].kind = "record" =>
           queue'[s][i].mark[2] \in recorded[queue'[s][i].mark[1]] + 1 .. recorded'[queue'[s][i].mark[1]]
    <3>. SUFFICES ASSUME NEW s \in Stream, NEW i \in Nat, New(s, i), queue'[s][i].kind = "record"
                  PROVE  queue'[s][i].mark[2] \in recorded[queue'[s][i].mark[1]] + 1 .. recorded'[queue'[s][i].mark[1]]
      OBVIOUS
    <3>1. PICK e \in Announced(g, o) : queue'[s][i] = Record(e) BY <1>5, <1>11, <2>1
    <3>2. e \in Event /\ recorded'[e] = recorded[e] + 1 /\ recorded[e] \in Nat BY <1>5, <1>13, <2>2
    <3>3. queue'[s][i].mark = <<e, recorded[e] + 1>> BY <3>1 DEF Record
    <3>. QED BY <3>2, <3>3
  <2>4. \A s, t \in Stream, i, j \in Nat :
           /\ New(s, i) /\ New(t, j) /\ queue'[s][i].kind = "record" /\ queue'[t][j].kind = "record"
           /\ queue'[s][i].mark = queue'[t][j].mark
           => s = t /\ i = j
    <3>. SUFFICES ASSUME NEW s \in Stream, NEW t \in Stream, NEW i \in Nat, NEW j \in Nat,
                         New(s, i), New(t, j), queue'[s][i].kind = "record", queue'[t][j].kind = "record",
                         queue'[s][i].mark = queue'[t][j].mark
                  PROVE  s = t /\ i = j
      OBVIOUS
    <3>1. PICK k \in 1 .. c : i = m + k /\ queue'[g][i] = r[k] BY <2>1
    <3>2. PICK h \in 1 .. c : j = m + h /\ queue'[g][j] = r[h] BY <2>1
    <3>3. s = g /\ t = g BY <2>1
    <3>4. PICK e \in Announced(g, o) : r[k] = Record(e) BY <1>5, <1>11
    <3>5. PICK f \in Announced(g, o) : r[h] = Record(f) BY <1>5, <1>11
    <3>6. r[k].mark = r[h].mark BY <3>1, <3>2, <3>3
    <3>7. e = f BY <3>4, <3>5, <3>6 DEF Record
    <3>8. k = h BY <1>5, <1>11, <3>4, <3>5, <3>7
    <3>. QED BY <3>1, <3>2, <3>3, <3>8
  <2>. QED BY <2>3, <2>4 DEF NewRecords
<1>17. \A i \in Nat : i \in n + 1 .. n + a + b + 1 + c => New(g, i) BY <1>12 DEF New
<1>18. m \in Nat /\ New(g, m) /\ queue'[g][m] = Launch(g) BY <1>12, <1>17
<1>19. g # Last /\ Tile(o) >= 2 => \E k \in Nat :
          New(g, k) /\ k < m /\ queue'[g][k] = Wait(consumed(g, SlotOf(o)))
  <2>. SUFFICES ASSUME g # Last, Tile(o) >= 2
                PROVE  \E k \in Nat : New(g, k) /\ k < m /\ queue'[g][k] = Wait(consumed(g, SlotOf(o)))
    OBVIOUS
  <2>1. a = 1 /\ w[1] = Wait(consumed(g, SlotOf(o))) BY <1>4, <1>11
  <2>2. 1 \in 1 .. a /\ n + 1 < m /\ n + 1 \in Nat /\ n + 1 \in n + 1 .. n + a + b + 1 + c BY <2>1
  <2>3. queue'[g][n + 1] = w[1] BY <1>12, <2>2
  <2>. QED BY <1>17, <2>1, <2>2, <2>3
<1>20. g # 0 => \E k \in Nat :
          New(g, k) /\ k < m /\ queue'[g][k] = Wait(ready(g - 1, SlotOf(o)))
  <2>. SUFFICES ASSUME g # 0
                PROVE  \E k \in Nat : New(g, k) /\ k < m /\ queue'[g][k] = Wait(ready(g - 1, SlotOf(o)))
    OBVIOUS
  <2>1. b = 1 /\ x[1] = Wait(ready(g - 1, SlotOf(o))) BY <1>4, <1>11
  <2>2. 1 \in 1 .. b /\ n + a + 1 < m /\ n + a + 1 \in Nat /\ n + a + 1 \in n + 1 .. n + a + b + 1 + c BY <2>1
  <2>3. queue'[g][n + a + 1] = x[1] BY <1>12, <2>2
  <2>. QED BY <1>17, <2>1, <2>2, <2>3
<1>21. \A e \in Announced(g, o) : \E k \in Nat : New(g, k) /\ k > m /\ queue'[g][k] = Record(e)
  <2>. SUFFICES ASSUME NEW e \in Announced(g, o)
                PROVE  \E k \in Nat : New(g, k) /\ k > m /\ queue'[g][k] = Record(e)
    OBVIOUS
  <2>1. PICK i \in 1 .. c : r[i] = Record(e) BY <1>5, <1>11
  <2>2. m + i \in Nat /\ m + i > m /\ m + i \in n + 1 .. n + a + b + 1 + c BY <2>1
  <2>3. queue'[g][m + i] = r[i] BY <1>12, <2>1
  <2>. QED BY <1>17, <2>1, <2>2, <2>3
<1>. HIDE DEF m
<1>22. \E mm \in Nat :
               /\ Grown /\ NewRecords
               /\ New(g, mm) /\ queue'[g][mm] = Launch(g)
               /\ \A s \in Stream, i \in Nat : New(s, i) =>
                     /\ s = g
                     /\ \/ i = mm
                        \/ i < mm /\ queue'[s][i].kind = "wait"
                        \/ i > mm /\ queue'[s][i].kind = "record"
               /\ g # Last /\ Tile(o) >= 2 => \E k \in Nat :
                     New(g, k) /\ k < mm /\ queue'[g][k] = Wait(consumed(g, SlotOf(o)))
               /\ g # 0 => \E k \in Nat :
                     New(g, k) /\ k < mm /\ queue'[g][k] = Wait(ready(g - 1, SlotOf(o)))
               /\ \A e \in Announced(g, o) : \E k \in Nat : New(g, k) /\ k > mm /\ queue'[g][k] = Record(e)
               /\ Announced(g, o) \subseteq Event
               /\ \A e \in Event : recorded'[e] = IF e \in Announced(g, o) THEN recorded[e] + 1 ELSE recorded[e]
  BY <1>5, <1>13, <1>15, <1>16, <1>18, <1>19, <1>20, <1>21
<1>. QED BY <1>22 DEF g, o

----------------------------------------------------------------------------
\* The loops: what the call has enqueued grows by this tile in this group.
LEMMA GroupHost ==
    ASSUME CallTypes, ~OfFactors, EnqueueGroup
    PROVE  /\ CallTypes' /\ Active' /\ host'.caller = host.caller /\ plan' = plan
           /\ \A h \in Group : \A p \in Offset :
                  HostPast(h, p)' <=> HostPast(h, p) \/ (h = host.group /\ p = host.offset)
           /\ \/ host'.phase = "tiles" /\ host'.group = host.group + 1 /\ host'.offset = host.offset
                 /\ host.group # Last
              \/ host'.phase = "tiles" /\ host'.group = 0
              \/ host'.phase = "end"
<1>1. /\ host.group \in Group /\ host.offset \in Offset /\ host.caller \in Caller /\ Active
      /\ host \in [phase : {"tiles", "end"}, caller : Caller, offset : Offset, group : Group]
      /\ invocation \in Nat /\ invocation \in 1 .. invocation /\ invocation \notin failed
      /\ host.phase = "tiles"
  BY HostTypes DEF EnqueueGroup
<1>2. /\ plan' = plan /\ invocation' = invocation /\ failed' = failed /\ input' = input /\ Advance
  BY DEF EnqueueGroup
<1>3. /\ Group = 0 .. Last /\ Last \in Nat /\ Groups \in Nat /\ Groups >= 2 /\ Last = Groups - 1
  BY PlanFacts DEF Group, Last
<1>4. /\ Group' = Group /\ Offset' = Offset /\ OfFactors' = OfFactors /\ MayFail' = MayFail /\ Boundary' = Boundary
      /\ Digits!Slice' = Digits!Slice
  BY <1>2, SamePlan
<1>5. \A p \in Offset : p \in Nat BY OffsetFacts
<1>6. host' \in [phase : {"tiles", "end"}, caller : Caller, offset : Offset, group : Group] =>
        CallTypes' /\ (Active' <=> host'.phase \in {"tiles", "end"})
  <2>1. host'.phase \in {"tiles", "end"} => (Active' <=> host'.phase \in {"tiles", "end"}) BY DEF Active
  <2>. QED BY <1>1, <1>2, <1>4, <2>1 DEF CallTypes, Idle
<1>7. HostPast(host.group, host.offset) = FALSE BY <1>1, <1>3, <1>5 DEF HostPast
<1>8. CASE host.group # Last
  <2>1. host' = [host EXCEPT !.group = @ + 1] BY <1>2, <1>8 DEF Advance
  <2>2. /\ host' \in [phase : {"tiles", "end"}, caller : Caller, offset : Offset, group : Group]
        /\ host'.phase = "tiles" /\ host'.caller = host.caller /\ host'.offset = host.offset
        /\ host'.group = host.group + 1
    BY <1>1, <1>3, <1>8, <2>1
  <2>3. \A h \in Group : \A p \in Offset :
            HostPast(h, p)' <=> HostPast(h, p) \/ (h = host.group /\ p = host.offset)
    BY <1>1, <1>3, <1>5, <2>2 DEF HostPast
  <2>. QED BY <1>2, <1>6, <1>8, <2>2, <2>3
<1>9. CASE host.group = Last /\ host.offset + TileBatch < Batch
  <2>0. host.offset + TileBatch \in Offset BY <1>1, <1>9, OffsetNext
  <2>1. host' = [host EXCEPT !.group = 0, !.offset = @ + TileBatch] BY <1>2, <1>9 DEF Advance
  <2>2. /\ host' \in [phase : {"tiles", "end"}, caller : Caller, offset : Offset, group : Group]
        /\ host'.phase = "tiles" /\ host'.caller = host.caller /\ host'.offset = host.offset + TileBatch
        /\ host'.group = 0
    <3>1. \A h \in [phase : {"tiles", "end"}, caller : Caller, offset : Offset, group : Group] : \A n :
              h.offset + n \in Offset /\ 0 \in Group =>
                  \A k : k = [h EXCEPT !.group = 0, !.offset = @ + n] =>
                      /\ k \in [phase : {"tiles", "end"}, caller : Caller, offset : Offset, group : Group]
                      /\ k.phase = h.phase /\ k.caller = h.caller /\ k.offset = h.offset + n /\ k.group = 0
      OBVIOUS
    <3>2. 0 \in Group BY <1>3
    <3>. QED BY <1>1, <2>0, <2>1, <3>1, <3>2
  <2>3. \A p \in Offset : p < host.offset + TileBatch <=> p <= host.offset
    <3>. SUFFICES ASSUME NEW p \in Offset PROVE p < host.offset + TileBatch <=> p <= host.offset OBVIOUS
    <3>1. p \in Nat /\ host.offset \in Nat /\ TileBatch \in Nat \ {0} BY <1>1, <1>5, PlanFacts
    <3>2. host.offset < p => host.offset + TileBatch <= p BY <1>1, OffsetGap
    <3>. QED BY <3>1, <3>2
  <2>4. \A h \in Group : \A p \in Offset : HostPast(h, p)' <=> p < host.offset + TileBatch
    <3>1. \A h \in Group : ~(h < 0) BY <1>3
    <3>2. \A h \in Group : \A p \in Offset : HostPast(h, p)' <=>
              p < host'.offset \/ (p = host'.offset /\ h < host'.group)
      BY <2>2 DEF HostPast
    <3>. QED BY <2>2, <3>1, <3>2
  <2>5. \A h \in Group : \A p \in Offset :
            HostPast(h, p) \/ (h = host.group /\ p = host.offset) <=> p <= host.offset
    BY <1>1, <1>3, <1>5, <1>9 DEF HostPast
  <2>. QED BY <1>2, <1>6, <2>2, <2>3, <2>4, <2>5
<1>10. CASE host.group = Last /\ ~(host.offset + TileBatch < Batch)
  <2>1. host' = [host EXCEPT !.phase = "end"] BY <1>2, <1>10 DEF Advance
  <2>2. /\ host' \in [phase : {"tiles", "end"}, caller : Caller, offset : Offset, group : Group]
        /\ host'.phase = "end" /\ host'.caller = host.caller
    BY <1>1, <2>1
  <2>3. \A p \in Offset : p <= host.offset
    <3>. SUFFICES ASSUME NEW p \in Offset, ~(p <= host.offset) PROVE FALSE OBVIOUS
    <3>1. p \in Nat /\ host.offset \in Nat /\ p < Batch /\ TileBatch \in Nat /\ Batch \in Nat
      BY <1>1, OffsetFacts, PlanFacts
    <3>2. host.offset + TileBatch <= p BY <1>1, <3>1, OffsetGap
    <3>. QED BY <1>10, <3>1, <3>2
  <2>4. \A h \in Group : \A p \in Offset : HostPast(h, p)'
    BY <2>2 DEF HostPast
  <2>5. \A h \in Group : \A p \in Offset :
            HostPast(h, p) \/ (h = host.group /\ p = host.offset) <=> p <= host.offset
    BY <1>1, <1>3, <1>5, <1>10 DEF HostPast
  <2>. QED BY <1>2, <1>6, <2>2, <2>3, <2>4, <2>5
<1>. QED BY <1>8, <1>9, <1>10

\* The events of one tile in one group: consumed before it, ready after it.
LEMMA AnnouncedEvents ==
    ASSUME CallTypes, ~OfFactors, NEW g \in Group, NEW o \in Offset
    PROVE  /\ g # 0 => consumed(g - 1, SlotOf(o)) \in Announced(g, o)
           /\ g # Last => ready(g, SlotOf(o)) \in Announced(g, o)
           /\ \A b \in Boundary : \A s : ready(b, s) \in Announced(g, o) => b = g
           /\ \A h \in Group : \A s : consumed(h - 1, s) \in Announced(g, o) => h = g /\ s = SlotOf(o)
           /\ done \notin Announced(g, o)
<1>1. Group \subseteq Nat BY PlanFacts
<1>2. \A h \in Group : h - 1 = g - 1 => h = g BY <1>1
<1>. QED BY <1>2 DEF Announced, consumed, ready, done

\* The enqueue of a tile is an enqueue of a call: its waits are for the records of the
\* right launches.
LEMMA BatchGroup ==
    ASSUME CallInv, ConsumedLatest, ~OfFactors, EnqueueGroup, NEW g, NEW o, g = host.group, o = host.offset
    PROVE  ConsumedLatest' /\ \E m : EnqueueStep(g, m, host.caller, TRUE, FALSE, FALSE)
<1>. USE DEF CallInv
<1>0. g = host.group /\ o = host.offset OBVIOUS
<1>1. PICK m \in Nat :
               /\ Grown /\ NewRecords
               /\ New(host.group, m) /\ queue'[host.group][m] = Launch(host.group)
               /\ \A s \in Stream, i \in Nat : New(s, i) =>
                     /\ s = host.group
                     /\ \/ i = m
                        \/ i < m /\ queue'[s][i].kind = "wait"
                        \/ i > m /\ queue'[s][i].kind = "record"
               /\ host.group # Last /\ Tile(host.offset) >= 2 => \E k \in Nat :
                     /\ New(host.group, k) /\ k < m
                     /\ queue'[host.group][k] = Wait(consumed(host.group, SlotOf(host.offset)))
               /\ host.group # 0 => \E k \in Nat :
                     /\ New(host.group, k) /\ k < m
                     /\ queue'[host.group][k] = Wait(ready(host.group - 1, SlotOf(host.offset)))
               /\ \A e \in Announced(host.group, host.offset) : \E l \in Nat :
                     /\ New(host.group, l) /\ l > m /\ queue'[host.group][l] = Record(e)
               /\ Announced(host.group, host.offset) \subseteq Event
               /\ \A e \in Event : recorded'[e] = IF e \in Announced(host.group, host.offset)
                                                  THEN recorded[e] + 1 ELSE recorded[e]
  BY GroupQueue
<1>2. /\ CallTypes' /\ Active' /\ host'.caller = host.caller /\ plan' = plan
      /\ \A h \in Group : \A p \in Offset :
             HostPast(h, p)' <=> HostPast(h, p) \/ (h = host.group /\ p = host.offset)
      /\ \/ host'.phase = "tiles" /\ host'.group = host.group + 1 /\ host'.offset = host.offset
            /\ host.group # Last
         \/ host'.phase = "tiles" /\ host'.group = 0
         \/ host'.phase = "end"
  BY GroupHost
<1>3. /\ host.group \in Group /\ host.offset \in Offset /\ host.caller \in Caller /\ Active
      /\ invocation \in Nat /\ invocation \in 1 .. invocation /\ invocation \notin failed
      /\ host.phase = "tiles"
  BY HostTypes DEF EnqueueGroup
<1>4. /\ invocation' = invocation /\ failed' = failed /\ input' = input /\ completed' = completed
  BY DEF EnqueueGroup
<1>5. g \in Group /\ o \in Offset BY <1>3
<1>6. /\ Launch(g).kind = "launch" /\ Launch(g).invocation = invocation /\ Launch(g).caller = host.caller
      /\ Launch(g).offset = o /\ Launch(g).slot = SlotOf(o)
  BY DEF Launch
<1>7. /\ g # 0 => consumed(g - 1, SlotOf(o)) \in Announced(g, o)
      /\ g # Last => ready(g, SlotOf(o)) \in Announced(g, o)
      /\ \A b \in Boundary : \A s : ready(b, s) \in Announced(g, o) => b = g
      /\ \A h \in Group : \A s : consumed(h - 1, s) \in Announced(g, o) => h = g /\ s = SlotOf(o)
      /\ done \notin Announced(g, o)
  BY <1>5, AnnouncedEvents
<1>8. /\ Group \subseteq Stream /\ Caller \subseteq Stream /\ Group \subseteq Nat /\ Group \cap Caller = {}
      /\ Group = 0 .. Last /\ Boundary = 0 .. Last - 1 /\ Last \in Nat /\ done \in Event
      /\ Boundary \subseteq Group
  BY PlanFacts DEF Group, Boundary, Last
<1>9. /\ Group' = Group /\ Last' = Last /\ Boundary' = Boundary /\ OfFactors' = OfFactors /\ Offset' = Offset
      /\ Piece' = Piece /\ (\A x : SlotOf(x)' = SlotOf(x))
  BY <1>2, SamePlan
<1>10. /\ Grown /\ NewRecords /\ New(g, m) /\ queue'[g][m] = Launch(g)
       /\ \A e \in Event : recorded[e] \in Nat /\ recorded'[e] =
              IF e \in Announced(g, o) THEN recorded[e] + 1 ELSE recorded[e]
       /\ Announced(g, o) \subseteq Event
  BY <1>1 DEF StreamInv, StreamTypes
\* The record of an event of this tile is the latest and behind its launch.
<1>11. ASSUME NEW e \in Announced(g, o), NEW i \in Nat, i <= m
       PROVE  \A f : f = e => RecordAfter(g, i, f)'
  <2>1. PICK l \in Nat : New(g, l) /\ l > m /\ queue'[g][l] = Record(e) BY <1>1
  <2>2. /\ queue'[g][l].kind = "record" /\ queue'[g][l].mark = <<e, recorded[e] + 1>>
        /\ recorded'[e] = recorded[e] + 1
    BY <1>10, <2>1 DEF Record
  <2>3. l \in Ops(g)' /\ l > i
    <3>1. Len(queue[g]) \in Nat BY <1>5, <1>8, Lengths DEF StreamInv
    <3>. QED BY <1>10, <1>11, <2>1, <3>1 DEF New, Ops
  <2>. QED BY <2>2, <2>3 DEF RecordAfter, Is
\* Where a launch of the new state comes from.
<1>12. ASSUME NEW h \in Group, NEW i \in Ops(h)', Is(h, i, "launch")'
       PROVE  /\ i \in Nat /\ i >= 1
              /\ \/ i \in Ops(h) /\ Is(h, i, "launch") /\ queue'[h][i] = queue[h][i] /\ (h = g => i <= m)
                 \/ h = g /\ i = m
  <2>1. i \in Nat /\ i >= 1 /\ Len(queue[h]) \in Nat /\ h \in Stream /\ Len(queue'[h]) \in Nat
    BY <1>8, <1>12, Lengths DEF StreamInv, Ops
  <2>2. CASE i \in Ops(h)
    <3>1. queue'[h][i] = queue[h][i] BY <1>10, <2>1, <2>2 DEF Grown
    <3>2. h = g => i <= m BY <1>10, <2>1, <2>2 DEF New, Ops
    <3>. QED BY <1>12, <2>1, <2>2, <3>1, <3>2 DEF Is
  <2>3. CASE i \notin Ops(h)
    <3>1. New(h, i) BY <1>12, <2>1, <2>3 DEF New, Ops
    <3>2. h = g /\ (i = m \/ queue'[h][i].kind \in {"wait", "record"}) BY <1>1, <2>1, <3>1 
    <3>. QED BY <1>12, <2>1, <3>2 DEF Is
  <2>. QED BY <2>2, <2>3
<1>13. ReadyLatest'
  <2>. SUFFICES ASSUME NEW b \in Boundary, NEW i \in Ops(b)', Is(b, i, "launch")',
                       host'.phase = "tiles", b < host'.group
                PROVE  \A f : f = ready(b, SlotOf(host'.offset)) => RecordAfter(b, i, f)'
    <3>1. host'.phase # "slices" /\ host'.phase # "last" BY <1>2
    <3>2. \A x : SlotOf(x)' = SlotOf(x) BY <1>9
    <3>3. (SlotOf(host.offset))' = SlotOf(host'.offset) BY <1>2, SamePlan DEF SlotOf, Tile, TileBatch
    <3>. QED BY <1>9, <3>1, <3>3 DEF ReadyLatest, ready
  <2>1. b \in Nat /\ b \in Group /\ g \in Nat BY <1>5, <1>8
  <2>2. host'.group = g + 1 /\ host'.offset = o /\ g # Last BY <1>2, <2>1
  <2>3. /\ i \in Nat /\ i >= 1
        /\ \/ i \in Ops(b) /\ Is(b, i, "launch") /\ queue'[b][i] = queue[b][i] /\ (b = g => i <= m)
           \/ b = g /\ i = m
    BY <1>12, <2>1
  <2>4. CASE b = g
    <3>1. ready(g, SlotOf(o)) \in Announced(g, o) /\ i <= m BY <1>7, <2>2, <2>3, <2>4
    <3>. QED BY <1>11, <2>2, <2>3, <2>4, <3>1
  <2>5. CASE b # g
    <3>1. i \in Ops(b) /\ Is(b, i, "launch") /\ b < g BY <2>1, <2>2, <2>3, <2>5
    <3>2. RecordAfter(b, i, ready(b, SlotOf(o))) BY <1>3, <3>1 DEF ReadyLatest
    <3>3. ready(b, SlotOf(o)) \in Event BY <1>5, SlotFacts, PlanFacts
    <3>4. recorded'[ready(b, SlotOf(o))] = recorded[ready(b, SlotOf(o))] BY <1>7, <1>10, <2>5, <3>3
    <3>5. \A f : f = ready(b, SlotOf(o)) => RecordAfter(b, i, f)'
      <4>. TAKE f
      <4>. HAVE f = ready(b, SlotOf(o))
      <4>1. RecordAfter(b, i, f) /\ recorded'[f] = recorded[f] BY <3>2, <3>4
      <4>2. b \in Stream BY <1>8, <2>1
      <4>. QED BY <1>10, <2>3, <4>1, <4>2, RecordAfterGrow
    <3>. QED BY <2>2, <3>5
  <2>. QED BY <2>4, <2>5
<1>14. ConsumedLatest'
  <2>. SUFFICES ASSUME NEW h \in Group \ {0}, NEW i \in Ops(h)', Is(h, i, "launch")'
                PROVE  \A f : f = consumed(h - 1, queue'[h][i].slot) => RecordAfter(h, i, f)'
    BY <1>9 DEF ConsumedLatest, consumed
  <2>1. h \in Group /\ h # 0 OBVIOUS
  <2>2. /\ i \in Nat /\ i >= 1
        /\ \/ i \in Ops(h) /\ Is(h, i, "launch") /\ queue'[h][i] = queue[h][i] /\ (h = g => i <= m)
           \/ h = g /\ i = m
    BY <1>12, <2>1
  <2>3. CASE h = g /\ queue'[h][i].slot = SlotOf(o)
    <3>1. consumed(g - 1, SlotOf(o)) \in Announced(g, o) /\ i <= m BY <1>7, <2>1, <2>2, <2>3
    <3>. QED BY <1>11, <2>2, <2>3, <3>1
  <2>4. CASE ~(h = g /\ queue'[h][i].slot = SlotOf(o))
    <3>1. i \in Ops(h) /\ Is(h, i, "launch") /\ queue'[h][i] = queue[h][i] BY <1>6, <1>10, <2>2, <2>4
    <3>2. RecordAfter(h, i, consumed(h - 1, queue[h][i].slot)) BY <2>1, <3>1 DEF ConsumedLatest
    <3>3. queue[h][i].slot \in {0, 1} /\ h - 1 \in Boundary /\ h \in Stream
      <4>1. i \in Ops(h) /\ h \in Stream BY <1>8, <2>1, <3>1
      <4>2. queue[h][i].slot \in {0, 1} BY <3>1, <4>1, OperationTypes DEF StreamInv
      <4>3. h - 1 \in Boundary BY <1>8, <2>1
      <4>. QED BY <4>1, <4>2, <4>3
    <3>4. consumed(h - 1, queue[h][i].slot) \in Event BY <3>3, PlanFacts
    <3>5. consumed(h - 1, queue[h][i].slot) \notin Announced(g, o) BY <1>7, <2>1, <2>4, <3>1
    <3>6. \A f : f = consumed(h - 1, queue[h][i].slot) => RecordAfter(h, i, f)'
      <4>. TAKE f
      <4>. HAVE f = consumed(h - 1, queue[h][i].slot)
      <4>1. RecordAfter(h, i, f) /\ recorded'[f] = recorded[f] BY <1>10, <3>2, <3>4, <3>5
      <4>. QED BY <1>10, <2>2, <3>3, <4>1, RecordAfterGrow
    <3>. QED BY <3>1, <3>6
  <2>. QED BY <2>3, <2>4
\* What the launch waits for.
<1>15. ASSUME NEW t \in Group, NEW j \in Ops(t),
              ReadAfter(g, queue'[g][m], t, queue[t][j]) \/ FillAfter(g, queue'[g][m], t, queue[t][j])
       PROVE  Behind(g, m, t, j)'
  <2>1. Is(t, j, "launch") /\ t \in Stream /\ g \in Stream /\ g \in Nat /\ t \in Nat
    BY <1>5, <1>8, <1>15 DEF Is, ReadAfter, FillAfter
  <2>2. \A k \in Nat : New(g, k) /\ k < m => k \in 1 .. m - 1 /\ k \in Ops(g)'
    <3>1. Len(queue[g]) \in Nat BY <2>1, Lengths DEF StreamInv
    <3>. QED BY <3>1 DEF New, Ops
  <2>3. CASE ReadAfter(g, queue'[g][m], t, queue[t][j])
    <3>1. g = t + 1 BY <2>3 DEF ReadAfter
    <3>2. g # 0 /\ g - 1 = t /\ t \in Boundary /\ t < g BY <1>5, <1>8, <2>1, <3>1
    <3>3. RecordAfter(t, j, ready(t, SlotOf(o))) BY <1>3, <2>1, <3>2 DEF ReadyLatest
    <3>4. PICK k \in Nat : New(g, k) /\ k < m /\ queue'[g][k] = Wait(ready(t, SlotOf(o)))
      BY <1>1, <3>2
    <3>5. PICK f : f = ready(t, SlotOf(o)) OBVIOUS
    <3>6. k \in 1 .. m - 1 /\ Is(g, k, "wait")' /\ queue'[g][k].on = <<f, recorded[f]>>
      BY <2>2, <3>4, <3>5 DEF Is, Wait
    <3>. QED BY <1>10, <2>1, <3>3, <3>5, <3>6, WaitedFor
  <2>4. CASE FillAfter(g, queue'[g][m], t, queue[t][j])
    <3>1. t = g + 1 /\ queue[t][j].slot = SlotOf(o) /\ queue[t][j].offset < o
      BY <1>6, <1>10, <2>4 DEF FillAfter
    <3>2. t # 0 /\ t - 1 = g /\ g # Last BY <1>8, <2>1, <3>1
    <3>3. queue[t][j].offset \in Offset /\ SlotOf(queue[t][j].offset) = SlotOf(o)
      BY <2>1, <3>1 DEF GroupOps
    <3>4. Tile(queue[t][j].offset) + 2 <= Tile(o) BY <1>5, <3>1, <3>3, OffsetGap
    <3>5. Tile(o) >= 2 BY <1>5, <3>3, <3>4, OffsetFacts
    <3>6. RecordAfter(t, j, consumed(g, SlotOf(o))) BY <2>1, <3>1, <3>2 DEF ConsumedLatest
    <3>7. PICK k \in Nat : New(g, k) /\ k < m /\ queue'[g][k] = Wait(consumed(g, SlotOf(o)))
      BY <1>1, <3>2, <3>5
    <3>8. PICK f : f = consumed(g, SlotOf(o)) OBVIOUS
    <3>9. k \in 1 .. m - 1 /\ Is(g, k, "wait")' /\ queue'[g][k].on = <<f, recorded[f]>>
      BY <2>2, <3>7, <3>8 DEF Is, Wait
    <3>. QED BY <1>10, <2>1, <3>6, <3>8, <3>9, WaitedFor
  <2>. QED BY <1>15, <2>3, <2>4
<1>16. \A p : Covers(g, queue'[g][m], p) <=> p = o BY <1>6, <1>10 DEF Covers
<1>17. \A h \in Group : \A p, q :
           Covers(g, queue'[g][m], p) /\ Passed(h, invocation, q) =>
               /\ g <= h => q < p
               /\ ~OfFactors /\ h < g => q <= p
  <2>1. \A h \in Group : \A q : Passed(h, invocation, q) => q \in Nat /\ (q < o \/ (q = o /\ h < g))
    <3>1. \A q \in Piece : q \in Nat BY PlanFacts
    <3>. QED BY <1>3, <3>1 DEF Passed, HostPast
  <2>2. o \in Nat /\ g \in Nat /\ Group \subseteq Nat BY <1>5, <1>8, OffsetFacts
  <2>. QED BY <1>16, <2>1, <2>2
<1>18. Launched(g, m) BY <1>3, <1>5, <1>6, <1>10, <1>15, <1>17 DEF Launched
<1>19. \A h \in Group : \A v, p : Passed(h, v, p)' <=>
           Passed(h, v, p) \/ (h = g /\ v = invocation /\ p = o)
  <2>1. \A h \in Group : \A p \in Offset : HostPast(h, p)' <=> HostPast(h, p) \/ (h = g /\ p = o)
    BY <1>2
  <2>2. Piece = Offset BY DEF Piece
  <2>. QED BY <1>3, <1>4, <1>5, <1>9, <2>1, <2>2 DEF Passed
<1>20. Enqueue(g, m, host.caller, TRUE, FALSE, FALSE)
  <2>1. \A s \in Stream, i \in Nat : New(s, i) =>
            s = g /\ queue'[s][i].kind \in {"wait", "record", "launch"}
    BY <1>1, <1>6, <1>10 
  <2>2. \A i \in Nat : New(g, i) /\ queue'[g][i].kind = "launch" => i = m
    <3>1. \A i \in Nat : New(g, i) => i = m \/ queue'[g][i].kind \in {"wait", "record"}
      BY <1>1, <1>5, <1>8 
    <3>. QED BY <3>1
  <2>3. \A i \in Nat : New(host.caller, i) /\ queue'[host.caller][i].kind = "use"
            => queue'[host.caller][i].invocation = invocation
    BY <1>3, <1>8, <2>1
  <2>4. failed' = failed \cup {v \in {invocation} : FALSE} BY <1>4
  <2>5. recorded'[done] = recorded[done] BY <1>7, <1>8, <1>10
  <2>. QED BY <1>2, <1>3, <1>4, <1>5, <1>10, <2>1, <2>2, <2>3, <2>4, <2>5 DEF Enqueue
<1>21. EnqueueStep(g, m, host.caller, TRUE, FALSE, FALSE)
  <2>1. \A h \in Group : \A v, p : Passed(h, v, p)' <=>
            /\ ~(FALSE /\ v = invocation)
            /\ Passed(h, v, p) \/ (TRUE /\ h = g /\ v = invocation /\ Covers(g, queue'[g][m], p))
    BY <1>16, <1>19
  <2>2. host.caller = host.caller OBVIOUS
  <2>. QED BY <1>13, <1>18, <1>20, <2>1 DEF EnqueueStep
<1>. QED BY <1>14, <1>21 
----------------------------------------------------------------------------
(* The other steps of a host, of either scheduler.                         *)

\* One stream grows.
LEMMA GrownOne ==
    ASSUME CallTypes, StreamInv, plan' = plan, completed' = completed, NEW E \in SUBSET Event, recorded' = Recording(E),
           NEW g \in Stream, NEW r \in Seq(Operation), queue' = [queue EXCEPT ![g] = r],
           Len(r) >= Len(queue[g]), \A i \in 1 .. Len(queue[g]) : r[i] = queue[g][i]
    PROVE  /\ Grown
           /\ queue'[g] = r
           /\ \A s \in Stream, i \in Nat : New(s, i) => s = g /\ i \in Len(queue[g]) + 1 .. Len(r)
           /\ \A i \in Len(queue[g]) + 1 .. Len(r) : New(g, i)
           /\ \A e \in Event : recorded[e] \in Nat /\ recorded'[e] = IF e \in E THEN recorded[e] + 1 ELSE recorded[e]
<1>. USE DEF StreamInv
<1>1. queue \in [Stream -> Seq(Operation)] /\ \A e \in Event : recorded[e] \in Nat BY DEF StreamTypes
<1>2. queue' = [s \in Stream |-> queue'[s]] /\ queue'[g] = r /\ \A s \in Stream : s # g => queue'[s] = queue[s]
  BY <1>1
<1>3. ASSUME NEW s \in Stream
      PROVE  /\ queue'[s] \in Seq(Operation)
             /\ Len(queue'[s]) >= Len(queue[s])
             /\ \A i \in 1 .. Len(queue[s]) : queue'[s][i] = queue[s][i]
  <2>1. Len(queue[s]) \in Nat /\ queue[s] \in Seq(Operation) BY <1>1
  <2>2. CASE s = g BY <1>2, <2>2
  <2>3. CASE s # g BY <1>2, <2>1, <2>3
  <2>. QED BY <2>2, <2>3
<1>4. Grown /\ (\A e \in Event : recorded'[e] = IF e \in E THEN recorded[e] + 1 ELSE recorded[e])
  BY <1>2, <1>3, GrownStreams
<1>5. \A s \in Stream, i \in Nat : New(s, i) => s = g /\ i \in Len(queue[g]) + 1 .. Len(r)
  <2>1. \A s \in Stream : Len(queue[s]) \in Nat BY <1>1
  <2>2. \A s \in Stream, i \in Nat : New(s, i) => s = g BY <1>2, <2>1 DEF New
  <2>. QED BY <1>2, <2>2 DEF New
<1>6. \A i \in Len(queue[g]) + 1 .. Len(r) : New(g, i) BY <1>2 DEF New
<1>. QED BY <1>1, <1>2, <1>4, <1>5, <1>6

\* A refused launch leaves waits behind.
LEMMA RefuseStep ==
    ASSUME CallInv, Active, MayFail, NEW g \in Group, NEW r \in Seq(Operation),
           queue' = [queue EXCEPT ![g] = r],
           Len(r) >= Len(queue[g]), \A i \in 1 .. Len(queue[g]) : r[i] = queue[g][i],
           \A i \in Len(queue[g]) + 1 .. Len(r) : r[i].kind = "wait",
           UNCHANGED <<plan, recorded, completed, invocation, input>>,
           failed' = failed \cup {invocation}, host' = Idle
    PROVE  EnqueueStep(g, 0, host.caller, FALSE, TRUE, FALSE) /\ Grown
           /\ \A s \in Stream, i \in Nat : New(s, i) => queue'[s][i].kind = "wait"
<1>. USE DEF CallInv
<1>1. g \in Stream /\ recorded' = Recording({}) /\ host.caller \in Caller /\ {} \in SUBSET Event
  <2>1. recorded' = Recording({}) BY DEF StreamInv, StreamTypes, Recording
  <2>2. host.caller \in Caller BY DEF CallTypes, Active, Idle
  <2>. QED BY <2>1, <2>2, PlanFacts
<1>2. /\ Grown
      /\ queue'[g] = r
      /\ \A s \in Stream, i \in Nat : New(s, i) => s = g /\ i \in Len(queue[g]) + 1 .. Len(r)
      /\ \A i \in Len(queue[g]) + 1 .. Len(r) : New(g, i)
  BY <1>1, GrownOne
<1>3. \A s \in Stream, i \in Nat : New(s, i) => s = g /\ queue'[s][i].kind = "wait" BY <1>2
<1>4. NewRecords BY <1>3 DEF NewRecords
<1>5. ~Active' /\ host'.phase = "idle" BY DEF Active, Idle
<1>6. CallTypes'
  <2>1. /\ OfFactors' = OfFactors /\ MayFail' = MayFail /\ Offset' = Offset /\ Group' = Group
        /\ Digits!Slice' = Digits!Slice /\ Boundary' = Boundary
    BY SamePlan
  <2>2. failed' \subseteq 1 .. invocation BY DEF CallTypes
  <2>3. host' \in {Idle', [phase |-> "released"]} BY DEF Idle
  <2>. QED BY <1>5, <2>1, <2>2, <2>3 DEF CallTypes
<1>7. ReadyLatest' BY <1>5 DEF ReadyLatest
<1>8. \A h \in Group : \A v, p : Passed(h, v, p)' <=> ~(TRUE /\ v = invocation) /\
          (Passed(h, v, p) \/ (FALSE /\ h = g /\ v = invocation /\ Covers(g, queue'[g][0], p)))
  <2>1. Piece' = Piece BY SamePlan
  <2>2. \A h, v, p : Passed(h, v, p)' <=> v # invocation /\ Passed(h, v, p) BY <2>1 DEF Passed
  <2>. QED BY <2>2
<1>9. Enqueue(g, 0, host.caller, FALSE, TRUE, FALSE)
  <2>1. failed' = failed \cup {v \in {invocation} : TRUE} OBVIOUS
  <2>2. done \in Event => recorded'[done] = recorded[done] OBVIOUS
  <2>3. \A i \in Nat : New(host.caller, i) => queue'[host.caller][i].kind = "wait"
    BY <1>1, <1>3, PlanFacts
  <2>4. \A i \in Nat : New(g, i) => queue'[g][i].kind = "wait" BY <1>1, <1>3
  <2>. QED BY <1>1, <1>2, <1>3, <1>4, <1>5, <1>6, <2>1, <2>3, <2>4 DEF Enqueue
<1>10. EnqueueStep(g, 0, host.caller, FALSE, TRUE, FALSE)
  BY <1>7, <1>8, <1>9 DEF EnqueueStep
<1>. QED BY <1>2, <1>3, <1>10

\* The end of a call: the last group's stream grows to r, whose last operation
\* records done.
EndQueue(c, r) ==
    /\ r \in Seq(Operation)
    /\ queue' = [queue EXCEPT ![Last] = r,
                     ![c] = @ \o << WaitNew(done), [kind |-> "use", invocation |-> invocation] >>]
    /\ Len(r) > Len(queue[Last])
    /\ \A i \in 1 .. Len(queue[Last]) : r[i] = queue[Last][i]
    /\ r[Len(r)] = Record(done)
    /\ \A i \in Len(queue[Last]) + 1 .. Len(r) - 1 : r[i].kind \in {"wait", "launch"}
    /\ UNCHANGED <<plan, completed, invocation>>
    /\ recorded' = Recording({done})

\* What the end of a call adds: done after the last group's launches, and the
\* caller's wait and use.
LEMMA EndQueues ==
    ASSUME CallInv, Active, NEW c, c = host.caller, NEW r, EndQueue(c, r)
    PROVE  /\ Grown /\ NewRecords /\ Finished(c)
           /\ queue'[Last] = r
           /\ \A s \in Stream, i \in Nat : New(s, i) =>
                 \/ s = Last /\ i \in Len(queue[Last]) + 1 .. Len(r)
                 \/ s = c /\ queue'[s][i].kind \in {"wait", "use"} /\
                       (queue'[s][i].kind = "use" => queue'[s][i].invocation = invocation)
           /\ \A i \in Len(queue[Last]) + 1 .. Len(r) : New(Last, i)
           /\ \A e \in Event : recorded[e] \in Nat /\ recorded'[e] = IF e = done THEN recorded[e] + 1 ELSE recorded[e]
<1>. USE DEF CallInv, StreamInv
<1>1. /\ queue \in [Stream -> Seq(Operation)] /\ \A e \in Event : recorded[e] \in Nat
      /\ done \in Event /\ Last \in Stream /\ c \in Caller /\ c \in Stream /\ c # Last /\ invocation \in Nat
  <2>1. c \in Caller /\ invocation \in Nat BY PlansAssumption DEF CallTypes, Active, Idle, ValidPlans
  <2>2. Last \in Group /\ Group \cup Caller \subseteq Stream /\ Group \cap Caller = {} /\ done \in Event
    BY PlanFacts
  <2>. QED BY <2>1, <2>2 DEF StreamTypes
<1>0. /\ r \in Seq(Operation) /\ r[Len(r)] = Record(done) /\ Len(r) > Len(queue[Last])
      /\ \A i \in 1 .. Len(queue[Last]) : r[i] = queue[Last][i]
      /\ \A i \in Len(queue[Last]) + 1 .. Len(r) - 1 : r[i].kind \in {"wait", "launch"}
      /\ plan' = plan /\ completed' = completed /\ invocation' = invocation /\ recorded' = Recording({done})
  BY DEF EndQueue
<1>. DEFINE w == WaitNew(done)
            f == [kind |-> "use", invocation |-> invocation]
            y == <<w, f>>
            q == queue[c]
            z == q \o y
<1>2. /\ w \in Operation /\ f \in Operation /\ w.kind = "wait" /\ f.kind = "use" /\ f.invocation = invocation
      /\ w.on = <<done, recorded[done] + 1>>
  BY <1>1 DEF WaitNew, Operation, SyncOperation, CallerOperation, Mark
<1>3. y \in Seq(Operation) /\ Len(y) = 2 /\ y[1] = w /\ y[2] = f BY <1>2
<1>4. q \in Seq(Operation) BY <1>1
<1>5. /\ queue' = [s \in Stream |-> queue'[s]] /\ queue'[Last] = r /\ queue'[c] = z
      /\ \A s \in Stream : s # Last /\ s # c => queue'[s] = queue[s]
  BY <1>1 DEF EndQueue
<1>6. queue[c] = q OBVIOUS
<1>. HIDE DEF w, f, y, q
<1>7. /\ z \in Seq(Operation) /\ Len(z) = Len(q) + Len(y)
      /\ \A i \in 1 .. Len(q) : z[i] = q[i]
      /\ \A i \in 1 .. Len(y) : z[Len(q) + i] = y[i]
  <2>1. q \in Seq(Operation) /\ y \in Seq(Operation) BY <1>3, <1>4
  <2>. QED BY ONLY <2>1, AppendFacts DEF z
<1>. HIDE DEF z
<1>8. PICK n \in Nat, k \in Nat, j \in Nat : n = Len(q) /\ k = Len(queue[Last]) /\ j = Len(r) BY <1>0, <1>1, <1>4
<1>9. Len(z) = n + 2 /\ z[n + 1] = w /\ z[n + 2] = f /\ k < j /\ Len(queue[c]) = n
  <2>1. 1 \in 1 .. Len(y) /\ 2 \in 1 .. Len(y) BY <1>3
  <2>. QED BY <1>0, <1>3, <1>6, <1>7, <1>8, <2>1
<1>10. ASSUME NEW s \in Stream
      PROVE  /\ queue'[s] \in Seq(Operation)
             /\ Len(queue'[s]) >= Len(queue[s])
             /\ \A i \in 1 .. Len(queue[s]) : queue'[s][i] = queue[s][i]
  <2>1. Len(queue[s]) \in Nat /\ queue[s] \in Seq(Operation) BY <1>1
  <2>2. CASE s = Last
    <3>1. Len(r) >= Len(queue[Last]) BY <1>8, <1>9
    <3>. QED BY <1>0, <1>5, <2>2, <3>1
  <2>3. CASE s = c
    <3>1. Len(z) >= Len(q) BY <1>8, <1>9
    <3>. QED BY <1>5, <1>6, <1>7, <2>3, <3>1
  <2>4. CASE s # Last /\ s # c BY <1>5, <2>1, <2>4
  <2>. QED BY <2>2, <2>3, <2>4
<1>11. Grown /\ (\A e \in Event : recorded'[e] = IF e \in {done} THEN recorded[e] + 1 ELSE recorded[e])
  BY <1>0, <1>5, <1>10, GrownStreams
<1>12. \A i \in Nat : New(c, i) => (i = n + 1 /\ queue'[c][i] = w) \/ (i = n + 2 /\ queue'[c][i] = f)
  BY <1>5, <1>9 DEF New
<1>13. \A i \in Nat : New(Last, i) <=> i \in k + 1 .. j BY <1>5, <1>8, <1>9 DEF New
<1>14. \A s \in Stream, i \in Nat : New(s, i) => s = Last \/ s = c
  <2>1. \A s \in Stream : Len(queue[s]) \in Nat BY <1>1
  <2>. QED BY <1>5, <2>1 DEF New
<1>15. \A s \in Stream, i \in Nat : New(s, i) /\ queue'[s][i].kind = "record" =>
           s = Last /\ i = j /\ queue'[s][i].mark = <<done, recorded[done] + 1>>
  <2>. SUFFICES ASSUME NEW s \in Stream, NEW i \in Nat, New(s, i), queue'[s][i].kind = "record"
                PROVE  s = Last /\ i = j /\ queue'[s][i].mark = <<done, recorded[done] + 1>>
    OBVIOUS
  <2>1. s = Last BY <1>2, <1>12, <1>14
  <2>2. i \in k + 1 .. j BY <1>13, <2>1
  <2>3. i = j
    <3>1. i \in k + 1 .. j - 1 => r[i].kind \in {"wait", "launch"} BY <1>0, <1>8
    <3>. QED BY <1>5, <2>1, <2>2, <3>1
  <2>4. queue'[s][i] = Record(done) BY <1>0, <1>5, <1>8, <2>1, <2>3
  <2>. QED BY <2>1, <2>3, <2>4 DEF Record
<1>16. NewRecords
  <2>1. recorded'[done] = recorded[done] + 1 /\ recorded[done] \in Nat BY <1>1, <1>11
  <2>. QED BY <1>15, <2>1 DEF NewRecords
<1>17. Finished(c)
  <2>1. recorded'[done] = recorded[done] + 1 BY <1>1, <1>11
  <2>2. /\ New(Last, j) /\ j = Len(queue'[Last]) /\ queue'[Last][j].kind = "record"
        /\ queue'[Last][j].mark = <<done, recorded'[done]>>
    <3>1. New(Last, j) BY <1>9, <1>13
    <3>2. queue'[Last][j] = Record(done) /\ j = Len(queue'[Last]) BY <1>0, <1>5, <1>8
    <3>. QED BY <2>1, <3>1, <3>2 DEF Record
  <2>3. /\ New(c, n + 1) /\ queue'[c][n + 1].kind = "wait" /\ queue'[c][n + 1].on = <<done, recorded'[done]>>
    BY <1>2, <1>5, <1>9, <2>1 DEF New
  <2>4. \A i \in Nat : New(c, i) /\ queue'[c][i].kind = "use" => n + 1 < i BY <1>2, <1>12
  <2>. QED BY <2>2, <2>3, <2>4 DEF Finished
<1>18. \A s \in Stream, i \in Nat : New(s, i) =>
                 \/ s = Last /\ i \in Len(queue[Last]) + 1 .. Len(r)
                 \/ s = c /\ queue'[s][i].kind \in {"wait", "use"} /\
                       (queue'[s][i].kind = "use" => queue'[s][i].invocation = invocation)
  BY <1>2, <1>8, <1>12, <1>13, <1>14
<1>19. \A i \in Len(queue[Last]) + 1 .. Len(r) : New(Last, i)
  <2>1. \A i \in k + 1 .. j : i \in Nat OBVIOUS
  <2>. QED BY <1>8, <1>13, <2>1
<1>. QED BY <1>1, <1>5, <1>11, <1>16, <1>17, <1>18, <1>19

\* A launch that throws adds waits only.
LEMMA BatchFails ==
    ASSUME CallInv, ~OfFactors, LaunchFails
    PROVE  /\ EnqueueStep(host.group, 0, host.caller, FALSE, TRUE, FALSE) /\ Grown
           /\ \A s \in Stream, i \in Nat : New(s, i) => queue'[s][i].kind = "wait"
<1>. USE DEF CallInv, StreamInv
<1>1. /\ host.group \in Group /\ host.offset \in Offset /\ host.caller \in Caller /\ Active
      /\ host.phase = "tiles"
  BY HostTypes DEF LaunchFails
<1>. DEFINE g == host.group
            o == host.offset
            q == queue[g]
            w == SlotWait(g, o)
            x == TileWait(g, o)
            r == (q \o w) \o x
<1>2. /\ queue' = [queue EXCEPT ![g] = r] /\ MayFail
      /\ UNCHANGED <<plan, recorded, completed, invocation, input>>
      /\ failed' = failed \cup {invocation} /\ host' = Idle
  BY DEF LaunchFails
<1>3. g \in Stream /\ queue \in [Stream -> Seq(Operation)] /\ q \in Seq(Operation) /\ q = queue[g]
  BY <1>1, PlanFacts DEF StreamTypes
<1>4. /\ w \in Seq(Operation) /\ x \in Seq(Operation)
      /\ \A i \in 1 .. Len(w) : w[i].kind = "wait"
      /\ \A i \in 1 .. Len(x) : x[i].kind = "wait"
  BY <1>1, BatchWaits
<1>. HIDE DEF q, w, x
<1>5. /\ r \in Seq(Operation)
      /\ Len(r) = Len(q) + Len(w) + Len(x)
      /\ \A i \in 1 .. Len(q) : r[i] = q[i]
      /\ \A i \in 1 .. Len(w) : r[Len(q) + i] = w[i]
      /\ \A i \in 1 .. Len(x) : r[Len(q) + Len(w) + i] = x[i]
  BY <1>3, <1>4, ThreeParts
<1>. HIDE DEF r
<1>6. PICK n \in Nat, a \in Nat, b \in Nat : n = Len(q) /\ a = Len(w) /\ b = Len(x) BY <1>3, <1>4
<1>7. \A i \in n + 1 .. n + a + b : r[i].kind = "wait"
  <2>. SUFFICES ASSUME NEW i \in n + 1 .. n + a + b PROVE r[i].kind = "wait" OBVIOUS
  <2>1. CASE i <= n + a
    <3>1. i - n \in 1 .. a /\ n + (i - n) = i BY <2>1
    <3>. QED BY <1>4, <1>5, <1>6, <3>1
  <2>2. CASE i > n + a
    <3>1. i - (n + a) \in 1 .. b /\ n + a + (i - (n + a)) = i BY <2>2
    <3>2. r[i] = x[i - (n + a)] BY <1>5, <1>6, <3>1
    <3>. QED BY <1>4, <1>6, <3>1, <3>2
  <2>. QED BY <2>1, <2>2
<1>8. Len(r) = n + a + b /\ Len(queue[g]) = n BY <1>3, <1>5, <1>6
<1>9. Len(r) >= Len(queue[g]) BY <1>8
<1>10. \A i \in 1 .. Len(queue[g]) : r[i] = queue[g][i] BY <1>3, <1>5
<1>11. \A i \in Len(queue[g]) + 1 .. Len(r) : r[i].kind = "wait" BY <1>7, <1>8
<1>. QED BY <1>1, <1>2, <1>5, <1>9, <1>10, <1>11, RefuseStep

\* The end of a call is an enqueue of a call.
LEMMA BatchEnd ==
    ASSUME CallInv, ~OfFactors, End
    PROVE  /\ EnqueueStep(Last, 0, host.caller, FALSE, FALSE, TRUE) /\ Grown
           /\ \A s \in Stream, i \in Nat : New(s, i) => queue'[s][i].kind \in {"record", "wait", "use"}
           /\ \A e \in Event : e # done => recorded'[e] = recorded[e]
<1>. USE DEF CallInv, StreamInv
<1>1. host.caller \in Caller /\ Active /\ host.phase = "end" BY HostTypes DEF End
<1>2. PICK c : c = host.caller OBVIOUS
<1>. DEFINE q == queue[Last]
            l == <<Record(done)>>
            r == q \o l
<1>3. /\ queue' = [queue EXCEPT ![Last] = Append(@, Record(done)),
                        ![c] = @ \o << WaitNew(done), [kind |-> "use", invocation |-> invocation] >>]
      /\ recorded' = Recording({done}) /\ host' = Idle
      /\ UNCHANGED <<plan, completed, invocation, failed, input>>
  BY <1>2 DEF End
<1>4. queue \in [Stream -> Seq(Operation)] /\ Last \in Stream /\ Last \in Group /\ q \in Seq(Operation) /\ done \in Event
  BY PlanFacts DEF StreamTypes
<1>5. Record(done) \in Operation /\ Record(done).kind = "record"
  BY <1>4 DEF Record, Operation, SyncOperation, Mark, StreamTypes
<1>6. l \in Seq(Operation) /\ Len(l) = 1 /\ l[1] = Record(done) BY <1>5
<1>7. Append(q, Record(done)) = r BY <1>4, <1>5
<1>8. queue' = [queue EXCEPT ![Last] = r,
                        ![c] = @ \o << WaitNew(done), [kind |-> "use", invocation |-> invocation] >>]
  BY <1>3, <1>7
<1>9. queue[Last] = q OBVIOUS
<1>. HIDE DEF q, l
<1>10. /\ r \in Seq(Operation) /\ Len(r) = Len(q) + Len(l)
       /\ \A i \in 1 .. Len(q) : r[i] = q[i]
       /\ \A i \in 1 .. Len(l) : r[Len(q) + i] = l[i]
  <2>1. q \in Seq(Operation) /\ l \in Seq(Operation) BY <1>4, <1>6
  <2>. QED BY ONLY <2>1, AppendFacts DEF r
<1>. HIDE DEF r
<1>11. PICK n \in Nat : n = Len(q) BY <1>4
<1>12. Len(r) = n + 1 /\ r[n + 1] = Record(done) /\ Len(queue[Last]) = n
  <2>1. 1 \in 1 .. Len(l) BY <1>6
  <2>. QED BY <1>6, <1>9, <1>10, <1>11, <2>1
<1>13. /\ Len(r) > Len(queue[Last]) /\ r[Len(r)] = Record(done)
       /\ \A i \in Len(queue[Last]) + 1 .. Len(r) - 1 : r[i].kind \in {"wait", "launch"}
       /\ \A i \in Len(queue[Last]) + 1 .. Len(r) : i = n + 1 /\ r[i] = Record(done)
  BY <1>12
<1>14. \A i \in 1 .. Len(queue[Last]) : r[i] = queue[Last][i] BY <1>9, <1>10
<1>15. /\ Grown /\ NewRecords /\ Finished(c)
       /\ queue'[Last] = r
       /\ \A s \in Stream, i \in Nat : New(s, i) =>
             \/ s = Last /\ i \in Len(queue[Last]) + 1 .. Len(r)
             \/ s = c /\ queue'[s][i].kind \in {"wait", "use"} /\
                   (queue'[s][i].kind = "use" => queue'[s][i].invocation = invocation)
       /\ \A e \in Event : recorded[e] \in Nat /\ recorded'[e] = IF e = done THEN recorded[e] + 1 ELSE recorded[e]
  <2>1. EndQueue(c, r) BY <1>3, <1>8, <1>10, <1>13, <1>14 DEF EndQueue
  <2>. QED BY <1>1, <1>2, <2>1, EndQueues
<1>16. \A s \in Stream, i \in Nat : New(s, i) =>
             \/ s = Last /\ queue'[s][i].kind = "record"
             \/ s = c /\ queue'[s][i].kind \in {"wait", "use"} /\
                   (queue'[s][i].kind = "use" => queue'[s][i].invocation = invocation)
  BY <1>5, <1>13, <1>15
<1>17. ~Active' /\ host'.phase = "idle" BY <1>3 DEF Active, Idle
<1>18. CallTypes'
  <2>1. /\ OfFactors' = OfFactors /\ MayFail' = MayFail /\ Offset' = Offset /\ Group' = Group
        /\ Digits!Slice' = Digits!Slice /\ Boundary' = Boundary
    BY <1>3, SamePlan
  <2>2. host' \in {Idle', [phase |-> "released"]} BY <1>3 DEF Idle
  <2>. QED BY <1>3, <1>17, <2>1, <2>2 DEF CallTypes
<1>19. ReadyLatest' BY <1>17 DEF ReadyLatest
<1>20. \A h \in Group : \A v, p : Passed(h, v, p)' <=>
           /\ ~(FALSE /\ v = invocation)
           /\ Passed(h, v, p) \/ (FALSE /\ h = Last /\ v = invocation /\ Covers(Last, queue'[Last][0], p))
  <2>1. Piece' = Piece BY <1>3, SamePlan
  <2>2. \A h, p : HostPast(h, p) /\ HostPast(h, p)' BY <1>1, <1>17 DEF HostPast
  <2>3. \A h, v, p : Passed(h, v, p)' <=> Passed(h, v, p) BY <1>3, <2>1, <2>2 DEF Passed
  <2>. QED BY <2>3
<1>21. Enqueue(Last, 0, c, FALSE, FALSE, TRUE)
  <2>1. failed' = failed \cup {v \in {invocation} : FALSE} BY <1>3
  <2>2. \A i \in Nat : New(c, i) /\ queue'[c][i].kind = "use" => queue'[c][i].invocation = invocation
    BY <1>1, <1>2, <1>16, PlanFacts
  <2>3. \A i \in Nat : New(Last, i) => queue'[Last][i].kind # "launch"
    BY <1>4, <1>16
  <2>. QED BY <1>1, <1>2, <1>3, <1>4, <1>15, <1>16, <1>17, <1>18, <2>1, <2>2, <2>3 DEF Enqueue
<1>22. EnqueueStep(Last, 0, c, FALSE, FALSE, TRUE)
  BY <1>15, <1>19, <1>20, <1>21 DEF EnqueueStep
<1>. QED BY <1>2, <1>15, <1>16, <1>22
----------------------------------------------------------------------------
(* The data of the batch pipeline.                                         *)

\* The latest consumed record stays behind the launches it is about when streams grow
\* without a launch, ...
LEMMA ConsumedGrow ==
    ASSUME CallInv, ~OfFactors, ConsumedLatest, Grown, plan' = plan,
           \A h \in Group : \A i \in Ops(h)' : Is(h, i, "launch")' => i \in Ops(h),
           \A h \in Group : \A s : consumed(h - 1, s) \in Event =>
               recorded'[consumed(h - 1, s)] = recorded[consumed(h - 1, s)]
    PROVE  ConsumedLatest'
<1>. USE DEF CallInv
<1>1. Group' = Group /\ Group \subseteq Stream /\ Group = 0 .. Last /\ Boundary = 0 .. Last - 1 /\ Last \in Nat
  BY SamePlan, PlanFacts DEF Group, Boundary, Last
<1>. SUFFICES ASSUME NEW h \in Group \ {0}, NEW i \in Ops(h)', Is(h, i, "launch")'
              PROVE  \A f : f = consumed(h - 1, queue'[h][i].slot) => RecordAfter(h, i, f)'
  BY <1>1 DEF ConsumedLatest, consumed
<1>2. h \in Group /\ h # 0 /\ h \in Stream /\ i \in Ops(h) BY <1>1
<1>3. Is(h, i, "launch") /\ queue'[h][i] = queue[h][i] /\ i \in Nat BY <1>2, KeptGrow
<1>4. RecordAfter(h, i, consumed(h - 1, queue[h][i].slot)) BY <1>2, <1>3 DEF ConsumedLatest
<1>5. queue[h][i].slot \in {0, 1} BY <1>2, <1>3, OperationTypes DEF StreamInv
<1>6. h - 1 \in Boundary BY <1>1, <1>2
<1>7. consumed(h - 1, queue[h][i].slot) \in Event BY <1>5, <1>6, PlanFacts
<1>. SUFFICES ASSUME NEW f, f = consumed(h - 1, queue[h][i].slot) PROVE RecordAfter(h, i, f)'
  BY <1>3
<1>8. RecordAfter(h, i, f) /\ recorded'[f] = recorded[f] BY <1>2, <1>4, <1>7
<1>. QED BY <1>2, <1>3, <1>8, RecordAfterGrow

\* ... when they pop ...
LEMMA ConsumedPop ==
    ASSUME CallInv, ~OfFactors, ConsumedLatest, NEW u, PopStep(u)
    PROVE  ConsumedLatest'
<1>. USE DEF CallInv
<1>1. Group' = Group /\ Group \subseteq Stream /\ Popped(u) BY SamePlan, PlanFacts DEF PopStep
<1>. SUFFICES ASSUME NEW h \in Group \ {0}, NEW i \in Ops(h)', Is(h, i, "launch")'
              PROVE  \A f : f = consumed(h - 1, queue'[h][i].slot) => RecordAfter(h, i, f)'
  BY <1>1 DEF ConsumedLatest, consumed
<1>2. h \in Group /\ h # 0 /\ h \in Stream BY <1>1
<1>3. /\ i \in Nat /\ i >= 1 /\ i + Shift(h, u) \in Ops(h) /\ Is(h, i + Shift(h, u), "launch")
      /\ queue'[h][i] = queue[h][i + Shift(h, u)]
  BY <1>1, <1>2, KeptPop
<1>. SUFFICES ASSUME NEW f, f = consumed(h - 1, queue'[h][i].slot) PROVE RecordAfter(h, i, f)'
  OBVIOUS
<1>4. RecordAfter(h, i + Shift(h, u), f) BY <1>2, <1>3 DEF ConsumedLatest
<1>. QED BY <1>1, <1>2, <1>3, <1>4, RecordAfterPop

\* ... and when they stay.
LEMMA ConsumedStill ==
    ASSUME ConsumedLatest, StillStep
    PROVE  ConsumedLatest'
<1>1. queue' = queue /\ recorded' = recorded /\ plan' = plan BY DEF StillStep
<1>2. Group' = Group BY <1>1, SamePlan
<1>. SUFFICES ASSUME NEW h \in Group \ {0}, NEW i \in Ops(h)', Is(h, i, "launch")'
              PROVE  \A f : f = consumed(h - 1, queue'[h][i].slot) => RecordAfter(h, i, f)'
  BY <1>2 DEF ConsumedLatest, consumed
<1>3. \A s, k, j : Is(s, j, k)' <=> Is(s, j, k) BY <1>1 DEF Is, Ops
<1>4. \A f : RecordAfter(h, i, f) => RecordAfter(h, i, f)' BY <1>1, <1>3 DEF RecordAfter, Ops
<1>5. i \in Ops(h) BY <1>1 DEF Ops
<1>. QED BY <1>1, <1>3, <1>4, <1>5 DEF ConsumedLatest

\* A step that leaves the streams alone enqueues nothing.
LEMMA StillGrown ==
    ASSUME StreamInv, StillStep
    PROVE  Grown /\ \A s, i : ~New(s, i) \/ Len(queue[s]) \notin Nat
<1>1. /\ queue' = queue /\ recorded' = recorded /\ completed' = completed /\ plan' = plan
  BY DEF StillStep
<1>2. queue \in [Stream -> Seq(Operation)] /\ recorded \in [Event -> Nat] BY DEF StreamInv, StreamTypes
<1>3. Operation' = Operation BY <1>1, SamePlan
<1>4. \A s \in Stream : Len(queue[s]) \in Nat BY <1>2
<1>5. \A e \in Event : recorded[e] \in Nat BY <1>2
<1>. QED BY <1>1, <1>2, <1>3, <1>4, <1>5 DEF Grown, New, Ops

\* What is still needed is where it was.
LEMMA BatchKeep ==
    ASSUME CallInv, ~OfFactors, BatchTypes, SlotsTrue, OutputTrue, plan' = plan,
           UNCHANGED <<running, slots, output, executed>>,
           \A b \in Boundary : \A v, p : Needed(b, v, p)' => Needed(b, v, p),
           \A c \in Caller : \A v, p : Delivered(c, v, p)' => Delivered(c, v, p)
    PROVE  BatchTypes' /\ SlotsTrue' /\ OutputTrue'
<1>1. /\ Group' = Group /\ Boundary' = Boundary /\ Last' = Last /\ Batch' = Batch
      /\ \A o : SlotOf(o)' = SlotOf(o)
  BY SamePlan
<1>2. BatchTypes' BY <1>1 DEF BatchTypes
<1>3. SlotsTrue'
  <2>1. \A b \in Boundary : \A v, o : Needed(b, v, o)' => slots'[b][SlotOf(o)] = <<v, o>>
    BY DEF SlotsTrue, Needed
  <2>. QED BY <1>1, <2>1 DEF SlotsTrue, Needed
<1>4. OutputTrue'
  <2>1. \A o : Count(o)' = Count(o) BY <1>1, SamePlan DEF Count
  <2>2. \A c \in Caller : \A v, o : Delivered(c, v, o)' => \A x \in o .. o + Count(o) - 1 : output'[c][x] = <<v, o>>
    BY DEF OutputTrue, Delivered
  <2>. QED BY <1>1, <2>1, <2>2 DEF OutputTrue, Delivered
<1>. QED BY <1>2, <1>3, <1>4

\* The source of a launch at the head of its stream is there.
LEMMA HeadSource ==
    ASSUME CallInv, ~OfFactors, SlotsTrue, NEW g \in Group, Is(g, 1, "launch"),
           queue[g][1].invocation \notin failed
    PROVE  SourceRight(g, queue[g][1])
<1>. USE DEF CallInv
<1>. DEFINE op == queue[g][1]
            v == op.invocation
            o == op.offset
<1>1. LaunchOf(g, 1, v, o) /\ op.slot = SlotOf(o)
  <2>1. 1 \in Ops(g) BY DEF Is
  <2>. QED BY <2>1, LaunchCovers DEF GroupOps
<1>2. CASE g = 0 BY <1>2, HeadInput DEF SourceRight
<1>3. CASE g # 0
  <2>1. g - 1 \in Boundary /\ g = (g - 1) + 1 /\ Needed(g - 1, v, o) BY <1>1, <1>3, HeadNeeds
  <2>2. slots[g - 1][SlotOf(o)] = <<v, o>> BY <2>1 DEF SlotsTrue, Needed
  <2>. QED BY <1>1, <1>3, <2>2 DEF SourceRight, TileOf
<1>. QED BY <1>2, <1>3

\* It fills no slot that is still needed, ...
LEMMA SlotIntact ==
    ASSUME CallInv, ~OfFactors, NEW g \in Boundary, Is(g, 1, "launch"), NEW v, NEW o, Needed(g, v, o)
    PROVE  SlotOf(o) # queue[g][1].slot
<1>. USE DEF CallInv
<1>. SUFFICES ASSUME SlotOf(o) = queue[g][1].slot PROVE FALSE OBVIOUS
<1>. DEFINE op == queue[g][1]
            w == op.invocation
            q == op.offset
<1>1. /\ g \in Group /\ g + 1 \in Group /\ Group \cup Caller \subseteq Stream /\ Groups \in Nat /\ Groups >= 2
      /\ Group \subseteq Nat
  BY PlanFacts DEF Group, Boundary
<1>2. LaunchOf(g, 1, w, q) /\ op.slot = SlotOf(q)
  <2>1. 1 \in Ops(g) BY DEF Is
  <2>. QED BY <1>1, <2>1, LaunchCovers DEF GroupOps
<1>3. v = w /\ o < q BY <1>2, Intact
<1>4. Passed(g, v, o) /\ ~Pending(g, v, o) /\ (Pending(g + 1, v, o) \/ ~Passed(g + 1, v, o)) BY DEF Needed
<1>5. v \notin failed BY <1>4 DEF Passed
<1>6. Passed(g, w, q)
  <2>1. 1 \in Ops(g) /\ w \notin failed BY <1>3, <1>5 DEF Is
  <2>. QED BY <1>1, <1>2, <2>1 DEF OrderInv, LaunchPassed
<1>7. Passed(g + 1, v, o)
  <2>1. o \in Nat /\ q \in Nat /\ o \in Piece BY <1>4, <1>6, PassedTypes
  <2>2. v = invocation => HostPast(g, q) BY <1>3, <1>6 DEF Passed
  <2>3. v = invocation /\ host.phase = "tiles" => host.offset \in Nat BY HostTypes, OffsetFacts
  <2>4. v = invocation => HostPast(g + 1, o)
    <3>1. CASE host.phase = "tiles" BY <1>3, <2>1, <2>2, <2>3, <3>1 DEF HostPast
    <3>2. CASE host.phase # "tiles"
      <4>1. host.phase \notin {"slices", "last"} BY DEF CallTypes, Idle
      <4>. QED BY <3>2, <4>1 DEF HostPast
    <3>. QED BY <3>1, <3>2
  <2>. QED BY <1>4, <2>1, <2>4 DEF Passed
<1>8. PICK j \in Ops(g + 1) : LaunchOf(g + 1, j, v, o) BY <1>4, <1>7 DEF Pending
<1>9. queue[g + 1][j].offset = o /\ queue[g + 1][j].slot = SlotOf(o) /\ queue[g + 1][j].invocation = v
      /\ queue[g + 1][j].kind = "launch"
  BY <1>1, <1>8 DEF LaunchOf, Covers, GroupOps, Is
<1>10. FillAfter(g, op, g + 1, queue[g + 1][j])
  BY <1>1, <1>3, <1>9 DEF FillAfter, Is
<1>11. g + 1 \in Stream BY <1>1
<1>. QED BY <1>1, <1>8, <1>10, <1>11, HeadFree DEF After

\* ... and no transform of an output.
LEMMA OutputIntact ==
    ASSUME CallInv, ~OfFactors, NEW c \in Caller, Is(Last, 1, "launch"), queue[Last][1].caller = c,
           NEW v, NEW o, Delivered(c, v, o), NEW x \in o .. o + Count(o) - 1
    PROVE  x \notin queue[Last][1].offset .. queue[Last][1].offset + Count(queue[Last][1].offset) - 1
<1>. USE DEF CallInv
<1>. DEFINE w == queue[Last][1].invocation
            q == queue[Last][1].offset
<1>1. Last \in Group /\ TileBatch \in Nat BY PlanFacts
<1>2. LaunchOf(Last, 1, w, q) /\ q \in Offset
  <2>1. 1 \in Ops(Last) BY DEF Is
  <2>. QED BY <1>1, <2>1, LaunchCovers DEF GroupOps
<1>3. v = w /\ o < q BY <1>2, DeliveredIntact
<1>4. o \in Offset
  <2>1. Piece = Offset BY DEF Piece
  <2>. QED BY <2>1 DEF Delivered, Passed
<1>5. o + TileBatch <= q /\ o \in Nat /\ q \in Nat BY <1>2, <1>3, <1>4, OffsetGap, OffsetFacts
<1>6. Count(o) \in Nat /\ Count(o) <= TileBatch BY <1>4, CountFacts
<1>7. x < q BY <1>1, <1>5, <1>6
<1>. QED BY <1>5, <1>7

\* What a launch writes: its slot, or the caller's tile.
LEMMA FillFacts ==
    ASSUME CallTypes, BatchTypes, ~OfFactors, NEW g \in Group, NEW op, op.slot \in {0, 1}, op.caller \in Caller,
           NEW value \in Nat \X Nat, Fill(g, op, value)
    PROVE  /\ slots' \in [Boundary -> [{0, 1} -> Nat \X Nat]]
           /\ output' \in [Caller -> [0 .. Batch - 1 -> Nat \X Nat]]
           /\ \A b \in Boundary, s \in {0, 1} :
                  slots'[b][s] = IF b = g /\ s = op.slot THEN value ELSE slots[b][s]
           /\ \A c \in Caller : \A x \in 0 .. Batch - 1 :
                  output'[c][x] = IF g = Last /\ c = op.caller
                                     /\ x \in op.offset .. op.offset + Count(op.offset) - 1
                                  THEN value ELSE output[c][x]
<1>1. Boundary = Group \ {Last} BY PlanFacts DEF Group, Boundary, Last
<1>2. /\ slots \in [Boundary -> [{0, 1} -> Nat \X Nat]]
      /\ output \in [Caller -> [0 .. Batch - 1 -> Nat \X Nat]]
  BY DEF BatchTypes
<1>3. CASE g # Last
  <2>1. slots' = [slots EXCEPT ![g][op.slot] = value] /\ output' = output BY <1>3 DEF Fill
  <2>2. g \in Boundary BY <1>1, <1>3
  <2>. QED BY <1>2, <1>3, <2>1, <2>2
<1>4. CASE g = Last
  <2>. DEFINE R == op.offset .. op.offset + Count(op.offset) - 1
  <2>1. /\ output' = [output EXCEPT ![op.caller] =
                [x \in 0 .. Batch - 1 |-> IF x \in R THEN value ELSE @[x]]]
        /\ slots' = slots
    BY <1>4 DEF Fill
  <2>. HIDE DEF R
  <2>2. g \notin Boundary BY <1>1, <1>4
  <2>3. output' \in [Caller -> [0 .. Batch - 1 -> Nat \X Nat]] BY <1>2, <2>1
  <2>4. \A c \in Caller : \A x \in 0 .. Batch - 1 :
            output'[c][x] = IF c = op.caller /\ x \in R THEN value ELSE output[c][x]
    BY <1>2, <2>1
  <2>5. slots' \in [Boundary -> [{0, 1} -> Nat \X Nat]] /\ \A b \in Boundary, s \in {0, 1} :
            slots'[b][s] = IF b = g /\ s = op.slot THEN value ELSE slots[b][s]
    BY <1>2, <2>1, <2>2
  <2>. QED BY <1>4, <2>3, <2>4, <2>5 DEF R
<1>. QED BY <1>3, <1>4
----------------------------------------------------------------------------
\* The launch at the head of a group.
LEMMA BatchHead ==
    ASSUME CallInv, ~OfFactors, NEW g \in Group, Doing(g, "launch")
    PROVE  /\ Is(g, 1, "launch") /\ Next1(g) = queue[g][1] /\ g \in Stream /\ queue[g] # <<>>
           /\ queue[g][1].slot = SlotOf(queue[g][1].offset) /\ queue[g][1].slot \in {0, 1}
           /\ queue[g][1].caller \in Caller /\ queue[g][1].offset \in Offset
           /\ queue[g][1].invocation \in Nat /\ queue[g][1].offset \in Nat
           /\ LaunchOf(g, 1, queue[g][1].invocation, queue[g][1].offset)
<1>. USE DEF CallInv
<1>1. g \in Stream /\ queue \in [Stream -> Seq(Operation)] BY PlanFacts DEF StreamInv, StreamTypes
<1>2. queue[g] # <<>> /\ Head(queue[g]).kind = "launch" BY DEF Doing, Busy, Next1
<1>3. Head(queue[g]) = queue[g][1] /\ 1 \in Ops(g)
  <2>1. queue[g] \in Seq(Operation) BY <1>1
  <2>. QED BY <1>2, <2>1 DEF Ops
<1>4. Is(g, 1, "launch") BY <1>2, <1>3 DEF Is
<1>5. LaunchOf(g, 1, queue[g][1].invocation, queue[g][1].offset) BY <1>3, <1>4, LaunchCovers
<1>6. queue[g][1].invocation \in Nat /\ queue[g][1].offset \in Nat /\ queue[g][1].caller \in Caller
  BY <1>5, LaunchTypes
<1>7. queue[g][1].slot = SlotOf(queue[g][1].offset) /\ queue[g][1].offset \in Offset
  BY <1>3, <1>4 DEF GroupOps
<1>8. queue[g][1].slot \in {0, 1} BY <1>7, SlotFacts
<1>. QED BY <1>1, <1>2, <1>3, <1>4, <1>5, <1>6, <1>7, <1>8 DEF Next1

\* The start of a tile's launch keeps the values: it reads the slot of its own tile.
LEMMA StartBatch ==
    ASSUME CallInv, BatchInv, ~OfFactors, NEW g \in Group, KernelStart(g)
    PROVE  StillStep /\ BatchInv'
<1>. USE DEF CallInv
<1>. DEFINE op == queue[g][1]
<1>1. /\ Is(g, 1, "launch") /\ Next1(g) = op /\ g \in Stream
      /\ op.slot = SlotOf(op.offset) /\ op.slot \in {0, 1}
      /\ op.caller \in Caller /\ op.offset \in Offset
  BY BatchHead DEF KernelStart
<1>2. /\ running' = [running EXCEPT ![g] = IF SourceRight(g, op) THEN "right" ELSE "wrong"]
      /\ Fill(g, op, Garbage)
      /\ executed' = [executed EXCEPT ![g].started = @ + 1]
      /\ UNCHANGED <<plan, queue, recorded, completed, host, invocation, failed, input>>
  BY <1>1 DEF KernelStart
<1>3. StillStep BY <1>2 DEF StillStep
<1>4. /\ BatchTypes /\ ConsumedLatest /\ SlotsTrue /\ OutputTrue /\ RunningTrue BY DEF BatchInv
<1>5. /\ Group' = Group /\ Boundary' = Boundary /\ Last' = Last /\ Batch' = Batch
      /\ \A o : SlotOf(o)' = SlotOf(o) /\ Count(o)' = Count(o)
  BY <1>2, SamePlan DEF Count
<1>6. Garbage \in Nat \X Nat BY DEF Garbage
<1>7. /\ slots' \in [Boundary -> [{0, 1} -> Nat \X Nat]]
      /\ output' \in [Caller -> [0 .. Batch - 1 -> Nat \X Nat]]
      /\ \A b \in Boundary, s \in {0, 1} :
             slots'[b][s] = IF b = g /\ s = op.slot THEN Garbage ELSE slots[b][s]
      /\ \A c \in Caller : \A x \in 0 .. Batch - 1 :
             output'[c][x] = IF g = Last /\ c = op.caller
                                /\ x \in op.offset .. op.offset + Count(op.offset) - 1
                             THEN Garbage ELSE output[c][x]
  BY <1>1, <1>2, <1>4, <1>6, FillFacts
<1>8. /\ \A b \in Boundary : \A v, p : Needed(b, v, p)' => Needed(b, v, p)
      /\ \A c \in Caller : \A v, p : Delivered(c, v, p)' => Delivered(c, v, p)
  BY <1>3, StillNeeded
<1>. HIDE DEF op
<1>9. BatchTypes'
  <2>1. running' \in [Group -> {"idle", "right", "wrong"}] BY <1>2, <1>4 DEF BatchTypes
  <2>2. executed' \in [Group -> [started : Nat, finished : Nat]] BY <1>2, <1>4 DEF BatchTypes
  <2>. QED BY <1>5, <1>7, <2>1, <2>2 DEF BatchTypes
<1>10. ConsumedLatest' BY <1>3, <1>4, ConsumedStill
<1>11. SlotsTrue'
  <2>1. \A b \in Boundary : \A v, o : Needed(b, v, o)' => slots'[b][SlotOf(o)] = <<v, o>>
    <3>. SUFFICES ASSUME NEW b \in Boundary, NEW v, NEW o, Needed(b, v, o)'
                  PROVE  slots'[b][SlotOf(o)] = <<v, o>>
      OBVIOUS
    <3>1. Needed(b, v, o) BY <1>8
    <3>2. slots[b][SlotOf(o)] = <<v, o>> BY <1>4, <3>1 DEF SlotsTrue, Needed
    <3>3. ~(b = g /\ SlotOf(o) = op.slot) BY <1>1, <3>1, SlotIntact DEF op
    <3>4. SlotOf(o) \in {0, 1}
      <4>1. o \in Offset BY <3>1 DEF Needed, Passed, Piece
      <4>. QED BY <4>1, SlotFacts
    <3>. QED BY <1>7, <3>2, <3>3, <3>4
  <2>. QED BY <1>5, <2>1 DEF SlotsTrue, Needed
<1>12. OutputTrue'
  <2>1. \A c \in Caller : \A v, o : Delivered(c, v, o)' => \A x \in o .. o + Count(o) - 1 : output'[c][x] = <<v, o>>
    <3>. SUFFICES ASSUME NEW c \in Caller, NEW v, NEW o, Delivered(c, v, o)', NEW x \in o .. o + Count(o) - 1
                  PROVE  output'[c][x] = <<v, o>>
      OBVIOUS
    <3>1. Delivered(c, v, o) BY <1>8
    <3>2. output[c][x] = <<v, o>> BY <1>4, <3>1 DEF OutputTrue, Delivered
    <3>3. ~(g = Last /\ c = op.caller /\ x \in op.offset .. op.offset + Count(op.offset) - 1)
      BY <1>1, <3>1, OutputIntact DEF op
    <3>4. x \in 0 .. Batch - 1
      <4>1. o \in Offset BY <3>1 DEF Delivered, Passed, Piece
      <4>. QED BY <4>1, CountBatch
    <3>. QED BY <1>7, <3>2, <3>3, <3>4
  <2>. QED BY <1>5, <2>1 DEF OutputTrue, Delivered
<1>13. RunningTrue'
  <2>. SUFFICES ASSUME NEW h \in Group, running'[h] # "idle"
                PROVE  Is(h, 1, "launch")' /\ (queue'[h][1].invocation \notin failed' => running'[h] = "right")
    BY <1>5 DEF RunningTrue
  <2>1. CASE h = g
    <3>1. running'[g] = IF SourceRight(g, op) THEN "right" ELSE "wrong" BY <1>2, <1>4 DEF BatchTypes
    <3>2. op.invocation \notin failed => SourceRight(g, op) BY <1>1, <1>4, HeadSource DEF op
    <3>3. Is(g, 1, "launch")' BY <1>1, <1>2 DEF Is, Ops
    <3>. QED BY <1>2, <2>1, <3>1, <3>2, <3>3 DEF op
  <2>2. CASE h # g
    <3>1. running'[h] = running[h] BY <1>2, <1>4, <2>2 DEF BatchTypes
    <3>. QED BY <1>2, <1>4, <3>1 DEF RunningTrue, Is, Ops
  <2>. QED BY <2>1, <2>2
<1>. QED BY <1>3, <1>9, <1>10, <1>11, <1>12, <1>13 DEF BatchInv

\* The end of a tile's launch keeps the values: no slot that is still needed, and no
\* output that is still awaited, is written.
LEMMA FinishBatch ==
    ASSUME CallInv, BatchInv, ~OfFactors, NEW g \in Group, KernelFinish(g)
    PROVE  PopStep(g) /\ BatchInv'
<1>. USE DEF CallInv
<1>. DEFINE op == queue[g][1]
            value == Outcome(g, op)
<1>1. /\ Is(g, 1, "launch") /\ Next1(g) = op /\ g \in Stream /\ queue[g] # <<>>
      /\ op.slot = SlotOf(op.offset) /\ op.slot \in {0, 1}
      /\ op.caller \in Caller /\ op.offset \in Offset /\ op.invocation \in Nat /\ op.offset \in Nat
      /\ LaunchOf(g, 1, op.invocation, op.offset)
  BY BatchHead DEF KernelFinish
<1>2. /\ running' = [running EXCEPT ![g] = "idle"] /\ running[g] # "idle"
      /\ Fill(g, op, value)
      /\ executed' = [executed EXCEPT ![g].finished = @ + 1]
      /\ queue' = [queue EXCEPT ![g] = Tail(@)]
      /\ UNCHANGED <<plan, recorded, completed, host, invocation, failed, input>>
  BY <1>1 DEF KernelFinish, Pop
<1>3. PopStep(g)
  <2>1. Head(queue[g]).kind = "launch" BY <1>1 DEF Next1, Is
  <2>. QED BY <1>1, <1>2, <2>1, PopDevice
<1>4. /\ BatchTypes /\ ConsumedLatest /\ SlotsTrue /\ OutputTrue /\ RunningTrue BY DEF BatchInv
<1>5. /\ Group' = Group /\ Boundary' = Boundary /\ Last' = Last /\ Batch' = Batch
      /\ \A o : SlotOf(o)' = SlotOf(o) /\ Count(o)' = Count(o)
  BY <1>2, SamePlan DEF Count
<1>6. value \in Nat \X Nat BY <1>1 DEF Outcome, Garbage, TileOf
<1>6a. op.invocation \notin failed => value = <<op.invocation, op.offset>>
  <2>1. op.invocation \notin failed => running[g] = "right" BY <1>2, <1>4 DEF RunningTrue
  <2>2. op.invocation \notin failed => SourceRight(g, op) BY <1>1, <1>4, HeadSource
  <2>. QED BY <2>1, <2>2 DEF Outcome, TileOf
<1>. HIDE DEF value, op
<1>7. /\ slots' \in [Boundary -> [{0, 1} -> Nat \X Nat]]
      /\ output' \in [Caller -> [0 .. Batch - 1 -> Nat \X Nat]]
      /\ \A b \in Boundary, s \in {0, 1} :
             slots'[b][s] = IF b = g /\ s = op.slot THEN value ELSE slots[b][s]
      /\ \A c \in Caller : \A x \in 0 .. Batch - 1 :
             output'[c][x] = IF g = Last /\ c = op.caller
                                /\ x \in op.offset .. op.offset + Count(op.offset) - 1
                             THEN value ELSE output[c][x]
  <2>1. op.slot \in {0, 1} /\ op.caller \in Caller /\ Fill(g, op, value) /\ CallTypes /\ BatchTypes
    BY <1>1, <1>2, <1>4
  <2>. QED BY <1>6, <2>1, FillFacts
<1>8. /\ \A b \in Boundary : \A v, p : Needed(b, v, p)' =>
             Needed(b, v, p) \/ (g = b /\ LaunchOf(b, 1, v, p) /\ Passed(b, v, p))
      /\ \A c \in Caller : \A v, p : Delivered(c, v, p)' =>
             /\ Awaited(c, v)
             /\ Delivered(c, v, p) \/ (g = Last /\ LaunchOf(Last, 1, v, p) /\ Passed(Last, v, p))
  BY <1>3, PopNeeded
<1>9. BatchTypes'
  <2>1. running' \in [Group -> {"idle", "right", "wrong"}] BY <1>2, <1>4 DEF BatchTypes
  <2>2. executed' \in [Group -> [started : Nat, finished : Nat]]
    <3>1. executed \in [Group -> [started : Nat, finished : Nat]] BY <1>4 DEF BatchTypes
    <3>2. [executed[g] EXCEPT !.finished = @ + 1] \in [started : Nat, finished : Nat] BY <3>1
    <3>3. executed' = [executed EXCEPT ![g] = [executed[g] EXCEPT !.finished = @ + 1]] BY <1>2, <3>1
    <3>. QED BY <3>1, <3>2, <3>3
  <2>. QED BY <1>5, <1>7, <2>1, <2>2 DEF BatchTypes
<1>10. ConsumedLatest' BY <1>3, <1>4, ConsumedPop
\* The launch at the head is the only one of its tile there.
<1>11. \A v, o : LaunchOf(g, 1, v, o) /\ Passed(g, v, o) =>
           v = op.invocation /\ o = op.offset /\ v \notin failed
  BY DEF LaunchOf, Covers, Passed, op
<1>12. SlotsTrue'
  <2>1. \A b \in Boundary : \A v, o : Needed(b, v, o)' => slots'[b][SlotOf(o)] = <<v, o>>
    <3>. SUFFICES ASSUME NEW b \in Boundary, NEW v, NEW o, Needed(b, v, o)'
                  PROVE  slots'[b][SlotOf(o)] = <<v, o>>
      OBVIOUS
    <3>1. CASE Needed(b, v, o)
      <4>1. slots[b][SlotOf(o)] = <<v, o>> BY <1>4, <3>1 DEF SlotsTrue, Needed
      <4>2. ~(b = g /\ SlotOf(o) = op.slot) BY <1>1, <3>1, SlotIntact DEF op
      <4>3. o \in Offset BY <3>1 DEF Needed, Passed, Piece
      <4>4. SlotOf(o) \in {0, 1} BY <4>3, SlotFacts
      <4>. QED BY <1>7, <4>1, <4>2, <4>4
    <3>2. CASE g = b /\ LaunchOf(b, 1, v, o) /\ Passed(b, v, o)
      <4>1. v = op.invocation /\ o = op.offset /\ v \notin failed BY <1>11, <3>2
      <4>. QED BY <1>1, <1>6a, <1>7, <3>2, <4>1 DEF op
    <3>. QED BY <1>8, <3>1, <3>2
  <2>. QED BY <1>5, <2>1 DEF SlotsTrue, Needed
<1>13. OutputTrue'
  <2>1. \A c \in Caller : \A v, o : Delivered(c, v, o)' => \A x \in o .. o + Count(o) - 1 : output'[c][x] = <<v, o>>
    <3>. SUFFICES ASSUME NEW c \in Caller, NEW v, NEW o, Delivered(c, v, o)', NEW x \in o .. o + Count(o) - 1
                  PROVE  output'[c][x] = <<v, o>>
      OBVIOUS
    <3>1. CASE Delivered(c, v, o)
      <4>2. output[c][x] = <<v, o>> BY <1>4, <3>1 DEF OutputTrue, Delivered
      <4>3. ~(g = Last /\ c = op.caller /\ x \in op.offset .. op.offset + Count(op.offset) - 1)
        BY <1>1, <3>1, OutputIntact DEF op
      <4>4. o \in Offset BY <3>1 DEF Delivered, Passed, Piece
      <4>5. x \in 0 .. Batch - 1 BY <4>4, CountBatch
      <4>. QED BY <1>7, <4>2, <4>3, <4>5
    <3>2. CASE g = Last /\ LaunchOf(Last, 1, v, o) /\ Passed(Last, v, o)
      <4>1. v = op.invocation /\ o = op.offset /\ v \notin failed BY <1>11, <3>2
      <4>2. op.caller = c BY <1>8, <3>2, HeadCaller DEF op
      <4>3. x \in 0 .. Batch - 1 BY <1>1, <4>1, CountBatch
      <4>4. value = <<v, o>> BY <1>6a, <4>1
      <4>5. x \in op.offset .. op.offset + Count(op.offset) - 1 BY <4>1
      <4>. QED BY <1>7, <3>2, <4>2, <4>3, <4>4, <4>5
    <3>. QED BY <1>8, <3>1, <3>2
  <2>. QED BY <1>5, <2>1 DEF OutputTrue, Delivered
<1>14. RunningTrue'
  <2>1. \A h \in Group : h # g => running'[h] = running[h] BY <1>2, <1>4 DEF BatchTypes
  <2>2. running'[g] = "idle" BY <1>2, <1>4 DEF BatchTypes
  <2>3. plan' = plan BY <1>2
  <2>. QED BY <1>3, <1>4, <2>1, <2>2, <2>3, RunningPops
<1>. QED BY <1>3, <1>9, <1>10, <1>12, <1>13, <1>14 DEF BatchInv

\* The device passes or does anything but a launch.
LEMMA PopBatch ==
    ASSUME CallInv, BatchInv, ~OfFactors, NEW u, PopStep(u), ~Is(u, 1, "launch"),
           UNCHANGED <<running, slots, output, executed>>
    PROVE  BatchInv'
<1>1. /\ BatchTypes /\ ConsumedLatest /\ SlotsTrue /\ OutputTrue /\ RunningTrue BY DEF BatchInv
<1>2. plan' = plan BY DEF PopStep
<1>3. /\ \A b \in Boundary : \A v, p : Needed(b, v, p)' => Needed(b, v, p)
      /\ \A c \in Caller : \A v, p : Delivered(c, v, p)' => Delivered(c, v, p)
  <2>1. \A b, v, p : u = b => ~LaunchOf(b, 1, v, p) BY DEF LaunchOf
  <2>. QED BY <2>1, PopNeeded
<1>4. BatchTypes' /\ SlotsTrue' /\ OutputTrue' BY <1>1, <1>2, <1>3, BatchKeep
<1>5. ConsumedLatest' BY <1>1, ConsumedPop
<1>6. RunningTrue'
  <2>1. u \in Group => running'[u] = "idle" BY <1>1 DEF RunningTrue
  <2>2. \A g \in Group : g # u => running'[g] = running[g] OBVIOUS
  <2>. QED BY <1>1, <1>2, <2>1, <2>2, RunningPops
<1>. QED BY <1>4, <1>5, <1>6 DEF BatchInv

\* The host's steps and what is left.
LEMMA HostBatch ==
    ASSUME CallInv, BatchInv, ~OfFactors, plan' = plan, Grown, failed \subseteq failed', ConsumedLatest',
           UNCHANGED <<running, slots, output, executed>>,
           \A b \in Boundary : \A v, p : Needed(b, v, p)' => Needed(b, v, p),
           \A c \in Caller : \A v, p : Delivered(c, v, p)' => Delivered(c, v, p)
    PROVE  BatchInv'
<1>1. /\ BatchTypes /\ SlotsTrue /\ OutputTrue /\ RunningTrue BY DEF BatchInv
<1>2. BatchTypes' /\ SlotsTrue' /\ OutputTrue' BY <1>1, BatchKeep
<1>3. RunningTrue' BY <1>1, RunningStays
<1>. QED BY <1>2, <1>3 DEF BatchInv

\* What a host step leaves of the consumed events.
LEMMA HostConsumed ==
    ASSUME CallInv, BatchInv, ~OfFactors, Grown, plan' = plan,
           \A s \in Stream, i \in Nat : New(s, i) => queue'[s][i].kind # "launch",
           \A e \in Event : e # begin /\ e # done => recorded'[e] = recorded[e]
    PROVE  ConsumedLatest'
<1>. USE DEF CallInv
<1>1. ConsumedLatest BY DEF BatchInv
<1>2. \A h \in Group : \A i \in Ops(h)' : Is(h, i, "launch")' => i \in Ops(h)
  <2>. SUFFICES ASSUME NEW h \in Group, NEW i \in Ops(h)', Is(h, i, "launch")', i \notin Ops(h) PROVE FALSE
    OBVIOUS
  <2>1. h \in Stream /\ Len(queue[h]) \in Nat BY PlanFacts, Lengths DEF StreamInv
  <2>2. New(h, i) /\ i \in Nat BY <2>1 DEF New, Ops
  <2>. QED BY <2>1, <2>2 DEF Is
<1>3. \A h, s : consumed(h - 1, s) # begin /\ consumed(h - 1, s) # done BY DEF consumed, begin, done
<1>. QED BY <1>1, <1>2, <1>3, ConsumedGrow

\* Every step of the batch scheduler keeps its invariant.
LEMMA BatchStep ==
    ASSUME CallInv, BatchInv, ~OfFactors, Next
    PROVE  CallInv' /\ BatchInv'
<1>. USE DEF CallInv
<1>1. /\ Group \subseteq Stream /\ Caller \subseteq Stream /\ StreamTypes
  BY PlanFacts DEF StreamInv
<1>2. ASSUME NEW u \in Stream, queue[u] # <<>>
      PROVE  Head(queue[u]) = queue[u][1] /\ \A k : Is(u, 1, k) <=> Head(queue[u]).kind = k
  <2>1. queue[u] \in Seq(Operation) BY DEF StreamTypes, StreamInv
  <2>2. 1 \in Ops(u) /\ Head(queue[u]) = queue[u][1] BY <1>2, <2>1 DEF Ops
  <2>. QED BY <2>2 DEF Is
<1>3. ASSUME NEW c \in Caller, Begin(c) PROVE CallInv' /\ BatchInv'
  <2>1. BeginStep(c) BY <1>3 DEF Begin, BeginStep
  <2>2. CallInv' BY <2>1, BeginCall
  <2>3. /\ Grown /\ UNCHANGED <<running, slots, output, executed>> /\ plan' = plan /\ failed' = failed
    BY <1>3, <2>1, BeginQueues DEF Begin
  <2>4. /\ \A b \in Boundary : \A v, p : Needed(b, v, p)' => Needed(b, v, p)
        /\ \A d \in Caller : \A v, p : Delivered(d, v, p)' => Delivered(d, v, p)
    BY <2>1, BeginNeeded
  <2>5. \A s \in Stream, i \in Nat : New(s, i) => queue'[s][i].kind # "launch"
    <3>. SUFFICES ASSUME NEW s \in Stream, NEW i \in Nat, New(s, i) PROVE queue'[s][i].kind # "launch"
      OBVIOUS
    <3>1. Len(queue[s]) \in Nat BY <1>1, Lengths
    <3>2. i \in Ops(s)' /\ i \notin Ops(s) BY <3>1 DEF New, Ops
    <3>3. Is(s, i, "wait")' \/ Is(s, i, "upload")' \/ Is(s, i, "record")' BY <2>1, <3>2, BeginNew
    <3>. QED BY <3>3 DEF Is
  <2>6. \A e \in Event : e # begin /\ e # done => recorded'[e] = recorded[e]
    BY <2>1 DEF BeginStep, Recording
  <2>7. ConsumedLatest' BY <2>3, <2>5, <2>6, HostConsumed
  <2>. QED BY <2>2, <2>3, <2>4, <2>7, HostBatch
<1>4. ASSUME EnqueueGroup PROVE CallInv' /\ BatchInv'
  <2>0. ConsumedLatest BY DEF BatchInv
  <2>1. PICK g, m : ConsumedLatest' /\ EnqueueStep(g, m, host.caller, TRUE, FALSE, FALSE) BY <1>4, <2>0, BatchGroup
  <2>2. CallInv' BY <2>1, EnqueueCall
  <2>3. Grown /\ failed \subseteq failed' BY <2>1, EnqueueFacts
  <2>4. /\ \A b \in Boundary : \A v, p : Needed(b, v, p)' => Needed(b, v, p)
        /\ \A d \in Caller : \A v, p : Delivered(d, v, p)' => Delivered(d, v, p)
    BY <2>1, EnqueueNeeded
  <2>5. UNCHANGED <<running, slots, output, executed>> /\ plan' = plan BY <1>4 DEF EnqueueGroup
  <2>. QED BY <2>1, <2>2, <2>3, <2>4, <2>5, HostBatch
<1>5. ASSUME LaunchFails PROVE CallInv' /\ BatchInv'
  <2>1. /\ EnqueueStep(host.group, 0, host.caller, FALSE, TRUE, FALSE) /\ Grown
        /\ \A s \in Stream, i \in Nat : New(s, i) => queue'[s][i].kind = "wait"
    BY <1>5, BatchFails
  <2>2. CallInv' BY <2>1, EnqueueCall
  <2>3. failed \subseteq failed' BY <2>1, EnqueueFacts
  <2>4. /\ \A b \in Boundary : \A v, p : Needed(b, v, p)' => Needed(b, v, p)
        /\ \A d \in Caller : \A v, p : Delivered(d, v, p)' => Delivered(d, v, p)
    BY <2>1, EnqueueNeeded
  <2>5. UNCHANGED <<running, slots, output, executed>> /\ plan' = plan /\ recorded' = recorded
    BY <1>5 DEF LaunchFails
  <2>6. ConsumedLatest' BY <2>1, <2>5, HostConsumed
  <2>. QED BY <2>1, <2>2, <2>3, <2>4, <2>5, <2>6, HostBatch
<1>6. ASSUME End PROVE CallInv' /\ BatchInv'
  <2>1. /\ EnqueueStep(Last, 0, host.caller, FALSE, FALSE, TRUE) /\ Grown
        /\ \A s \in Stream, i \in Nat : New(s, i) => queue'[s][i].kind \in {"record", "wait", "use"}
        /\ \A e \in Event : e # done => recorded'[e] = recorded[e]
    BY <1>6, BatchEnd
  <2>2. CallInv' BY <2>1, EnqueueCall
  <2>3. failed \subseteq failed' BY <2>1, EnqueueFacts
  <2>4. /\ \A b \in Boundary : \A v, p : Needed(b, v, p)' => Needed(b, v, p)
        /\ \A d \in Caller : \A v, p : Delivered(d, v, p)' => Delivered(d, v, p)
    BY <2>1, EnqueueNeeded
  <2>5. UNCHANGED <<running, slots, output, executed>> /\ plan' = plan
    BY <1>6 DEF End
  <2>6. ConsumedLatest' BY <2>1, <2>5, HostConsumed
  <2>. QED BY <2>1, <2>2, <2>3, <2>4, <2>5, <2>6, HostBatch
<1>7. ASSUME StillStep, UNCHANGED <<running, slots, output, executed>> PROVE CallInv' /\ BatchInv'
  <2>1. CallInv' BY <1>7, StillCall
  <2>2. Grown BY <1>7, StillGrown
  <2>3. plan' = plan /\ failed' = failed BY <1>7 DEF StillStep
  <2>4. /\ \A b \in Boundary : \A v, p : Needed(b, v, p)' => Needed(b, v, p)
        /\ \A d \in Caller : \A v, p : Delivered(d, v, p)' => Delivered(d, v, p)
    BY <1>7, StillNeeded
  <2>5. ConsumedLatest' BY <1>7, ConsumedStill DEF BatchInv
  <2>. QED BY <1>7, <2>1, <2>2, <2>3, <2>4, <2>5, HostBatch
<1>8. CASE Release
  <2>1. StillStep BY <1>8 DEF Release, StillStep
  <2>. QED BY <1>7, <1>8, <2>1 DEF Release
<1>9. CASE Terminated
  <2>1. StillStep BY <1>9 DEF Terminated, StillStep, pvars
  <2>. QED BY <1>7, <1>9, <2>1 DEF Terminated, pvars
<1>10. ASSUME NEW s \in Stream, Sync(s) PROVE CallInv' /\ BatchInv'
  <2>1. /\ queue[s] # <<>> /\ queue' = [queue EXCEPT ![s] = Tail(@)] /\ recorded' = recorded
        /\ UNCHANGED <<plan, host, invocation, failed, running, slots, input, output, executed>>
        /\ \/ /\ Head(queue[s]).kind = "wait" /\ Happened(Head(queue[s]).on) /\ completed' = completed
           \/ /\ Head(queue[s]).kind = "record" /\ completed' = completed \cup {Head(queue[s]).mark}
    BY <1>10 DEF Sync, PassWait, PassRecord, Doing, Busy, Next1, Pop
  <2>2. PopStep(s) BY <2>1, PopDevice
  <2>3. ~Is(s, 1, "launch") BY <1>2, <2>1
  <2>. QED BY <2>1, <2>2, <2>3, CallPop, PopBatch
<1>11. ASSUME NEW c \in Caller, Upload(c) PROVE CallInv' /\ BatchInv'
  <2>1. /\ queue[c] # <<>> /\ queue' = [queue EXCEPT ![c] = Tail(@)] /\ recorded' = recorded
        /\ UNCHANGED <<plan, host, invocation, failed, running, slots, completed, output, executed>>
        /\ Head(queue[c]).kind = "upload" /\ input' = [input EXCEPT ![c] = Head(queue[c]).invocation]
    BY <1>11 DEF Upload, Doing, Busy, Next1, Pop
  <2>2. PopStep(c) BY <1>1, <2>1, PopDevice
  <2>3. ~Is(c, 1, "launch") BY <1>1, <1>2, <2>1
  <2>. QED BY <2>1, <2>2, <2>3, CallPop, PopBatch
<1>12. ASSUME NEW c \in Caller, Use(c) PROVE CallInv' /\ BatchInv'
  <2>1. /\ queue[c] # <<>> /\ queue' = [queue EXCEPT ![c] = Tail(@)] /\ recorded' = recorded
        /\ UNCHANGED <<plan, host, invocation, failed, running, slots, completed, output, executed, input>>
        /\ Head(queue[c]).kind = "use"
    BY <1>12 DEF Use, Doing, Busy, Next1, Pop
  <2>2. PopStep(c) BY <1>1, <2>1, PopDevice
  <2>3. ~Is(c, 1, "launch") BY <1>1, <1>2, <2>1
  <2>. QED BY <2>1, <2>2, <2>3, CallPop, PopBatch
<1>13. ASSUME NEW g \in Group, KernelStart(g) PROVE CallInv' /\ BatchInv'
  BY <1>13, StartBatch, StillCall
<1>14. ASSUME NEW g \in Group, KernelFinish(g) PROVE CallInv' /\ BatchInv'
  BY <1>14, FinishBatch, CallPop
<1>. QED BY <1>1, <1>3, <1>4, <1>5, <1>6, <1>8, <1>9, <1>10, <1>11, <1>12, <1>13, <1>14
     DEF Next, HostStep, GroupStep, CallerStep
----------------------------------------------------------------------------
(* The numbers of the tiles.                                               *)

\* Tiles and offsets correspond.
LEMMA TilesFacts ==
    ASSUME CallTypes, ~OfFactors
    PROVE  /\ TilesEach \in Nat \ {0}
           /\ \A o \in Offset : Tile(o) \in 0 .. TilesEach - 1
           /\ \A t \in 0 .. TilesEach - 1 : t * TileBatch \in Offset /\ Tile(t * TileBatch) = t
<1>1. Batch \in Nat \ {0} /\ TileBatch \in Nat \ {0} BY PlanFacts
<1>. DEFINE m == TileBatch
            a == Batch + m - 1
<1>2. a \in Nat /\ a = Batch + (m - 1) /\ m \in Nat \ {0} BY <1>1
<1>3. TilesEach = a \div m BY DEF TilesEach
<1>. HIDE DEF a, m
<1>4. TilesEach \in Nat /\ a % m \in 0 .. m - 1 /\ a = TilesEach * m + (a % m) BY <1>2, <1>3, DivMod
<1>. DEFINE k == TilesEach
            z == k * m
            b == Batch
<1>5. k \in Nat /\ z \in Nat /\ b \in Nat \ {0} BY <1>1, <1>2, <1>4
<1>6. a = z + (a % m) BY <1>4
<1>7. z = k * m OBVIOUS
<1>8. a = b + (m - 1) BY <1>2
<1>. HIDE DEF k, z, b
<1>9. b <= z /\ z < b + m
  <2>1. PICK r : r = a % m OBVIOUS
  <2>2. r \in 0 .. m - 1 /\ a = z + r BY <1>4, <1>6, <2>1
  <2>. QED BY <1>2, <1>5, <1>8, <2>2
<1>10. k # 0
  <2>1. k = 0 => z = 0 BY <1>2, <1>7
  <2>. QED BY <1>5, <1>9, <2>1
<1>11. \A o \in Offset : Tile(o) \in 0 .. k - 1
  <2>. SUFFICES ASSUME NEW o \in Offset, ~(Tile(o) \in 0 .. k - 1) PROVE FALSE OBVIOUS
  <2>1. o \in Nat /\ o < b /\ Tile(o) \in Nat /\ o = Tile(o) * m BY OffsetFacts DEF b, m
  <2>2. k <= Tile(o) BY <1>5, <2>1
  <2>3. k * m <= Tile(o) * m
    <3>1. k < Tile(o) => k * m + m <= Tile(o) * m BY <1>2, <1>5, <2>1, ProductStep
    <3>2. PICK x : x = Tile(o) * m OBVIOUS
    <3>3. x \in Nat BY <2>1, <3>2
    <3>4. k < Tile(o) => z + m <= x BY <1>7, <3>1, <3>2
    <3>5. k = Tile(o) => z = x BY <1>7, <3>2
    <3>6. z <= x BY <1>2, <1>5, <2>1, <2>2, <3>3, <3>4, <3>5
    <3>. QED BY <1>7, <3>2, <3>6
  <2>4. z <= o BY <1>7, <2>1, <2>3
  <2>. QED BY <1>5, <1>9, <2>1, <2>4
<1>12. \A t \in 0 .. k - 1 : t * m \in Offset /\ Tile(t * m) = t
  <2>. SUFFICES ASSUME NEW t \in 0 .. k - 1 PROVE t * m \in Offset /\ Tile(t * m) = t OBVIOUS
  <2>1. t \in Nat /\ t < k BY <1>5
  <2>2. t * m + m <= z BY <1>2, <1>5, <1>7, <2>1, ProductStep
  <2>3. PICK x : x = t * m OBVIOUS
  <2>4. x \in Nat BY <1>2, <2>1, <2>3
  <2>5. x < b BY <1>2, <1>5, <1>9, <2>2, <2>3, <2>4
  <2>. QED BY <2>1, <2>3, <2>5, OffsetFacts DEF b, m
<1>. QED BY <1>5, <1>10, <1>11, <1>12 DEF k, m

\* Numbers follow the order of the tiles, and every number is a tile's.
LEMMA NumberFacts ==
    ASSUME CallTypes, ~OfFactors
    PROVE  /\ \A v \in Nat \ {0}, o \in Offset : Number(v, o) \in Nat /\ Number(v, o) = (v - 1) * TilesEach + Tile(o)
           /\ \A v \in Nat \ {0}, o \in Offset : Number(v, o) % TilesEach = Tile(o)
           /\ \A v, w \in Nat \ {0}, o, q \in Offset : Before(v, o, w, q) => Number(v, o) < Number(w, q)
           /\ \A v, w \in Nat \ {0}, o, q \in Offset : Number(v, o) < Number(w, q) => Before(v, o, w, q)
           /\ \A v \in Nat \ {0}, o \in Offset : \A k \in Nat : v <= k => Number(v, o) < TilesEach * k
           /\ \A n \in Nat : \A k \in Nat : n < k * TilesEach =>
                  \E v \in 1 .. k, o \in Offset : Number(v, o) = n
<1>. DEFINE m == TilesEach
<1>1. /\ m \in Nat \ {0}
      /\ \A o \in Offset : Tile(o) \in 0 .. m - 1
      /\ \A t \in 0 .. m - 1 : t * TileBatch \in Offset /\ Tile(t * TileBatch) = t
  BY TilesFacts
<1>2. \A v, o : Number(v, o) = (v - 1) * m + Tile(o) BY DEF Number
<1>. HIDE DEF m
<1>3. \A v \in Nat \ {0}, o \in Offset : Number(v, o) \in Nat
  <2>. SUFFICES ASSUME NEW v \in Nat \ {0}, NEW o \in Offset PROVE Number(v, o) \in Nat OBVIOUS
  <2>1. PICK x : x = (v - 1) * m OBVIOUS
  <2>2. v - 1 \in Nat BY SMT
  <2>3. x \in Nat BY <1>1, <2>1, <2>2
  <2>. QED BY <1>1, <1>2, <2>1, <2>3
<1>4. \A v \in Nat \ {0}, o \in Offset : Number(v, o) % m = Tile(o)
  <2>. SUFFICES ASSUME NEW v \in Nat \ {0}, NEW o \in Offset PROVE Number(v, o) % m = Tile(o) OBVIOUS
  <2>1. v - 1 \in Nat /\ Tile(o) \in 0 .. m - 1 BY <1>1
  <2>2. ((v - 1) * m + Tile(o)) % m = Tile(o) BY <1>1, <2>1, DivModUnique
  <2>. QED BY <1>2, <2>2
<1>5. \A v, w \in Nat \ {0}, o, q \in Offset : Before(v, o, w, q) => Number(v, o) < Number(w, q)
  <2>. SUFFICES ASSUME NEW v \in Nat \ {0}, NEW w \in Nat \ {0}, NEW o \in Offset, NEW q \in Offset,
                       Before(v, o, w, q)
                PROVE  Number(v, o) < Number(w, q)
    OBVIOUS
  <2>1. PICK x, y : x = (v - 1) * m /\ y = (w - 1) * m OBVIOUS
  <2>2. v - 1 \in Nat /\ w - 1 \in Nat OBVIOUS
  <2>3. x \in Nat /\ y \in Nat BY <1>1, <2>1, <2>2
  <2>4. PICK t, u : t = Tile(o) /\ u = Tile(q) OBVIOUS
  <2>5. t \in 0 .. m - 1 /\ u \in 0 .. m - 1 BY <1>1, <2>4
  <2>6. Number(v, o) = x + t /\ Number(w, q) = y + u BY <1>2, <2>1, <2>4
  <2>7. CASE v < w
    <3>1. v - 1 < w - 1 BY <2>7
    <3>2. (v - 1) * m + m <= (w - 1) * m BY <1>1, <2>2, <3>1, ProductStep
    <3>3. x + m <= y BY <2>1, <3>2
    <3>4. x + t < y + u BY <1>1, <2>3, <2>5, <3>3
    <3>. QED BY <2>6, <3>4
  <2>8. CASE v = w /\ o < q
    <3>1. t < u BY <2>4, <2>8, OffsetGap
    <3>2. x = y BY <2>1, <2>8
    <3>3. x + t < y + u BY <1>1, <2>3, <2>5, <3>1, <3>2
    <3>. QED BY <2>6, <3>3
  <2>. QED BY <2>7, <2>8 DEF Before
<1>6. \A v, w \in Nat \ {0}, o, q \in Offset : Number(v, o) < Number(w, q) => Before(v, o, w, q)
  <2>. SUFFICES ASSUME NEW v \in Nat \ {0}, NEW w \in Nat \ {0}, NEW o \in Offset, NEW q \in Offset,
                       Number(v, o) < Number(w, q), ~Before(v, o, w, q)
                PROVE  FALSE
    OBVIOUS
  <2>1. o \in Nat /\ q \in Nat BY OffsetFacts
  <2>2. Before(w, q, v, o) \/ (v = w /\ o = q) BY <2>1 DEF Before
  <2>3. Number(v, o) \in Nat /\ Number(w, q) \in Nat BY <1>3
  <2>4. Before(w, q, v, o) => Number(w, q) < Number(v, o) BY <1>5
  <2>. QED BY <2>2, <2>3, <2>4
<1>7. \A v \in Nat \ {0}, o \in Offset : \A k \in Nat : v <= k => Number(v, o) < m * k
  <2>. SUFFICES ASSUME NEW v \in Nat \ {0}, NEW o \in Offset, NEW k \in Nat, v <= k PROVE Number(v, o) < m * k
    OBVIOUS
  <2>1. v - 1 \in Nat /\ v - 1 < k OBVIOUS
  <2>2. (v - 1) * m + m <= k * m BY <1>1, <2>1, ProductStep
  <2>3. PICK x, y : x = (v - 1) * m /\ y = k * m OBVIOUS
  <2>4. x \in Nat /\ y \in Nat /\ x + m <= y BY <1>1, <2>1, <2>2, <2>3
  <2>5. PICK t : t = Tile(o) OBVIOUS
  <2>6. t \in 0 .. m - 1 /\ Number(v, o) = x + t BY <1>1, <1>2, <2>3, <2>5
  <2>7. x + t < y BY <1>1, <2>4, <2>6
  <2>8. m * k = k * m BY <1>1
  <2>. QED BY <2>3, <2>6, <2>7, <2>8
<1>8. \A n \in Nat : \A k \in Nat : n < k * m => \E v \in 1 .. k, o \in Offset : Number(v, o) = n
  <2>. SUFFICES ASSUME NEW n \in Nat, NEW k \in Nat, n < k * m
                PROVE  \E v \in 1 .. k, o \in Offset : Number(v, o) = n
    OBVIOUS
  <2>1. PICK d, r : d = n \div m /\ r = n % m OBVIOUS
  <2>2. d \in Nat /\ r \in 0 .. m - 1 /\ n = d * m + r BY <1>1, <2>1, DivMod
  <2>3. d < k
    <3>. SUFFICES ASSUME ~(d < k) PROVE FALSE OBVIOUS
    <3>1. k < d => k * m + m <= d * m BY <1>1, <2>2, ProductStep
    <3>2. PICK x, y : x = d * m /\ y = k * m OBVIOUS
    <3>3. x \in Nat /\ y \in Nat /\ n = x + r /\ n < y BY <1>1, <2>2, <3>2
    <3>4. k < d => y + m <= x BY <3>1, <3>2
    <3>5. k = d => x = y BY <3>2
    <3>. QED BY <1>1, <2>2, <3>3, <3>4, <3>5
  <2>4. r * TileBatch \in Offset /\ Tile(r * TileBatch) = r BY <1>1, <2>2
  <2>5. d + 1 \in 1 .. k /\ (d + 1) - 1 = d BY <2>2, <2>3
  <2>6. Number(d + 1, r * TileBatch) = n BY <1>2, <2>2, <2>4, <2>5
  <2>. QED BY <2>4, <2>5, <2>6
<1>. QED BY <1>2, <1>3, <1>4, <1>5, <1>6, <1>7, <1>8 DEF m

\* A group that has enqueued a tile for a later one has its successor too.
LEMMA PassedNext ==
    ASSUME CallInv, ~OfFactors, NEW g, NEW h, NEW v, NEW o \in Offset, NEW q, Passed(g, v, q), o < q
    PROVE  Passed(h, v, o)
<1>. USE DEF CallInv
<1>1. o \in Nat /\ q \in Nat /\ o \in Piece BY PassedTypes, OffsetFacts DEF Piece
<1>2. v = invocation => HostPast(g, q) BY DEF Passed
<1>3. v = invocation /\ host.phase = "tiles" => host.offset \in Nat BY HostTypes, OffsetFacts
<1>4. v = invocation => HostPast(h, o)
  <2>1. CASE host.phase = "tiles" BY <1>1, <1>2, <1>3, <2>1 DEF HostPast
  <2>2. CASE host.phase # "tiles"
    <3>1. host.phase \notin {"slices", "last"} BY DEF CallTypes, Idle
    <3>. QED BY <2>2, <3>1 DEF HostPast
  <2>. QED BY <2>1, <2>2
<1>. QED BY <1>1, <1>4 DEF Passed

\* The launches a group has finished are those numbered before the one at its head.
LEMMA HeadNumber ==
    ASSUME CallInv, BatchInv, CountTrue, ~OfFactors, ~MayFail, NEW g \in Group, Is(g, 1, "launch")
    PROVE  /\ executed[g].finished = Number(queue[g][1].invocation, queue[g][1].offset)
           /\ queue[g][1].invocation \in 1 .. Invocations
<1>. USE DEF CallInv
<1>. DEFINE w == queue[g][1].invocation
            q == queue[g][1].offset
            f == executed[g].finished
<1>1. LaunchOf(g, 1, w, q) /\ q \in Offset /\ 1 \in Ops(g)
  <2>1. 1 \in Ops(g) BY DEF Is
  <2>. QED BY <2>1, LaunchCovers DEF GroupOps
<1>2. failed = {} /\ Invocations \in Nat /\ invocation \in 0 .. Invocations
  BY PlansAssumption DEF CallTypes, ValidPlans
<1>3. w \in 1 .. invocation /\ w \in 1 .. Invocations /\ w \in Nat \ {0} /\ q \in Nat
  <2>1. w \in Nat /\ w \in 1 .. invocation /\ q \in Nat BY <1>1, LaunchTypes
  <2>. QED BY <1>2, <2>1
<1>4. Passed(g, w, q) BY <1>1, <1>2 DEF OrderInv, LaunchPassed
<1>5. Pending(g, w, q) BY <1>1 DEF Pending
<1>6. f \in Nat BY DEF BatchInv, BatchTypes
<1>7. \A v \in 1 .. Invocations, o \in Offset : f <= Number(v, o) <=> (Passed(g, v, o) => Pending(g, v, o))
  BY DEF CountTrue
<1>8. f <= Number(w, q) BY <1>1, <1>3, <1>5, <1>7
<1>9. Number(w, q) \in Nat BY <1>1, <1>3, NumberFacts
<1>10. ASSUME f < Number(w, q) PROVE FALSE
  <2>0. TilesEach \in Nat \ {0} BY TilesFacts
  <2>1. Number(w, q) < TilesEach * Invocations BY <1>1, <1>2, <1>3, NumberFacts
  <2>2. f < Invocations * TilesEach
    <3>1. PICK x : x = TilesEach * Invocations OBVIOUS
    <3>2. x \in Nat /\ x = Invocations * TilesEach BY <1>2, <2>0, <3>1
    <3>3. f < x BY <1>6, <1>9, <1>10, <2>1, <3>1, <3>2
    <3>. QED BY <3>2, <3>3
  <2>3. PICK v \in 1 .. Invocations, o \in Offset : Number(v, o) = f BY <1>2, <1>6, <2>2, NumberFacts
  <2>4. v \in Nat \ {0} /\ o \in Nat BY <2>3, OffsetFacts
  <2>5. Before(v, o, w, q) BY <1>1, <1>3, <1>10, <2>3, <2>4, NumberFacts
  <2>6. Passed(g, v, o)
    <3>1. CASE v < w
      <4>1. Ended(v) BY <1>2, <1>3, <2>4, <3>1 DEF Ended
      <4>2. o \in Piece BY <2>3 DEF Piece
      <4>. QED BY <4>1, <4>2, AllPassed
    <3>2. CASE v = w /\ o < q BY <1>4, <3>2, PassedNext
    <3>. QED BY <2>5, <3>1, <3>2 DEF Before
  <2>7. Pending(g, v, o) BY <1>6, <1>7, <2>3, <2>6
  <2>8. PICK i \in Ops(g) : LaunchOf(g, i, v, o) BY <2>7 DEF Pending
  <2>9. ~Before(w, q, v, o) /\ ~(v = w /\ o = q) BY <1>3, <2>4, <2>5 DEF Before
  <2>10. i \in Nat /\ i >= 1 BY <2>8, LaunchTypes
  <2>11. i # 1 BY <1>1, <2>8, <2>9 DEF LaunchOf, Covers
  <2>. QED BY <1>1, <2>8, <2>9, <2>10, <2>11 DEF OrderInv, Sorted
<1>. QED BY <1>3, <1>6, <1>8, <1>9, <1>10
----------------------------------------------------------------------------
(* The counters of the batch pipeline count its tiles.                     *)

\* A step that neither starts nor finishes a launch.
Quiet ==
    /\ UNCHANGED <<plan, running, executed>>
    /\ \A h \in Group : \A v, p : (Passed(h, v, p) => Pending(h, v, p))' <=> (Passed(h, v, p) => Pending(h, v, p))

\* An operation other than a launch starts and finishes no launch.
LEMMA PopQuiet ==
    ASSUME CallInv, NEW u, PopStep(u), ~Is(u, 1, "launch"), UNCHANGED <<running, executed>>
    PROVE  Quiet
<1>. USE DEF CallInv
<1>1. plan' = plan /\ \A h, v, p : Passed(h, v, p)' <=> Passed(h, v, p) BY PopSame
<1>2. \A h \in Group : \A v, p : Pending(h, v, p)' <=> Pending(h, v, p)
  <2>. SUFFICES ASSUME NEW h \in Group, NEW v, NEW p PROVE Pending(h, v, p)' <=> Pending(h, v, p) OBVIOUS
  <2>1. /\ Pending(h, v, p)' => Pending(h, v, p)
        /\ Pending(h, v, p) /\ ~Pending(h, v, p)' => h = u /\ LaunchOf(h, 1, v, p)
    BY PopLaunch
  <2>. QED BY <2>1 DEF LaunchOf
<1>. QED BY <1>1, <1>2 DEF Quiet

\* Every step starts a launch, finishes one, or does neither.
LEMMA BatchKinds ==
    ASSUME CallInv, BatchInv, ~OfFactors, ~MayFail, Next
    PROVE  Quiet \/ \E g \in Group : KernelStart(g) \/ KernelFinish(g)
<1>. USE DEF CallInv
<1>1. /\ Group \subseteq Stream /\ Caller \subseteq Stream /\ StreamTypes
  BY PlanFacts DEF StreamInv
<1>2. ASSUME NEW u \in Stream, queue[u] # <<>>
      PROVE  \A k : Is(u, 1, k) <=> Head(queue[u]).kind = k
  <2>1. queue[u] \in Seq(Operation) BY DEF StreamTypes, StreamInv
  <2>2. 1 \in Ops(u) /\ Head(queue[u]) = queue[u][1] BY <1>2, <2>1 DEF Ops
  <2>. QED BY <2>2 DEF Is
<1>3. ASSUME NEW c \in Caller, Begin(c) PROVE Quiet
  <2>1. BeginStep(c) BY <1>3 DEF Begin, BeginStep
  <2>2. /\ \A h \in Group : \A v, p : Passed(h, v, p)' <=> Passed(h, v, p)
        /\ \A h \in Group : \A v, p : Pending(h, v, p)' <=> Pending(h, v, p)
    BY <2>1, BeginNeeded
  <2>. QED BY <1>3, <2>2 DEF Begin, Quiet
<1>4. ASSUME NEW h, NEW m, NEW ending, EnqueueStep(h, m, host.caller, TRUE, FALSE, ending)
      PROVE  \A j \in Group : \A v, p :
                 (Passed(j, v, p) => Pending(j, v, p))' <=> (Passed(j, v, p) => Pending(j, v, p))
  BY <1>4, EnqueueNeeded
<1>5. ASSUME EnqueueGroup PROVE Quiet
  <2>1. PICK g, o : g = host.group /\ o = host.offset OBVIOUS
  <2>2. PICK m : EnqueueStep(g, m, host.caller, TRUE, FALSE, FALSE) BY <1>5, <2>1, BatchGroup DEF BatchInv
  <2>3. \A j \in Group : \A v, p :
                 (Passed(j, v, p) => Pending(j, v, p))' <=> (Passed(j, v, p) => Pending(j, v, p))
    BY <1>4, <2>2
  <2>. QED BY <1>5, <2>3 DEF EnqueueGroup, Quiet
<1>6. ASSUME End PROVE Quiet
  <2>1. EnqueueStep(Last, 0, host.caller, FALSE, FALSE, TRUE) BY <1>6, BatchEnd
  <2>2. \A j \in Group : \A v, p :
                 (Passed(j, v, p) => Pending(j, v, p))' <=> (Passed(j, v, p) => Pending(j, v, p))
    BY <2>1, EnqueueNeeded
  <2>. QED BY <1>6, <2>2 DEF End, Quiet
<1>7. ~LaunchFails BY DEF LaunchFails
<1>8. ASSUME StillStep, UNCHANGED <<running, executed>> PROVE Quiet
  <2>1. plan' = plan BY <1>8 DEF StillStep
  <2>. QED BY <1>8, <2>1, StillSame DEF Quiet
<1>9. CASE Release
  <2>1. StillStep BY <1>9 DEF Release, StillStep
  <2>. QED BY <1>8, <1>9, <2>1 DEF Release
<1>10. CASE Terminated
  <2>1. StillStep BY <1>10 DEF Terminated, StillStep, pvars
  <2>. QED BY <1>8, <1>10, <2>1 DEF Terminated, pvars
<1>11. ASSUME NEW s \in Stream, Sync(s) PROVE Quiet
  <2>1. /\ queue[s] # <<>> /\ queue' = [queue EXCEPT ![s] = Tail(@)] /\ recorded' = recorded
        /\ UNCHANGED <<plan, host, invocation, failed, running, slots, input, output, executed>>
        /\ \/ /\ Head(queue[s]).kind = "wait" /\ Happened(Head(queue[s]).on) /\ completed' = completed
           \/ /\ Head(queue[s]).kind = "record" /\ completed' = completed \cup {Head(queue[s]).mark}
    BY <1>11 DEF Sync, PassWait, PassRecord, Doing, Busy, Next1, Pop
  <2>2. PopStep(s) BY <2>1, PopDevice
  <2>3. ~Is(s, 1, "launch") BY <1>2, <2>1
  <2>. QED BY <2>1, <2>2, <2>3, PopQuiet
<1>12. ASSUME NEW c \in Caller, Upload(c) PROVE Quiet
  <2>1. /\ queue[c] # <<>> /\ queue' = [queue EXCEPT ![c] = Tail(@)] /\ recorded' = recorded
        /\ UNCHANGED <<plan, host, invocation, failed, running, slots, completed, output, executed>>
        /\ Head(queue[c]).kind = "upload" /\ input' = [input EXCEPT ![c] = Head(queue[c]).invocation]
    BY <1>12 DEF Upload, Doing, Busy, Next1, Pop
  <2>2. PopStep(c) BY <1>1, <2>1, PopDevice
  <2>3. ~Is(c, 1, "launch") BY <1>1, <1>2, <2>1
  <2>. QED BY <2>1, <2>2, <2>3, PopQuiet
<1>13. ASSUME NEW c \in Caller, Use(c) PROVE Quiet
  <2>1. /\ queue[c] # <<>> /\ queue' = [queue EXCEPT ![c] = Tail(@)] /\ recorded' = recorded
        /\ UNCHANGED <<plan, host, invocation, failed, running, slots, completed, output, executed, input>>
        /\ Head(queue[c]).kind = "use"
    BY <1>13 DEF Use, Doing, Busy, Next1, Pop
  <2>2. PopStep(c) BY <1>1, <2>1, PopDevice
  <2>3. ~Is(c, 1, "launch") BY <1>1, <1>2, <2>1
  <2>. QED BY <2>1, <2>2, <2>3, PopQuiet
<1>. QED BY <1>1, <1>3, <1>5, <1>6, <1>7, <1>9, <1>10, <1>11, <1>12, <1>13
     DEF Next, HostStep, GroupStep, CallerStep

\* Numbers of launches depend on the plan only.
LEMMA SameNumber ==
    ASSUME plan' = plan
    PROVE  \A v, o : Number(v, o)' = Number(v, o)
<1>1. \A o : Tile(o)' = Tile(o) BY DEF Tile, TileBatch
<1>. QED BY <1>1, SamePlan DEF Number, TilesEach

\* The counts of launches are kept by a step that neither starts nor finishes one, ...
LEMMA CountQuiet ==
    ASSUME CountTrue, Quiet
    PROVE  CountTrue'
<1>1. Group' = Group /\ Offset' = Offset BY SamePlan DEF Quiet
<1>2. \A v, o : Number(v, o)' = Number(v, o) BY SameNumber DEF Quiet
<1>. QED BY <1>1, <1>2 DEF CountTrue, Quiet

\* ... by a start ...
LEMMA CountStart ==
    ASSUME CallInv, BatchInv, CountTrue, ~OfFactors, NEW g \in Group, KernelStart(g)
    PROVE  CountTrue'
<1>1. StillStep BY StartBatch
<1>2. plan' = plan BY <1>1 DEF StillStep
<1>3. Group' = Group /\ Offset' = Offset BY <1>2, SamePlan
<1>4. \A v, o : Number(v, o)' = Number(v, o) BY <1>2, SameNumber
<1>5. \A h \in Group : \A v, p : (Passed(h, v, p) => Pending(h, v, p))' <=> (Passed(h, v, p) => Pending(h, v, p))
  BY <1>1, StillSame
<1>6. executed \in [Group -> [started : Nat, finished : Nat]] /\ running \in [Group -> {"idle", "right", "wrong"}]
  BY DEF BatchInv, BatchTypes
<1>7. executed' = [executed EXCEPT ![g] = [executed[g] EXCEPT !.started = @ + 1]]
  BY <1>6 DEF KernelStart
<1>8. running[g] = "idle" /\ running' = [running EXCEPT ![g] = IF SourceRight(g, Next1(g)) THEN "right" ELSE "wrong"]
  BY DEF KernelStart
<1>9. \A h \in Group : executed'[h].finished = executed[h].finished BY <1>6, <1>7
<1>10. \A h \in Group :
           executed'[h].started = executed'[h].finished + (IF running'[h] = "idle" THEN 0 ELSE 1)
  <2>. SUFFICES ASSUME NEW h \in Group
                PROVE  executed'[h].started = executed'[h].finished + (IF running'[h] = "idle" THEN 0 ELSE 1)
    OBVIOUS
  <2>1. executed[h].started = executed[h].finished + (IF running[h] = "idle" THEN 0 ELSE 1) BY DEF CountTrue
  <2>2. executed[h].started \in Nat /\ executed[h].finished \in Nat BY <1>6
  <2>3. CASE h = g
    <3>1. running'[h] # "idle" BY <1>6, <1>8, <2>3
    <3>2. executed'[h].started = executed[h].started + 1 BY <1>6, <1>7, <2>3
    <3>. QED BY <1>8, <1>9, <2>1, <2>2, <2>3, <3>1, <3>2
  <2>4. CASE h # g
    <3>1. running'[h] = running[h] /\ executed'[h] = executed[h] BY <1>6, <1>7, <1>8, <2>4
    <3>. QED BY <2>1, <3>1
  <2>. QED BY <2>3, <2>4
<1>. QED BY <1>3, <1>4, <1>5, <1>9, <1>10 DEF CountTrue

\* ... and by a finish.
LEMMA CountFinish ==
    ASSUME CallInv, BatchInv, CountTrue, ~OfFactors, ~MayFail, NEW g \in Group, KernelFinish(g)
    PROVE  CountTrue'
<1>. USE DEF CallInv
<1>1. PopStep(g) BY FinishBatch
<1>2. plan' = plan BY <1>1 DEF PopStep
<1>3. Group' = Group /\ Offset' = Offset BY <1>2, SamePlan
<1>4. \A v, o : Number(v, o)' = Number(v, o) BY <1>2, SameNumber
<1>5. \A h, v, p : Passed(h, v, p)' <=> Passed(h, v, p) BY <1>1, PopSame
<1>6. executed \in [Group -> [started : Nat, finished : Nat]] /\ running \in [Group -> {"idle", "right", "wrong"}]
  BY DEF BatchInv, BatchTypes
<1>7. executed' = [executed EXCEPT ![g] = [executed[g] EXCEPT !.finished = @ + 1]]
  BY <1>6 DEF KernelFinish
<1>8. running[g] # "idle" /\ running' = [running EXCEPT ![g] = "idle"]
  BY DEF KernelFinish
<1>9. \A h \in Group :
           executed'[h].started = executed'[h].finished + (IF running'[h] = "idle" THEN 0 ELSE 1)
  <2>. SUFFICES ASSUME NEW h \in Group
                PROVE  executed'[h].started = executed'[h].finished + (IF running'[h] = "idle" THEN 0 ELSE 1)
    OBVIOUS
  <2>1. executed[h].started = executed[h].finished + (IF running[h] = "idle" THEN 0 ELSE 1) BY DEF CountTrue
  <2>2. executed[h].started \in Nat /\ executed[h].finished \in Nat BY <1>6
  <2>3. CASE h = g
    <3>1. running'[h] = "idle" BY <1>6, <1>8, <2>3
    <3>2. executed'[h].started = executed[h].started /\ executed'[h].finished = executed[h].finished + 1
      BY <1>6, <1>7, <2>3
    <3>. QED BY <1>8, <2>1, <2>2, <2>3, <3>1, <3>2
  <2>4. CASE h # g
    <3>1. running'[h] = running[h] /\ executed'[h] = executed[h] BY <1>6, <1>7, <1>8, <2>4
    <3>. QED BY <2>1, <3>1
  <2>. QED BY <2>3, <2>4
<1>0. PICK w, q : w = queue[g][1].invocation /\ q = queue[g][1].offset OBVIOUS
<1>10. Is(g, 1, "launch") /\ LaunchOf(g, 1, w, q) /\ q \in Offset
  BY <1>0, BatchHead DEF KernelFinish
<1>11. executed[g].finished = Number(w, q) /\ w \in 1 .. Invocations BY <1>0, <1>10, HeadNumber
<1>12. failed = {} /\ Invocations \in Nat BY PlansAssumption DEF CallTypes, ValidPlans
<1>13. Passed(g, w, q) BY <1>10, <1>12 DEF OrderInv, LaunchPassed, LaunchOf, Is
<1>14. 1 \in Ops(g) BY <1>10 DEF Is
<1>15. \A v, p : LaunchOf(g, 1, v, p) => v = w /\ p = q BY <1>0 DEF LaunchOf, Covers
<1>16. ~Pending(g, w, q)'
  <2>. SUFFICES ASSUME Pending(g, w, q)' PROVE FALSE OBVIOUS
  <2>1. \A v, p : \A i \in Ops(g)' : LaunchOf(g, i, v, p)' <=> LaunchOf(g, i + Shift(g, g), v, p)
    BY <1>1, PopLaunch
  <2>2. \E i \in Ops(g)' : LaunchOf(g, i + 1, w, q)
    <3>1. Shift(g, g) = 1 BY DEF Shift
    <3>2. \E i \in Ops(g)' : LaunchOf(g, i, w, q)' BY DEF Pending
    <3>. QED BY <2>1, <3>1, <3>2
  <2>3. PICK i \in Ops(g)' : LaunchOf(g, i + 1, w, q) BY <2>2
  <2>4. i \in Nat /\ i >= 1
    <3>1. g \in Stream BY PlanFacts
    <3>. QED BY <1>1, <2>3, <3>1, KeptPop DEF PopStep
  <2>5. i + 1 \in Ops(g) /\ 1 < i + 1 BY <2>3, <2>4 DEF LaunchOf, Is
  <2>6. Before(w, q, w, q) BY <1>10, <1>14, <2>3, <2>5 DEF OrderInv, Sorted
  <2>7. w \in Nat /\ q \in Nat BY <1>10, <1>14, LaunchTypes
  <2>. QED BY <2>6, <2>7 DEF Before
<1>17. Number(w, q) \in Nat /\ w \in Nat \ {0} BY <1>10, <1>11, <1>12, NumberFacts
<1>18. executed'[g].finished = Number(w, q) + 1 BY <1>6, <1>7, <1>11, <1>17
<1>19. \A h \in Group : h # g => executed'[h].finished = executed[h].finished BY <1>6, <1>7
<1>20. \A h \in Group : \A v \in 1 .. Invocations, o \in Offset :
           executed'[h].finished <= Number(v, o) <=> (Passed(h, v, o) => Pending(h, v, o)')
  <2>. SUFFICES ASSUME NEW h \in Group, NEW v \in 1 .. Invocations, NEW o \in Offset
                PROVE  executed'[h].finished <= Number(v, o) <=> (Passed(h, v, o) => Pending(h, v, o)')
    OBVIOUS
  <2>1. executed[h].finished <= Number(v, o) <=> (Passed(h, v, o) => Pending(h, v, o)) BY DEF CountTrue
  <2>2. /\ Pending(h, v, o)' => Pending(h, v, o)
        /\ Pending(h, v, o) /\ ~Pending(h, v, o)' => h = g /\ LaunchOf(h, 1, v, o)
    BY <1>1, PopLaunch
  <2>3. CASE h # g BY <1>19, <2>1, <2>2, <2>3
  <2>4. CASE h = g /\ v = w /\ o = q BY <1>13, <1>16, <1>17, <1>18, <2>4
  <2>5. CASE h = g /\ ~(v = w /\ o = q)
    <3>1. Pending(h, v, o)' <=> Pending(h, v, o) BY <1>15, <2>2, <2>5
    <3>2. v \in Nat \ {0} /\ Number(v, o) \in Nat BY <1>12, NumberFacts
    <3>3. v \in Nat /\ w \in Nat /\ o \in Nat /\ q \in Nat BY <1>10, <1>17, <3>2, OffsetFacts
    <3>4. Before(v, o, w, q) \/ Before(w, q, v, o) BY <2>5, <3>3 DEF Before
    <3>5. Number(v, o) # Number(w, q)
      <4>1. Before(v, o, w, q) => Number(v, o) < Number(w, q) BY <1>10, <1>17, <3>2, NumberFacts
      <4>2. Before(w, q, v, o) => Number(w, q) < Number(v, o) BY <1>10, <1>17, <3>2, NumberFacts
      <4>. QED BY <1>17, <3>2, <3>4, <4>1, <4>2
    <3>. QED BY <1>11, <1>17, <1>18, <2>1, <2>5, <3>1, <3>2, <3>5
  <2>. QED BY <2>3, <2>4, <2>5
<1>21. \A h \in Group : \A v \in 1 .. Invocations, o \in Offset :
           (executed[h].finished <= Number(v, o) <=> (Passed(h, v, o) => Pending(h, v, o)))'
  BY <1>3, <1>4, <1>5, <1>20
<1>. QED BY <1>3, <1>9, <1>21 DEF CountTrue

\* While no launch is refused, the counters of the groups count their tiles.
LEMMA CountStep ==
    ASSUME CallInv, BatchInv, CountTrue, ~OfFactors, ~MayFail, Next
    PROVE  CountTrue'
<1>1. Quiet \/ \E g \in Group : KernelStart(g) \/ KernelFinish(g) BY BatchKinds
<1>. QED BY <1>1, CountQuiet, CountStart, CountFinish
----------------------------------------------------------------------------
(* Initial states, and what the invariant says of the batch pipeline.      *)

\* The call invariant holds of a new plan.
LEMMA CallInit ==
    ASSUME StreamsInit, host = Idle, invocation = 0, failed = {}, input = [c \in Caller |-> 0],
           plan \in (IF OfFactors THEN FactorPlans ELSE Plans)
    PROVE  CallInv
<1>1. CallTypes
  <2>1. Invocations \in Nat \ {0} BY PlansAssumption DEF ValidPlans
  <2>. QED BY <2>1 DEF CallTypes, Active, Idle
<1>2. /\ Group \cup Caller \subseteq Stream /\ Last \in Group /\ Boundary \subseteq Group /\ 0 \in Group
  BY <1>1, PlanFacts
<1>3. \A s \in Stream : Len(queue[s]) = 0 /\ queue[s] = <<>> BY DEF StreamsInit
<1>4. \A s \in Stream : Ops(s) = {}
  <2>1. 1 .. 0 = {} OBVIOUS
  <2>. QED BY <1>3, <2>1 DEF Ops
<1>5. ~Active BY DEF Active, Idle
<1>6. \A s \in Stream : \A i, k : ~Is(s, i, k) BY <1>4 DEF Is
<1>7. \A g, v, p : ~Passed(g, v, p) BY DEF Passed
<1>8. \A g \in Group : \A i, v, p : ~LaunchOf(g, i, v, p) BY <1>2, <1>6 DEF LaunchOf
<1>9. \A g \in Group : \A v, p : ~Pending(g, v, p) BY <1>8 DEF Pending
<1>10. StreamInv
  <2>1. queue \in [Stream -> Seq(Operation)]
    <3>1. <<>> \in Seq(Operation) OBVIOUS
    <3>. QED BY <3>1 DEF StreamsInit
  <2>2. recorded \in [Event -> Nat] /\ completed = {} BY DEF StreamsInit
  <2>. QED BY <1>4, <2>1, <2>2 DEF StreamInv, StreamTypes, RecordsPending, RecordsUnique
<1>11. GroupOps /\ SameCaller /\ Fenced BY <1>2, <1>4 DEF GroupOps, SameCaller, Fenced
<1>12. CallerOps BY <1>2, <1>4 DEF CallerOps
<1>13. Ordered BY <1>4 DEF Ordered
<1>14. HostFenced BY <1>5 DEF HostFenced
<1>15. DoneLatest BY <1>2, <1>4 DEF DoneLatest
<1>16. ReadyLatest BY <1>2, <1>4 DEF ReadyLatest
<1>17. OrderInv
  <2>1. Sorted BY <1>2, <1>4 DEF Sorted
  <2>2. LaunchPassed BY <1>2, <1>4 DEF LaunchPassed
  <2>3. Fifo BY <1>7 DEF Fifo
  <2>4. Downstream BY <1>7 DEF Downstream
  <2>. QED BY <2>1, <2>2, <2>3, <2>4 DEF OrderInv
<1>18. InputTrue BY <1>2, <1>4, <1>5 DEF InputTrue
<1>. QED BY <1>1, <1>10, <1>11, <1>12, <1>13, <1>14, <1>15, <1>16, <1>17, <1>18 DEF CallInv

\* The batch invariant holds of a new plan.
LEMMA BatchInit ==
    ASSUME Init
    PROVE  ~OfFactors /\ CallInv /\ BatchInv /\ CountTrue
<1>1. ~OfFactors BY PlansAssumption DEF Init, OfFactors
<1>2. CallInv BY <1>1, CallInit DEF Init
<1>. USE DEF CallInv
<1>3. /\ Group \cup Caller \subseteq Stream /\ Last \in Group /\ Boundary \subseteq Group /\ Group \subseteq Nat
  BY <1>2, PlanFacts
<1>4. \A s \in Stream : Len(queue[s]) = 0 BY DEF Init, StreamsInit
<1>5. \A s \in Stream : Ops(s) = {}
  <2>1. 1 .. 0 = {} OBVIOUS
  <2>. QED BY <1>4, <2>1 DEF Ops
<1>6. \A g, v, p : ~Passed(g, v, p) BY DEF Passed, Init
<1>7. BatchTypes BY DEF BatchTypes, Init, Garbage
<1>8. ConsumedLatest BY <1>3, <1>5 DEF ConsumedLatest
<1>9. SlotsTrue /\ OutputTrue BY <1>6 DEF SlotsTrue, OutputTrue
<1>10. RunningTrue BY DEF RunningTrue, Init
<1>11. CountTrue
  <2>1. \A g \in Group : executed[g].started = 0 /\ executed[g].finished = 0 /\ running[g] = "idle" BY DEF Init
  <2>2. \A v \in 1 .. Invocations, o \in Offset : 0 <= Number(v, o)
    <3>. SUFFICES ASSUME NEW v \in 1 .. Invocations, NEW o \in Offset PROVE 0 <= Number(v, o) OBVIOUS
    <3>1. Invocations \in Nat BY PlansAssumption DEF ValidPlans
    <3>2. v \in Nat \ {0} BY <3>1
    <3>3. Number(v, o) \in Nat BY <1>1, <1>2, <3>2, NumberFacts
    <3>. QED BY <3>3
  <2>. QED BY <1>6, <2>1, <2>2 DEF CountTrue
<1>. QED BY <1>1, <1>2, <1>7, <1>8, <1>9, <1>10, <1>11 DEF BatchInv

\* The use of an output finds the invocation's own result in every tile.
LEMMA BatchResults ==
    ASSUME CallInv, BatchInv, ~OfFactors
    PROVE  ResultsReady
<1>. USE DEF CallInv
<1>. SUFFICES ASSUME NEW c \in Caller, Doing(c, "use"), NEW x \in 0 .. Batch - 1
              PROVE  output[c][x] = <<Next1(c).invocation, (x \div TileBatch) * TileBatch>>
  BY DEF ResultsReady
<1>1. c \in Stream BY PlanFacts
<1>2. Is(c, 1, "use") /\ Next1(c) = queue[c][1]
  <2>1. queue[c] \in Seq(Operation) /\ queue[c] # <<>> BY <1>1 DEF Doing, Busy, StreamInv, StreamTypes
  <2>2. 1 \in Ops(c) /\ Head(queue[c]) = queue[c][1] BY <2>1 DEF Ops
  <2>. QED BY <2>2 DEF Is, Doing, Next1
<1>3. PICK o : o = (x \div TileBatch) * TileBatch OBVIOUS
<1>4. o \in Offset /\ x \in o .. o + Count(o) - 1 BY <1>3, OffsetOf
<1>5. o \in Piece BY <1>4 DEF Piece
<1>6. Delivered(c, queue[c][1].invocation, o) BY <1>2, <1>5, HeadUse
<1>7. output[c][x] = <<queue[c][1].invocation, o>> BY <1>4, <1>6 DEF BatchInv, OutputTrue, Delivered
<1>. QED BY <1>2, <1>3, <1>7

\* The head of a group that is running.
LEMMA RunningHead ==
    ASSUME CallInv, RunningTrue, NEW g \in Group, running[g] # "idle"
    PROVE  Is(g, 1, "launch") /\ Next1(g) = queue[g][1] /\ 1 \in Ops(g)
<1>1. Is(g, 1, "launch") BY DEF RunningTrue
<1>2. g \in Stream BY PlanFacts DEF CallInv
<1>3. queue[g] \in Seq(Operation) BY <1>2 DEF CallInv, StreamInv, StreamTypes
<1>. QED BY <1>1, <1>3 DEF Next1, Is, Ops

\* No two launches touch a slot, one of them writing it, at once.
LEMMA BatchSlots ==
    ASSUME CallInv, BatchInv, ~OfFactors, ~MayFail
    PROVE  SlotReuse
<1>. USE DEF CallInv
<1>. SUFFICES ASSUME NEW b \in Boundary, running[b] # "idle", NEW i \in DOMAIN queue[b + 1],
                     queue[b + 1][i].kind = "launch", queue[b + 1][i].slot = Next1(b).slot
              PROVE  Position(queue[b + 1][i]) >= Position(Next1(b))
  BY DEF SlotReuse
<1>1. b \in Group /\ b + 1 \in Group /\ Group \subseteq Stream /\ Batch \in Nat \ {0}
      /\ Groups \in Nat /\ Groups >= 2
  BY PlanFacts DEF Boundary, Group
<1>2. Is(b, 1, "launch") /\ Next1(b) = queue[b][1] /\ 1 \in Ops(b) BY <1>1, RunningHead DEF BatchInv
<1>3. i \in Ops(b + 1) /\ Is(b + 1, i, "launch")
  <2>1. queue[b + 1] \in Seq(Operation) BY <1>1 DEF StreamInv, StreamTypes
  <2>. QED BY <2>1 DEF Ops, Is
<1>4. PICK w, q, v, o : /\ w = queue[b][1].invocation /\ q = queue[b][1].offset
                        /\ v = queue[b + 1][i].invocation /\ o = queue[b + 1][i].offset
  OBVIOUS
<1>5. LaunchOf(b, 1, w, q) /\ LaunchOf(b + 1, i, v, o) BY <1>1, <1>2, <1>3, <1>4, LaunchCovers
<1>6. w \in Nat /\ v \in Nat BY <1>1, <1>5, LaunchTypes
<1>7. q \in Offset /\ o \in Offset BY <1>1, <1>2, <1>3, <1>4 DEF GroupOps
<1>8. q \in Nat /\ o \in Nat /\ q < Batch BY <1>7, OffsetFacts
<1>9. failed = {} BY DEF CallTypes
<1>10. ~(v < w)
  <2>1. Pending(b + 1, v, o) BY <1>3, <1>5 DEF Pending
  <2>. QED BY <1>1, <1>2, <1>4, <1>9, <2>1, Overtaken
<1>11. ~(v = w /\ o < q)
  <2>1. \A t \in Stream : \A j \in Ops(t) : ~After(b, queue[b][1], t, queue[t][j])
    BY <1>1, <1>2, HeadFree, PlanFacts
  <2>2. ~FillAfter(b, queue[b][1], b + 1, queue[b + 1][i]) BY <1>1, <1>3, <2>1 DEF After
  <2>3. queue[b][1].kind = "launch" BY <1>2 DEF Is
  <2>. QED BY <1>1, <1>2, <1>3, <1>4, <2>2, <2>3 DEF FillAfter
<1>12. v * Batch + o >= w * Batch + q
  <2>1. PICK x, y : x = v * Batch /\ y = w * Batch OBVIOUS
  <2>2. x \in Nat /\ y \in Nat BY <1>1, <1>6, <2>1
  <2>3. CASE v = w
    <3>1. x = y /\ o >= q BY <1>8, <1>11, <2>1, <2>3
    <3>2. x + o >= y + q BY <1>8, <2>2, <3>1
    <3>. QED BY <2>1, <3>2
  <2>4. CASE w < v
    <3>1. w * Batch + Batch <= v * Batch BY <1>1, <1>6, <2>4, ProductStep
    <3>2. y + Batch <= x BY <2>1, <3>1
    <3>3. x + o >= y + q BY <1>1, <1>8, <2>2, <3>2
    <3>. QED BY <2>1, <3>3
  <2>. QED BY <1>6, <1>10, <2>3, <2>4
<1>. QED BY <1>2, <1>4, <1>12 DEF Position
----------------------------------------------------------------------------
(* The tile dataflow that the batch pipeline implements.                   *)

\* What the tile dataflow sees of the scheduler, ...
LEMMA LaunchValues ==
    ASSUME BatchTypes, Overlapped
    PROVE  /\ Launches("started") = [g \in Group |-> executed[g].started]
           /\ Launches("finished") = [g \in Group |-> executed[g].finished]
           /\ \A g \in Group : executed[g].started \in Nat /\ executed[g].finished \in Nat
<1>1. executed \in [Group -> [started : Nat, finished : Nat]] BY DEF BatchTypes
<1>2. \A g \in Group : executed[g]["started"] = executed[g].started BY <1>1
<1>3. \A g \in Group : executed[g]["finished"] = executed[g].finished BY <1>1
<1>. QED BY <1>1, <1>2, <1>3 DEF Launches

\* ... which is nothing when the plan is not overlapped, ...
LEMMA NoLaunches ==
    ASSUME ~Overlapped
    PROVE  Launches("started") = [g \in Group |-> 0] /\ Launches("finished") = [g \in Group |-> 0]
BY DEF Launches

\* ... and whether it is, is settled by the plan.
LEMMA SameOverlapped ==
    ASSUME plan' = plan
    PROVE  Groups' = Groups /\ Group' = Group /\ Last' = Last /\ TilesEach' = TilesEach /\ (Overlapped' <=> Overlapped)
BY SamePlan DEF TilesEach, Overlapped

\* A step that starts and finishes no launch is a stutter of the tile dataflow.
LEMMA FlowStutter ==
    ASSUME plan' = plan, Overlapped => executed' = executed
    PROVE  UNCHANGED Flow!bvars
<1>1. Groups' = Groups /\ Group' = Group /\ TilesEach' = TilesEach /\ (Overlapped' <=> Overlapped)
  BY SameOverlapped
<1>2. Launches("started")' = Launches("started") /\ Launches("finished")' = Launches("finished")
  BY <1>1 DEF Launches
<1>. QED BY <1>1, <1>2 DEF Flow!bvars

\* The events and the streams hold a launch back until the dataflow allows its tile.
LEMMA FlowStart ==
    ASSUME CallInv, BatchInv, CountTrue, Overlapped, NEW g \in Group, KernelStart(g)
    PROVE  Flow!Start(g)
<1>. USE DEF CallInv
<1>0. ~OfFactors /\ ~MayFail BY DEF Overlapped
<1>1. plan' = plan /\ running[g] = "idle" BY DEF KernelStart
<1>2. Groups' = Groups /\ Group' = Group /\ Last' = Last /\ TilesEach' = TilesEach /\ (Overlapped' <=> Overlapped)
  BY <1>1, SameOverlapped
<1>3. BatchTypes /\ BatchTypes' BY <1>0, StartBatch DEF BatchInv
<1>4. /\ Launches("started") = [h \in Group |-> executed[h].started]
      /\ Launches("finished") = [h \in Group |-> executed[h].finished]
      /\ \A h \in Group : executed[h].started \in Nat /\ executed[h].finished \in Nat
  BY <1>3, LaunchValues
<1>5. /\ Launches("started")' = [h \in Group |-> executed'[h].started]
      /\ Launches("finished")' = [h \in Group |-> executed'[h].finished]
  <2>1. executed' \in [Group -> [started : Nat, finished : Nat]] BY <1>2, <1>3 DEF BatchTypes
  <2>2. \A h \in Group : executed'[h]["started"] = executed'[h].started BY <2>1
  <2>3. \A h \in Group : executed'[h]["finished"] = executed'[h].finished BY <2>1
  <2>. QED BY <1>2, <2>1, <2>2, <2>3 DEF Launches
<1>6. executed \in [Group -> [started : Nat, finished : Nat]] BY <1>3 DEF BatchTypes
<1>7. executed' = [executed EXCEPT ![g] = [executed[g] EXCEPT !.started = @ + 1]] BY <1>6 DEF KernelStart
<1>8. PICK w, q : w = queue[g][1].invocation /\ q = queue[g][1].offset OBVIOUS
<1>9. Is(g, 1, "launch") /\ LaunchOf(g, 1, w, q) /\ q \in Offset /\ 1 \in Ops(g)
  <2>1. Is(g, 1, "launch") /\ LaunchOf(g, 1, w, q) /\ q \in Offset
    BY <1>0, <1>8, BatchHead DEF KernelStart
  <2>. QED BY <2>1 DEF Is
<1>10. PICK n : n = Number(w, q) OBVIOUS
<1>11. executed[g].finished = n /\ w \in 1 .. Invocations BY <1>0, <1>8, <1>9, <1>10, HeadNumber
<1>12. executed[g].started = n
  <2>1. executed[g].started = executed[g].finished + 0 BY <1>1 DEF CountTrue
  <2>. QED BY <1>4, <1>11, <2>1
<1>13. failed = {} /\ Invocations \in Nat /\ invocation \in 0 .. Invocations
  BY <1>0, PlansAssumption DEF CallTypes, ValidPlans
<1>14. TilesEach \in Nat \ {0} BY <1>0, TilesFacts
<1>15. w \in Nat \ {0} /\ w <= invocation /\ n \in Nat
  <2>1. w \in 1 .. invocation BY <1>9, LaunchTypes
  <2>2. w \in Nat \ {0} BY <1>13, <2>1
  <2>. QED BY <1>0, <1>9, <1>10, <1>13, <2>1, <2>2, NumberFacts
<1>16. n < TilesEach * Invocations BY <1>0, <1>9, <1>10, <1>11, <1>13, <1>15, NumberFacts
<1>17. n % TilesEach = Tile(q) /\ n = (w - 1) * TilesEach + Tile(q) BY <1>0, <1>9, <1>10, <1>15, NumberFacts
<1>18. Tile(q) \in Nat BY <1>0, <1>9, OffsetFacts
<1>19. PICK first : first = (w - 1) * TilesEach OBVIOUS
<1>20. first \in Nat /\ n = first + Tile(q) /\ n - (n % TilesEach) = first
  <2>1. w - 1 \in Nat BY <1>15
  <2>2. first \in Nat BY <1>14, <1>19, <2>1
  <2>3. n = first + Tile(q) BY <1>17, <1>19
  <2>. QED BY <1>17, <1>18, <2>2, <2>3
<1>21. Last \in Group BY PlanFacts
<1>22. ASSUME NEW h \in Group, NEW v \in 1 .. Invocations, NEW o \in Offset, Passed(h, v, o), ~Pending(h, v, o)
       PROVE  executed[h].finished > Number(v, o)
  <2>1. ~(executed[h].finished <= Number(v, o)) BY <1>22 DEF CountTrue
  <2>2. v \in Nat \ {0} BY <1>13
  <2>3. Number(v, o) \in Nat BY <1>0, <2>2, NumberFacts
  <2>. QED BY <1>4, <2>1, <2>3
<1>23. executed[Last].finished >= first
  <2>. SUFFICES ASSUME executed[Last].finished < first PROVE FALSE BY <1>4, <1>20, <1>21
  <2>1. w - 1 \in Nat /\ executed[Last].finished \in Nat BY <1>4, <1>15, <1>21
  <2>2. executed[Last].finished < (w - 1) * TilesEach BY <1>19
  <2>3. PICK v \in 1 .. w - 1, o \in Offset : Number(v, o) = executed[Last].finished
    BY <1>0, <2>1, <2>2, NumberFacts
  <2>4. v \in Nat /\ v \in 1 .. invocation /\ v < w /\ v # invocation /\ v \in 1 .. Invocations
    BY <1>13, <1>15, <2>3
  <2>5. Ended(v) /\ o \in Piece BY <1>0, <1>13, <2>3, <2>4 DEF Ended, Piece
  <2>6. Passed(Last, v, o) BY <2>5, AllPassed
  <2>7. ~Pending(Last, v, o) BY <1>8, <1>9, <1>13, <1>21, <2>4, Overtaken
  <2>8. executed[Last].finished > Number(v, o) BY <1>21, <1>22, <2>3, <2>4, <2>6, <2>7
  <2>. QED BY <2>1, <2>3, <2>8
<1>24. g # 0 => g - 1 \in Group /\ executed[g - 1].finished > n
  <2>. SUFFICES ASSUME g # 0 PROVE g - 1 \in Group /\ executed[g - 1].finished > n OBVIOUS
  <2>1. g - 1 \in Boundary /\ Needed(g - 1, w, q) BY <1>9, <1>13, HeadNeeds
  <2>2. g - 1 \in Group BY <2>1, PlanFacts
  <2>. QED BY <1>9, <1>10, <1>11, <1>22, <2>1, <2>2 DEF Needed
<1>25. (g # Last /\ n >= first + 2) => g + 1 \in Group /\ executed[g + 1].finished > n - 2
  <2>. SUFFICES ASSUME g # Last, n >= first + 2 PROVE g + 1 \in Group /\ executed[g + 1].finished > n - 2 OBVIOUS
  <2>1. g + 1 \in Group /\ g \in Nat /\ g \in Stream /\ g + 1 \in Stream BY PlanFacts DEF Group, Last
  <2>2. 2 <= Tile(q) BY <1>18, <1>20
  <2>3. PICK o \in Offset : o < q /\ Tile(o) = Tile(q) - 2 BY <1>0, <1>9, <2>2, OffsetBack
  <2>4. Number(w, o) = n - 2
    <3>1. Number(w, o) = first + Tile(o) BY <1>0, <1>15, <1>19, <2>3, NumberFacts
    <3>. QED BY <1>18, <1>20, <2>3, <3>1
  <2>5. Passed(g, w, q) BY <1>9, <1>13 DEF OrderInv, LaunchPassed
  <2>6. Passed(g + 1, w, o) BY <1>0, <2>3, <2>5, PassedNext
  <2>7. ~Pending(g + 1, w, o)
    <3>. SUFFICES ASSUME Pending(g + 1, w, o) PROVE FALSE OBVIOUS
    <3>1. PICK j \in Ops(g + 1) : LaunchOf(g + 1, j, w, o) BY DEF Pending
    <3>2. \A t \in Stream : \A k \in Ops(t) : ~After(g, queue[g][1], t, queue[t][k])
      BY <1>9, HeadFree, PlanFacts
    <3>3. ~FillAfter(g, queue[g][1], g + 1, queue[g + 1][j]) BY <2>1, <3>1, <3>2 DEF After
    <3>4. /\ Is(g + 1, j, "launch") /\ queue[g + 1][j].invocation = w /\ queue[g + 1][j].offset = o
      BY <1>0, <3>1 DEF LaunchOf, Covers
    <3>5. queue[g + 1][j].slot = SlotOf(o) /\ queue[g][1].slot = SlotOf(q)
      BY <1>0, <1>8, <1>9, <2>1, <3>1, <3>4 DEF GroupOps
    <3>6. SlotOf(o) = SlotOf(q)
      <4>1. \A t \in Nat : t >= 2 => (t - 2) % 2 = t % 2 OBVIOUS
      <4>. QED BY <1>18, <2>2, <2>3, <4>1 DEF SlotOf
    <3>. QED BY <1>0, <1>8, <1>9, <2>1, <2>3, <3>3, <3>4, <3>5, <3>6 DEF FillAfter, Is
  <2>8. executed[g + 1].finished > Number(w, o) BY <1>11, <1>22, <2>1, <2>3, <2>6, <2>7
  <2>. QED BY <2>1, <2>4, <2>8
<1>26. Launches("started")' = [Launches("started") EXCEPT ![g] = n + 1]
       /\ Launches("finished")' = Launches("finished")
  <2>1. /\ executed'[g].started = n + 1
        /\ \A h \in Group : h # g => executed'[h].started = executed[h].started
        /\ \A h \in Group : executed'[h].finished = executed[h].finished
    BY <1>6, <1>7, <1>12
  <2>. QED BY <1>4, <1>5, <2>1
<1>. QED BY <1>2, <1>4, <1>11, <1>12, <1>16, <1>20, <1>21, <1>23, <1>24, <1>25, <1>26
     DEF Flow!Start, Flow!Group, Flow!Last, Last

\* The end of a launch is the tile dataflow's.
LEMMA FlowFinish ==
    ASSUME CallInv, BatchInv, CountTrue, Overlapped, NEW g \in Group, KernelFinish(g)
    PROVE  Flow!Finish(g)
<1>0. ~OfFactors /\ ~MayFail BY DEF Overlapped
<1>1. plan' = plan /\ running[g] # "idle" BY DEF KernelFinish
<1>2. Groups' = Groups /\ Group' = Group /\ Last' = Last /\ TilesEach' = TilesEach /\ (Overlapped' <=> Overlapped)
  BY <1>1, SameOverlapped
<1>3. BatchTypes /\ BatchTypes' BY <1>0, FinishBatch DEF BatchInv
<1>4. /\ Launches("started") = [h \in Group |-> executed[h].started]
      /\ Launches("finished") = [h \in Group |-> executed[h].finished]
      /\ \A h \in Group : executed[h].started \in Nat /\ executed[h].finished \in Nat
  BY <1>3, LaunchValues
<1>5. /\ Launches("started")' = [h \in Group |-> executed'[h].started]
      /\ Launches("finished")' = [h \in Group |-> executed'[h].finished]
  <2>1. executed' \in [Group -> [started : Nat, finished : Nat]] BY <1>2, <1>3 DEF BatchTypes
  <2>2. \A h \in Group : executed'[h]["started"] = executed'[h].started BY <2>1
  <2>3. \A h \in Group : executed'[h]["finished"] = executed'[h].finished BY <2>1
  <2>. QED BY <1>2, <2>1, <2>2, <2>3 DEF Launches
<1>6. executed \in [Group -> [started : Nat, finished : Nat]] BY <1>3 DEF BatchTypes
<1>7. executed' = [executed EXCEPT ![g] = [executed[g] EXCEPT !.finished = @ + 1]] BY <1>6 DEF KernelFinish
<1>8. executed[g].started = executed[g].finished + 1 BY <1>1 DEF CountTrue
<1>9. Launches("finished")' = [Launches("finished") EXCEPT ![g] = @ + 1]
      /\ Launches("started")' = Launches("started")
  <2>1. /\ executed'[g].finished = executed[g].finished + 1
        /\ \A h \in Group : h # g => executed'[h].finished = executed[h].finished
        /\ \A h \in Group : executed'[h].started = executed[h].started
    BY <1>6, <1>7
  <2>. QED BY <1>4, <1>5, <2>1
<1>. QED BY <1>2, <1>4, <1>8, <1>9 DEF Flow!Finish

\* Every step of the batch scheduler is a step or a stutter of the tile dataflow.
LEMMA FlowStep ==
    ASSUME CallInv, BatchInv, CountTrue, Overlapped, Next
    PROVE  Flow!Next \/ UNCHANGED Flow!bvars
<1>0. ~OfFactors /\ ~MayFail BY DEF Overlapped
<1>1. CASE Quiet
  <2>1. plan' = plan /\ executed' = executed BY <1>1 DEF Quiet
  <2>. QED BY <2>1, FlowStutter
<1>2. ASSUME NEW g \in Group, KernelStart(g) PROVE Flow!Next
  <2>1. Flow!Start(g) BY <1>2, FlowStart
  <2>. QED BY <2>1 DEF Flow!Next, Flow!Group, Group
<1>3. ASSUME NEW g \in Group, KernelFinish(g) PROVE Flow!Next
  <2>1. Flow!Finish(g) BY <1>3, FlowFinish
  <2>. QED BY <2>1 DEF Flow!Next, Flow!Group, Group
<1>. QED BY <1>0, <1>1, <1>2, <1>3, BatchKinds
----------------------------------------------------------------------------
(* The factor pipeline: the host's steps.                                  *)

\* The factor scheduler's names for what the two schedulers share.
LEMMA FactorNames ==
    /\ Digits!Groups = Groups /\ Digits!Group = Group /\ Digits!Last = Last /\ Digits!Edge = Boundary
    /\ Digits!MayFail = MayFail /\ Digits!Idle = Idle
    /\ Digits!begin = begin /\ Digits!finish = done
    /\ \A e, s : Digits!ready(e, s) = ready(e, s)
    /\ \A e : Digits!Wait(e) = Wait(e) /\ Digits!WaitNew(e) = WaitNew(e) /\ Digits!Record(e) = Record(e)
    /\ \A E : Digits!Recording(E) = Recording(E)
BY DEF Digits!Groups, Groups, Digits!Group, Group, Digits!Last, Last, Digits!Edge, Boundary, Digits!MayFail,
       MayFail, Digits!Idle, Idle, Digits!begin, begin, Digits!finish, done, Digits!ready, ready,
       Digits!Wait, Wait, Digits!WaitNew, WaitNew, Digits!Record, Record, Digits!Recording, Recording

\* The state of the call in progress.
LEMMA SliceTypes ==
    ASSUME CallTypes, OfFactors, host.phase \in {"slices", "last"}
    PROVE  /\ host.group \in Boundary /\ host.slice \in Digits!Slice /\ host.caller \in Caller /\ Active
           /\ host \in [phase : {"slices", "last"}, caller : Caller, slice : Digits!Slice, group : Boundary]
           /\ invocation \in Nat /\ invocation \in 1 .. invocation /\ invocation \notin failed
<1>1. host \in [phase : {"slices", "last"}, caller : Caller, slice : Digits!Slice, group : Boundary]
  BY DEF CallTypes, Idle
<1>2. Active BY DEF Active
<1>3. invocation \in 1 .. Invocations /\ invocation \notin failed BY <1>2 DEF CallTypes
<1>4. invocation \in Nat /\ invocation \in 1 .. invocation
  <2>1. Invocations \in Nat BY PlansAssumption DEF ValidPlans
  <2>. QED BY <1>3, <2>1
<1>. QED BY <1>1, <1>2, <1>3, <1>4

\* The wait before a slice's launch.
LEMMA SliceWaits ==
    ASSUME CallTypes, StreamTypes, OfFactors, NEW g \in Group, NEW s \in Digits!Slice
    PROVE  /\ Digits!SliceWait(g, s) \in Seq(Operation)
           /\ Len(Digits!SliceWait(g, s)) \in {0, 1}
           /\ \A i \in 1 .. Len(Digits!SliceWait(g, s)) : Digits!SliceWait(g, s)[i].kind = "wait"
           /\ g # 0 => Len(Digits!SliceWait(g, s)) = 1 /\ Digits!SliceWait(g, s)[1] = Wait(ready(g - 1, s))
<1>. DEFINE e == ready(g - 1, s)
<1>1. Digits!SliceWait(g, s) = IF g # 0 THEN <<Wait(e)>> ELSE <<>>
  BY FactorNames DEF Digits!SliceWait
<1>2. CASE g = 0
  <2>1. Digits!SliceWait(g, s) = <<>> BY <1>1, <1>2
  <2>2. <<>> \in Seq(Operation) /\ Len(<<>>) = 0 OBVIOUS
  <2>3. \A i : i \notin 1 .. 0 OBVIOUS
  <2>. QED BY <1>2, <2>1, <2>2, <2>3
<1>3. CASE g # 0
  <2>1. g - 1 \in Boundary BY <1>3, PlanFacts DEF Group, Boundary
  <2>2. e \in Event BY <2>1, PlanFacts
  <2>3. Wait(e).kind = "wait" /\ Wait(e) \in Operation
    <3>1. recorded[e] \in Nat BY <2>2 DEF StreamTypes
    <3>. QED BY <2>2, <3>1 DEF Wait, Operation, SyncOperation, Mark
  <2>. HIDE DEF e
  <2>4. Digits!SliceWait(g, s) = <<Wait(e)>> BY <1>1, <1>3
  <2>5. Digits!SliceWait(g, s) = <<Wait(e)>> /\ Len(<<Wait(e)>>) = 1 /\ <<Wait(e)>>[1] = Wait(e)
        /\ <<Wait(e)>> \in Seq(Operation)
    BY <2>3, <2>4
  <2>6. \A i \in 1 .. 1 : i = 1 OBVIOUS
  <2>. QED BY <2>3, <2>5, <2>6 DEF e
<1>. QED BY <1>2, <1>3

\* What the enqueue of a slice adds to its group: the wait for the slice, the launch
\* and the record that announces it.
LEMMA SliceQueue ==
    ASSUME CallInv, OfFactors, Digits!EnqueueSlice, NEW g, NEW p, g = host.group, p = host.slice
    PROVE  \E m \in Nat :
               /\ Grown /\ NewRecords
               /\ New(g, m) /\ queue'[g][m] = Digits!Launch(g, p)
               /\ New(g, m + 1) /\ queue'[g][m + 1] = Record(ready(g, p))
               /\ \A s \in Stream, i \in Nat : New(s, i) =>
                     s = g /\ (i = m \/ i = m + 1 \/ (i < m /\ queue'[s][i].kind = "wait"))
               /\ g # 0 => \E k \in Nat :
                     New(g, k) /\ k < m /\ queue'[g][k] = Wait(ready(g - 1, p))
               /\ ready(g, p) \in Event
               /\ \A e \in Event : recorded[e] \in Nat /\
                     recorded'[e] = IF e = ready(g, p) THEN recorded[e] + 1 ELSE recorded[e]
<1>. USE DEF CallInv, StreamInv
<1>1. /\ g \in Boundary /\ p \in Digits!Slice /\ host.caller \in Caller /\ invocation \in Nat
      /\ host.phase = "slices"
  BY SliceTypes DEF Digits!EnqueueSlice
<1>2. g \in Group /\ g \in Stream /\ ready(g, p) \in Event /\ p \in Nat /\ g # Last
  BY <1>1, PlanFacts DEF Boundary, Last, Piece
<1>. DEFINE q == queue[g]
            w == Digits!SliceWait(g, p)
            e == ready(g, p)
            x == <<Digits!Launch(g, p), Record(e)>>
            r == (q \o w) \o x
<1>3. /\ plan' = plan /\ completed' = completed /\ recorded' = Recording({e})
      /\ queue' = [queue EXCEPT ![g] = r]
  BY FactorNames DEF Digits!EnqueueSlice
<1>4. queue \in [Stream -> Seq(Operation)] /\ q \in Seq(Operation) /\ q = queue[g]
  BY <1>2 DEF StreamTypes
<1>5. /\ w \in Seq(Operation) /\ Len(w) \in {0, 1}
      /\ \A i \in 1 .. Len(w) : w[i].kind = "wait"
      /\ g # 0 => Len(w) = 1 /\ w[1] = Wait(ready(g - 1, p))
  BY <1>1, <1>2, SliceWaits
<1>6. Digits!Launch(g, p) \in Operation /\ Digits!Launch(g, p).kind = "launch"
  <2>1. Digits!Launch(g, p) \in FactorLaunch BY <1>1, <1>2 DEF Digits!Launch, FactorLaunch
  <2>. QED BY <2>1 DEF Operation, Digits!Launch
<1>7. recorded[e] \in Nat /\ Record(e) \in Operation /\ Record(e).kind = "record" /\ Record(e).mark = <<e, recorded[e] + 1>>
  BY <1>2 DEF StreamTypes, Record, Operation, SyncOperation, Mark
<1>. HIDE DEF e
<1>8. x \in Seq(Operation) /\ Len(x) = 2 /\ x[1] = Digits!Launch(g, p) /\ x[2] = Record(e) BY <1>6, <1>7
<1>9. x \in Seq(Operation) BY <1>8
<1>. HIDE DEF q, w, x
<1>10. /\ r \in Seq(Operation)
       /\ Len(r) = Len(q) + Len(w) + Len(x)
       /\ \A i \in 1 .. Len(q) : r[i] = q[i]
       /\ \A i \in 1 .. Len(w) : r[Len(q) + i] = w[i]
       /\ \A i \in 1 .. Len(x) : r[Len(q) + Len(w) + i] = x[i]
  BY <1>4, <1>5, <1>9, ThreeParts
<1>. HIDE DEF r
<1>11. PICK n \in Nat, a \in {0, 1} : n = Len(q) /\ a = Len(w) BY <1>4, <1>5
<1>12. /\ Len(r) = n + a + 2 /\ Len(queue[g]) = n
       /\ \A i \in 1 .. a : r[n + i] = w[i]
       /\ r[n + a + 1] = Digits!Launch(g, p) /\ r[n + a + 2] = Record(e)
  <2>1. 1 \in 1 .. Len(x) /\ 2 \in 1 .. Len(x) BY <1>8
  <2>. QED BY <1>4, <1>8, <1>10, <1>11, <2>1
<1>13. /\ Grown
       /\ queue'[g] = r
       /\ \A s \in Stream, i \in Nat : New(s, i) => s = g /\ i \in Len(queue[g]) + 1 .. Len(r)
       /\ \A i \in Len(queue[g]) + 1 .. Len(r) : New(g, i)
       /\ \A f \in Event : recorded[f] \in Nat /\ recorded'[f] = IF f \in {e} THEN recorded[f] + 1 ELSE recorded[f]
  <2>1. Len(r) >= Len(queue[g]) BY <1>12
  <2>2. \A i \in 1 .. Len(queue[g]) : r[i] = queue[g][i] BY <1>4, <1>10
  <2>3. PICK E : E = {e} OBVIOUS
  <2>4. E \in SUBSET Event BY <1>2, <2>3 DEF e
  <2>5. recorded' = Recording(E) BY <1>3, <2>3
  <2>6. r \in Seq(Operation) BY <1>10
  <2>7. /\ Grown
        /\ queue'[g] = r
        /\ \A s \in Stream, i \in Nat : New(s, i) => s = g /\ i \in Len(queue[g]) + 1 .. Len(r)
        /\ \A i \in Len(queue[g]) + 1 .. Len(r) : New(g, i)
        /\ \A f \in Event : recorded[f] \in Nat /\ recorded'[f] = IF f \in E THEN recorded[f] + 1 ELSE recorded[f]
    <3>1. /\ CallTypes /\ StreamInv /\ plan' = plan /\ completed' = completed /\ g \in Stream
          /\ queue' = [queue EXCEPT ![g] = r]
      BY <1>2, <1>3
    <3>. QED BY ONLY <3>1, <2>1, <2>2, <2>4, <2>5, <2>6, GrownOne
  <2>. QED BY <2>3, <2>7
<1>. DEFINE m == n + a + 1
<1>14. m \in Nat /\ m + 1 = n + a + 2 /\ a \in Nat BY <1>11
<1>15. \A s \in Stream, i \in Nat : New(s, i) => s = g /\ (i = m \/ i = m + 1 \/ (i < m /\ queue'[s][i].kind = "wait"))
  <2>. SUFFICES ASSUME NEW s \in Stream, NEW i \in Nat, New(s, i)
                PROVE  s = g /\ (i = m \/ i = m + 1 \/ (i < m /\ queue'[s][i].kind = "wait"))
    OBVIOUS
  <2>1. s = g /\ i \in n + 1 .. n + a + 2 BY <1>12, <1>13
  <2>2. CASE i \in n + 1 .. n + a
    <3>1. i - n \in 1 .. a /\ n + (i - n) = i /\ i < m BY <1>14, <2>2
    <3>2. r[i] = w[i - n] BY <1>12, <3>1
    <3>. QED BY <1>5, <1>11, <1>13, <2>1, <3>1, <3>2
  <2>3. CASE i \notin n + 1 .. n + a
    <3>1. \A y, z \in Nat : i \in y + 1 .. y + z + 2 /\ i \notin y + 1 .. y + z =>
              i = y + z + 1 \/ i = y + z + 1 + 1
      OBVIOUS
    <3>2. n \in Nat /\ a \in Nat BY <1>11, <1>14
    <3>3. m = n + a + 1 OBVIOUS
    <3>. HIDE DEF m
    <3>4. i = n + a + 1 \/ i = n + a + 1 + 1 BY <2>1, <2>3, <3>1, <3>2
    <3>. QED BY <2>1, <3>3, <3>4
  <2>. QED BY <2>2, <2>3
<1>16. New(g, m) /\ New(g, m + 1) /\ queue'[g][m] = Digits!Launch(g, p) /\ queue'[g][m + 1] = Record(e)
  <2>1. m \in Len(queue[g]) + 1 .. Len(r) /\ m + 1 \in Len(queue[g]) + 1 .. Len(r) BY <1>12, <1>14
  <2>. QED BY <1>12, <1>13, <1>14, <2>1
<1>17. NewRecords
  <2>1. \A s \in Stream, i \in Nat : New(s, i) /\ queue'[s][i].kind = "record" => s = g /\ i = m + 1
    BY <1>6, <1>15, <1>16
  <2>2. recorded'[e] = recorded[e] + 1 /\ queue'[g][m + 1].mark = <<e, recorded[e] + 1>>
    BY <1>2, <1>7, <1>13, <1>16 DEF e
  <2>3. \A s \in Stream, i \in Nat : New(s, i) /\ queue'[s][i].kind = "record" =>
           queue'[s][i].mark[2] \in recorded[queue'[s][i].mark[1]] + 1 .. recorded'[queue'[s][i].mark[1]]
    BY <1>7, <2>1, <2>2
  <2>. QED BY <2>1, <2>3 DEF NewRecords
<1>18. g # 0 => \E k \in Nat : New(g, k) /\ k < m /\ queue'[g][k] = Wait(ready(g - 1, p))
  <2>. SUFFICES ASSUME g # 0 PROVE \E k \in Nat : New(g, k) /\ k < m /\ queue'[g][k] = Wait(ready(g - 1, p))
    OBVIOUS
  <2>1. a = 1 /\ w[1] = Wait(ready(g - 1, p)) BY <1>5, <1>11
  <2>2. n + 1 \in Len(queue[g]) + 1 .. Len(r) /\ n + 1 < m /\ n + 1 \in Nat /\ 1 \in 1 .. a BY <1>12, <2>1
  <2>3. queue'[g][n + 1] = Wait(ready(g - 1, p)) BY <1>12, <1>13, <2>1, <2>2
  <2>. QED BY <1>13, <2>2, <2>3
<1>19. \A f \in Event : recorded[f] \in Nat /\ recorded'[f] = IF f = e THEN recorded[f] + 1 ELSE recorded[f]
  BY <1>13
<1>. HIDE DEF m
<1>. QED BY <1>2, <1>13, <1>14, <1>15, <1>16, <1>17, <1>18, <1>19 DEF e
\* The loops over slices and factors.
LEMMA SliceHost ==
    ASSUME CallTypes, OfFactors, Digits!EnqueueSlice
    PROVE  /\ CallTypes' /\ Active' /\ host'.caller = host.caller /\ plan' = plan
           /\ \A h \in Group : \A p \in Digits!Slice :
                  HostPast(h, p)' <=> HostPast(h, p) \/ (h = host.group /\ p = host.slice)
           /\ \/ host'.phase = "slices" /\ host'.group = host.group + 1 /\ host'.slice = host.slice
              \/ host'.phase = "slices" /\ host'.group = 0
              \/ host'.phase = "last" /\ host.group = Last - 1 /\ host.slice = Digits!Slices - 1
<1>1. /\ host.group \in Boundary /\ host.slice \in Digits!Slice /\ host.caller \in Caller /\ Active
      /\ host \in [phase : {"slices", "last"}, caller : Caller, slice : Digits!Slice, group : Boundary]
      /\ invocation \in Nat /\ invocation \in 1 .. invocation /\ invocation \notin failed
      /\ host.phase = "slices"
  BY SliceTypes DEF Digits!EnqueueSlice
<1>2. /\ plan' = plan /\ invocation' = invocation /\ failed' = failed /\ input' = input /\ Digits!Advance
  BY DEF Digits!EnqueueSlice
<1>3. /\ Group = 0 .. Last /\ Last \in Nat /\ Groups \in Nat /\ Groups >= 2 /\ Last = Groups - 1
      /\ Boundary = 0 .. Last - 1 /\ Last >= 1
      /\ Digits!Slices \in Nat /\ Digits!Slices >= 2 /\ Digits!Slice = 0 .. Digits!Slices - 1
  BY PlanFacts DEF Group, Last, Boundary, Digits!Slice
<1>4. /\ Group' = Group /\ Offset' = Offset /\ OfFactors' = OfFactors /\ MayFail' = MayFail /\ Boundary' = Boundary
      /\ Digits!Slice' = Digits!Slice /\ Last' = Last
  BY <1>2, SamePlan
<1>6. host' \in [phase : {"slices", "last"}, caller : Caller, slice : Digits!Slice, group : Boundary] =>
        CallTypes' /\ (Active' <=> host'.phase \in {"slices", "last"})
  <2>1. host'.phase \in {"slices", "last"} => (Active' <=> host'.phase \in {"slices", "last"}) BY DEF Active
  <2>. QED BY <1>1, <1>2, <1>4, <2>1 DEF CallTypes, Idle
<1>7. \A h \in Group : \A p \in Digits!Slice : HostPast(h, p) <=>
          h < Last /\ (p < host.slice \/ (p = host.slice /\ h < host.group))
  BY <1>1 DEF HostPast
<1>a. Digits!Groups - 2 = Last - 1 BY <1>3, FactorNames
<1>8. CASE host.group < Last - 1
  <2>1. host' = [host EXCEPT !.group = @ + 1] BY <1>2, <1>8, <1>a DEF Digits!Advance
  <2>2. /\ host' \in [phase : {"slices", "last"}, caller : Caller, slice : Digits!Slice, group : Boundary]
        /\ host'.phase = "slices" /\ host'.caller = host.caller /\ host'.slice = host.slice
        /\ host'.group = host.group + 1
    BY <1>1, <1>3, <1>8, <2>1
  <2>3. \A h \in Group : \A p \in Digits!Slice : HostPast(h, p)' <=>
            h < Last /\ (p < host.slice \/ (p = host.slice /\ h < host.group + 1))
    BY <1>4, <2>2 DEF HostPast
  <2>4. \A h \in Group : \A p \in Digits!Slice :
            HostPast(h, p)' <=> HostPast(h, p) \/ (h = host.group /\ p = host.slice)
    BY <1>1, <1>3, <1>7, <1>8, <2>3
  <2>. QED BY <1>2, <1>6, <2>2, <2>4
<1>9. CASE host.group = Last - 1 /\ host.slice < Digits!Slices - 1
  <2>0. host.slice + 1 \in Digits!Slice /\ 0 \in Boundary BY <1>1, <1>3, <1>9
  <2>1. host' = [host EXCEPT !.group = 0, !.slice = @ + 1] BY <1>2, <1>3, <1>9, <1>a DEF Digits!Advance
  <2>2. /\ host' \in [phase : {"slices", "last"}, caller : Caller, slice : Digits!Slice, group : Boundary]
        /\ host'.phase = "slices" /\ host'.caller = host.caller /\ host'.slice = host.slice + 1
        /\ host'.group = 0
    <3>1. \A h \in [phase : {"slices", "last"}, caller : Caller, slice : Digits!Slice, group : Boundary] : \A n :
              h.slice + n \in Digits!Slice /\ 0 \in Boundary =>
                  \A k : k = [h EXCEPT !.group = 0, !.slice = @ + n] =>
                      /\ k \in [phase : {"slices", "last"}, caller : Caller, slice : Digits!Slice, group : Boundary]
                      /\ k.phase = h.phase /\ k.caller = h.caller /\ k.slice = h.slice + n /\ k.group = 0
      OBVIOUS
    <3>. QED BY <1>1, <2>0, <2>1, <3>1
  <2>3. \A h \in Group : \A p \in Digits!Slice : HostPast(h, p)' <=>
            h < Last /\ (p < host.slice + 1 \/ (p = host.slice + 1 /\ h < 0))
    BY <1>4, <2>2 DEF HostPast
  <2>4. \A h \in Group : \A p \in Digits!Slice :
            HostPast(h, p)' <=> HostPast(h, p) \/ (h = host.group /\ p = host.slice)
    BY <1>1, <1>3, <1>7, <1>9, <2>3
  <2>. QED BY <1>2, <1>6, <2>2, <2>4
<1>10. CASE host.group = Last - 1 /\ host.slice = Digits!Slices - 1
  <2>1. host' = [host EXCEPT !.phase = "last"] BY <1>2, <1>3, <1>10, <1>a DEF Digits!Advance
  <2>2. /\ host' \in [phase : {"slices", "last"}, caller : Caller, slice : Digits!Slice, group : Boundary]
        /\ host'.phase = "last" /\ host'.caller = host.caller
    BY <1>1, <2>1
  <2>3. \A h \in Group : \A p \in Digits!Slice : HostPast(h, p)' <=> h < Last
    BY <1>4, <2>2 DEF HostPast
  <2>4. \A h \in Group : \A p \in Digits!Slice :
            HostPast(h, p)' <=> HostPast(h, p) \/ (h = host.group /\ p = host.slice)
    BY <1>1, <1>3, <1>7, <1>10, <2>3
  <2>. QED BY <1>2, <1>6, <1>10, <2>2, <2>4
<1>11. host.group < Last - 1 \/ host.group = Last - 1 BY <1>1, <1>3
<1>12. host.slice < Digits!Slices - 1 \/ host.slice = Digits!Slices - 1 BY <1>1, <1>3
<1>. QED BY <1>8, <1>9, <1>10, <1>11, <1>12

\* The factors below the last launch one slice.
LEMMA SliceStep ==
    ASSUME CallInv, OfFactors, Digits!EnqueueSlice, NEW g, NEW p, g = host.group, p = host.slice
    PROVE  \E m : EnqueueStep(g, m, host.caller, TRUE, FALSE, FALSE)
<1>. USE DEF CallInv
<1>1. PICK m \in Nat :
               /\ Grown /\ NewRecords
               /\ New(g, m) /\ queue'[g][m] = Digits!Launch(g, p)
               /\ New(g, m + 1) /\ queue'[g][m + 1] = Record(ready(g, p))
               /\ \A s \in Stream, i \in Nat : New(s, i) =>
                     s = g /\ (i = m \/ i = m + 1 \/ (i < m /\ queue'[s][i].kind = "wait"))
               /\ g # 0 => \E k \in Nat :
                     New(g, k) /\ k < m /\ queue'[g][k] = Wait(ready(g - 1, p))
               /\ ready(g, p) \in Event
               /\ \A e \in Event : recorded[e] \in Nat /\
                     recorded'[e] = IF e = ready(g, p) THEN recorded[e] + 1 ELSE recorded[e]
  BY SliceQueue
<1>2. /\ CallTypes' /\ Active' /\ host'.caller = host.caller /\ plan' = plan
      /\ \A h \in Group : \A s \in Digits!Slice :
             HostPast(h, s)' <=> HostPast(h, s) \/ (h = g /\ s = p)
      /\ \/ host'.phase = "slices" /\ host'.group = g + 1 /\ host'.slice = p
         \/ host'.phase = "slices" /\ host'.group = 0
         \/ host'.phase = "last" /\ g = Last - 1 /\ p = Digits!Slices - 1
  BY SliceHost
<1>3. /\ g \in Boundary /\ p \in Digits!Slice /\ host.caller \in Caller /\ Active
      /\ invocation \in Nat /\ invocation \in 1 .. invocation /\ invocation \notin failed
      /\ host.phase = "slices" /\ host.group = g /\ host.slice = p
  BY SliceTypes DEF Digits!EnqueueSlice
<1>4. /\ invocation' = invocation /\ failed' = failed /\ input' = input /\ completed' = completed
  BY DEF Digits!EnqueueSlice
<1>6. /\ Digits!Launch(g, p).kind = "launch" /\ Digits!Launch(g, p).invocation = invocation
      /\ Digits!Launch(g, p).caller = host.caller /\ Digits!Launch(g, p).slice = p
  BY DEF Digits!Launch
<1>8. /\ Group \subseteq Stream /\ Caller \subseteq Stream /\ Group \subseteq Nat /\ Group \cap Caller = {}
      /\ Group = 0 .. Last /\ Boundary = 0 .. Last - 1 /\ Last \in Nat /\ Last >= 1 /\ done \in Event
      /\ Boundary \subseteq Group
  BY PlanFacts DEF Group, Boundary, Last
<1>9. /\ Group' = Group /\ Last' = Last /\ Boundary' = Boundary /\ OfFactors' = OfFactors
      /\ Piece' = Piece /\ Digits!Slices' = Digits!Slices
  BY <1>2, SamePlan
<1>5. g \in Group /\ g \in Nat /\ g \in Stream /\ g # Last /\ p \in Nat /\ Piece = Digits!Slice /\ Piece \subseteq Nat
  BY <1>3, <1>8, PlanFacts DEF Piece
<1>10. ready(g, p) # done BY DEF ready, done
\* The record is the latest and behind the launches.
<1>11. ASSUME NEW i \in Nat, i <= m
       PROVE  \A f : f = ready(g, p) => RecordAfter(g, i, f)'
  <2>1. /\ queue'[g][m + 1].kind = "record" /\ queue'[g][m + 1].mark = <<ready(g, p), recorded[ready(g, p)] + 1>>
        /\ recorded'[ready(g, p)] = recorded[ready(g, p)] + 1
    BY <1>1 DEF Record
  <2>2. m + 1 \in Ops(g)' /\ m + 1 > i
    <3>1. Len(queue[g]) \in Nat BY <1>5, Lengths DEF StreamInv
    <3>. QED BY <1>1, <1>11, <3>1 DEF New, Ops
  <2>. QED BY <2>1, <2>2 DEF RecordAfter, Is
<1>12. ASSUME NEW h \in Group, NEW i \in Ops(h)', Is(h, i, "launch")'
       PROVE  /\ i \in Nat /\ i >= 1
              /\ \/ i \in Ops(h) /\ Is(h, i, "launch") /\ queue'[h][i] = queue[h][i] /\ (h = g => i <= m)
                 \/ h = g /\ i = m
  <2>1. i \in Nat /\ i >= 1 /\ Len(queue[h]) \in Nat /\ h \in Stream
    BY <1>8, <1>12, Lengths DEF StreamInv, Ops
  <2>2. CASE i \in Ops(h)
    <3>1. queue'[h][i] = queue[h][i] BY <1>1, <2>1, <2>2 DEF Grown
    <3>2. h = g => i <= m BY <1>1, <2>1, <2>2 DEF New, Ops
    <3>. QED BY <1>12, <2>1, <2>2, <3>1, <3>2 DEF Is
  <2>3. CASE i \notin Ops(h)
    <3>1. New(h, i) BY <1>12, <2>1, <2>3 DEF New, Ops
    <3>2. Record(ready(g, p)).kind # "launch" BY DEF Record
    <3>3. h = g /\ i = m BY <1>1, <1>12, <2>1, <3>1, <3>2 DEF Is
    <3>. QED BY <2>1, <3>3
  <2>. QED BY <2>2, <2>3
<1>13. ReadyLatest'
  <2>. SUFFICES ASSUME NEW b \in Boundary, NEW i \in Ops(b)', Is(b, i, "launch")'
                PROVE  /\ host'.phase = "slices" /\ b < host'.group =>
                              \A f : f = ready(b, host'.slice) => RecordAfter(b, i, f)'
                       /\ host'.phase = "last" /\ b = Last - 1 =>
                              \A f : f = ready(Last - 1, Digits!Slices - 1) => RecordAfter(b, i, f)'
    <3>1. host'.phase # "tiles" BY <1>2
    <3>2. \A bb, s : ready(bb, s)' = ready(bb, s) BY DEF ready
    <3>3. Digits!FanIn' = ready(Last - 1, Digits!Slices - 1) BY <1>9, FactorNames DEF Digits!FanIn, Digits!ready, Digits!Last, Last, Digits!Groups, Groups, ready
    <3>. QED BY <1>9, <3>1, <3>3 DEF ReadyLatest, ready
  <2>1. b \in Nat /\ b \in Group /\ b \in Stream BY <1>8
  <2>2. /\ i \in Nat /\ i >= 1
        /\ \/ i \in Ops(b) /\ Is(b, i, "launch") /\ queue'[b][i] = queue[b][i] /\ (b = g => i <= m)
           \/ b = g /\ i = m
    BY <1>12, <2>1
  <2>3. ASSUME b = g PROVE \A f : f = ready(g, p) => RecordAfter(b, i, f)'
    <3>1. i <= m BY <2>2, <2>3
    <3>. QED BY <1>11, <2>2, <2>3, <3>1
  <2>4. ASSUME b < g PROVE \A f : f = ready(b, p) => RecordAfter(b, i, f)'
    <3>1. i \in Ops(b) /\ Is(b, i, "launch") BY <1>5, <2>1, <2>2, <2>4
    <3>2. RecordAfter(b, i, ready(b, p)) BY <1>3, <2>4, <3>1 DEF ReadyLatest
    <3>3. ready(b, p) \in Event BY <1>3, PlanFacts
    <3>4. ready(b, p) # ready(g, p) BY <1>5, <2>1, <2>4 DEF ready
    <3>5. recorded'[ready(b, p)] = recorded[ready(b, p)] BY <1>1, <3>3, <3>4
    <3>. TAKE f
    <3>. HAVE f = ready(b, p)
    <3>6. RecordAfter(b, i, f) /\ recorded'[f] = recorded[f] BY <3>2, <3>5
    <3>. QED BY <1>1, <2>1, <2>2, <3>6, RecordAfterGrow
  <2>5. host'.phase = "slices" /\ b < host'.group => host'.slice = p /\ (b = g \/ b < g)
    BY <1>2, <1>5, <2>1
  <2>6. host'.phase = "last" /\ b = Last - 1 => b = g /\ p = Digits!Slices - 1 BY <1>2
  <2>7. host'.phase = "slices" /\ b < host'.group => \A f : f = ready(b, host'.slice) => RecordAfter(b, i, f)'
    <3>. SUFFICES ASSUME host'.phase = "slices", b < host'.group
                  PROVE  \A f : f = ready(b, host'.slice) => RecordAfter(b, i, f)'
      OBVIOUS
    <3>1. host'.slice = p /\ (b = g \/ b < g) BY <2>5
    <3>. QED BY <2>3, <2>4, <3>1
  <2>8. host'.phase = "last" /\ b = Last - 1 =>
            \A f : f = ready(Last - 1, Digits!Slices - 1) => RecordAfter(b, i, f)'
    BY <2>3, <2>6
  <2>. QED BY <2>7, <2>8
\* What the launch waits for.
<1>15. ASSUME NEW t \in Group, NEW j \in Ops(t),
              ReadAfter(g, queue'[g][m], t, queue[t][j]) \/ FillAfter(g, queue'[g][m], t, queue[t][j])
       PROVE  Behind(g, m, t, j)'
  <2>1. ReadAfter(g, queue'[g][m], t, queue[t][j]) BY <1>15 DEF FillAfter
  <2>2. Is(t, j, "launch") /\ t \in Stream /\ t \in Nat
    BY <1>8, <2>1 DEF Is, ReadAfter
  <2>3. g = t + 1 BY <2>1 DEF ReadAfter
  <2>4. g # 0 /\ g - 1 = t /\ t \in Boundary /\ t < g BY <1>3, <1>5, <1>8, <2>2, <2>3
  <2>5. RecordAfter(t, j, ready(t, p)) BY <1>3, <2>2, <2>4 DEF ReadyLatest
  <2>6. PICK k \in Nat : New(g, k) /\ k < m /\ queue'[g][k] = Wait(ready(t, p))
    BY <1>1, <2>4
  <2>7. PICK f : f = ready(t, p) OBVIOUS
  <2>8. k \in 1 .. m - 1 /\ k \in Ops(g)'
    <3>1. Len(queue[g]) \in Nat BY <1>5, Lengths DEF StreamInv
    <3>. QED BY <1>1, <2>6, <3>1 DEF New, Ops
  <2>9. Is(g, k, "wait")' /\ queue'[g][k].on = <<f, recorded[f]>>
    BY <2>6, <2>7, <2>8 DEF Is, Wait
  <2>. QED BY <1>1, <1>5, <2>2, <2>5, <2>7, <2>8, <2>9, WaitedFor
<1>16. \A s : Covers(g, queue'[g][m], s) <=> s = p
  <2>1. queue'[g][m].slice = p BY <1>1, <1>6
  <2>. QED BY <1>3, <1>5, <2>1 DEF Covers
<1>17. \A h \in Group : \A s, q :
           Covers(g, queue'[g][m], s) /\ Passed(h, invocation, q) =>
               /\ g <= h => q < s
               /\ ~OfFactors /\ h < g => q <= s
  <2>1. \A h \in Group : \A q : Passed(h, invocation, q) => q \in Nat /\ (q < p \/ (q = p /\ h < g))
    BY <1>3, <1>5 DEF Passed, HostPast
  <2>. QED BY <1>5, <1>8, <1>16, <2>1
<1>18. Launched(g, m)
  <2>1. queue'[g][m].slice \in (IF g = Last THEN {0} ELSE Digits!Slice) BY <1>1, <1>3, <1>5, <1>6
  <2>. QED BY <1>1, <1>6, <1>15, <1>17, <2>1 DEF Launched
<1>19. \A h \in Group : \A v, s : Passed(h, v, s)' <=>
           Passed(h, v, s) \/ (h = g /\ v = invocation /\ s = p)
  BY <1>2, <1>3, <1>4, <1>5, <1>9 DEF Passed
<1>20. Enqueue(g, m, host.caller, TRUE, FALSE, FALSE)
  <2>0. Record(ready(g, p)).kind = "record" BY DEF Record
  <2>1. \A s \in Stream, i \in Nat : New(s, i) =>
            s = g /\ queue'[s][i].kind \in {"wait", "record", "launch"}
    BY <1>1, <1>6, <2>0
  <2>2. \A i \in Nat : New(g, i) /\ queue'[g][i].kind = "launch" => i = m
    BY <1>1, <1>5, <2>0
  <2>3. \A i \in Nat : New(host.caller, i) /\ queue'[host.caller][i].kind = "use"
            => queue'[host.caller][i].invocation = invocation
    BY <1>3, <1>5, <1>8, <2>1
  <2>4. failed' = failed \cup {v \in {invocation} : FALSE} BY <1>4
  <2>5. recorded'[done] = recorded[done] BY <1>1, <1>8, <1>10
  <2>. QED BY <1>1, <1>2, <1>3, <1>4, <1>5, <2>1, <2>2, <2>3, <2>4, <2>5 DEF Enqueue
<1>21. EnqueueStep(g, m, host.caller, TRUE, FALSE, FALSE)
  <2>1. \A h \in Group : \A v, s : Passed(h, v, s)' <=>
            /\ ~(FALSE /\ v = invocation)
            /\ Passed(h, v, s) \/ (TRUE /\ h = g /\ v = invocation /\ Covers(g, queue'[g][m], s))
    BY <1>16, <1>19
  <2>. QED BY <1>13, <1>18, <1>20, <2>1 DEF EnqueueStep
<1>. QED BY <1>21

\* The last factor is launched once, behind the last slice of the last edge.
LEMMA LastStep ==
    ASSUME CallInv, OfFactors, Digits!EnqueueLast, NEW c, c = host.caller, NEW g, g = Last
    PROVE  \E m : EnqueueStep(g, m, c, TRUE, FALSE, TRUE)
<1>. USE DEF CallInv
<1>1. /\ c \in Caller /\ Active /\ host.phase = "last" /\ Invocations \in Nat
      /\ invocation \in Nat /\ invocation \in 1 .. invocation /\ invocation \notin failed
  BY SliceTypes, PlansAssumption DEF Digits!EnqueueLast, ValidPlans
<1>2. /\ Group \subseteq Stream /\ Caller \subseteq Stream /\ Group \subseteq Nat /\ Group \cap Caller = {}
      /\ Last \in Nat /\ Last >= 1 /\ Last \in Group /\ Last - 1 \in Boundary /\ done \in Event
      /\ Boundary \subseteq Group /\ Piece = Digits!Slice /\ Piece \subseteq Nat /\ 0 \in Digits!Slice
      /\ Digits!Slices \in Nat /\ Digits!Slices >= 2 /\ Digits!Slices - 1 \in Digits!Slice
      /\ Group = 0 .. Last
  BY PlanFacts DEF Group, Boundary, Last, Piece, Digits!Slice
<1>3. PICK fan : fan = ready(Last - 1, Digits!Slices - 1) OBVIOUS
<1>4. fan \in Event /\ recorded[fan] \in Nat /\ recorded[done] \in Nat /\ fan = Digits!FanIn
  <2>1. fan \in Event BY <1>2, <1>3, PlanFacts
  <2>2. recorded[fan] \in Nat /\ recorded[done] \in Nat BY <1>2, <2>1 DEF StreamInv, StreamTypes
  <2>. QED BY <1>3, <2>1, <2>2, FactorNames DEF Digits!FanIn
<1>. DEFINE q == queue[Last]
            op == Digits!Launch(Last, 0)
            l == << Wait(fan), op, Record(done) >>
            r == q \o l
<1>5. /\ queue' = [queue EXCEPT ![Last] = r,
                        ![c] = @ \o << WaitNew(done), [kind |-> "use", invocation |-> invocation] >>]
      /\ recorded' = Recording({done}) /\ host' = Idle
      /\ UNCHANGED <<plan, completed, invocation, failed, input>>
  BY <1>4, FactorNames DEF Digits!EnqueueLast
<1>6. q \in Seq(Operation) /\ Len(q) \in Nat /\ q = queue[Last] BY <1>2 DEF StreamInv, StreamTypes
<1>7. /\ op.kind = "launch" /\ op.invocation = invocation /\ op.caller = c /\ op.slice = 0
      /\ op \in Operation
  <2>1. op \in FactorLaunch BY <1>1 DEF Digits!Launch, FactorLaunch
  <2>. QED BY <1>1, <2>1 DEF Digits!Launch, Operation
<1>8. /\ Wait(fan) \in Operation /\ Wait(fan).kind = "wait" /\ Wait(fan).on = <<fan, recorded[fan]>>
      /\ Record(done) \in Operation /\ Record(done).kind = "record"
  BY <1>2, <1>4 DEF Wait, Record, Operation, SyncOperation, Mark
<1>. HIDE DEF op
<1>9. l \in Seq(Operation) /\ Len(l) = 3 /\ l[1] = Wait(fan) /\ l[2] = op /\ l[3] = Record(done)
  BY <1>7, <1>8
<1>. HIDE DEF q, l
<1>10. /\ r \in Seq(Operation) /\ Len(r) = Len(q) + Len(l)
       /\ \A i \in 1 .. Len(q) : r[i] = q[i]
       /\ \A i \in 1 .. Len(l) : r[Len(q) + i] = l[i]
  <2>1. q \in Seq(Operation) /\ l \in Seq(Operation) BY <1>6, <1>9
  <2>. QED BY ONLY <2>1, AppendFacts DEF r
<1>. HIDE DEF r
<1>11. PICK n \in Nat : n = Len(q) BY <1>6
<1>12. /\ Len(r) = n + 3 /\ Len(queue[Last]) = n
       /\ r[n + 1] = Wait(fan) /\ r[n + 2] = op /\ r[n + 3] = Record(done)
  <2>1. 1 \in 1 .. Len(l) /\ 2 \in 1 .. Len(l) /\ 3 \in 1 .. Len(l) BY <1>9
  <2>. QED BY <1>6, <1>9, <1>10, <1>11, <2>1
<1>13. \A i \in n + 1 .. n + 3 : i = n + 1 \/ i = n + 2 \/ i = n + 3 OBVIOUS
<1>14. EndQueue(c, r)
  <2>1. \A i \in Len(queue[Last]) + 1 .. Len(r) - 1 : r[i].kind \in {"wait", "launch"}
    <3>1. \A i \in n + 1 .. n + 3 - 1 : i = n + 1 \/ i = n + 2 OBVIOUS
    <3>. QED BY <1>7, <1>8, <1>12, <3>1
  <2>2. Len(r) > Len(queue[Last]) /\ r[Len(r)] = Record(done) BY <1>12
  <2>3. \A i \in 1 .. Len(queue[Last]) : r[i] = queue[Last][i] BY <1>6, <1>10
  <2>. QED BY <1>5, <1>10, <2>1, <2>2, <2>3 DEF EndQueue
<1>15. /\ Grown /\ NewRecords /\ Finished(c)
       /\ queue'[Last] = r
       /\ \A s \in Stream, i \in Nat : New(s, i) =>
             \/ s = Last /\ i \in Len(queue[Last]) + 1 .. Len(r)
             \/ s = c /\ queue'[s][i].kind \in {"wait", "use"} /\
                   (queue'[s][i].kind = "use" => queue'[s][i].invocation = invocation)
       /\ \A i \in Len(queue[Last]) + 1 .. Len(r) : New(Last, i)
       /\ \A e \in Event : recorded[e] \in Nat /\ recorded'[e] = IF e = done THEN recorded[e] + 1 ELSE recorded[e]
  BY <1>1, <1>14, EndQueues
<1>0. PICK m \in Nat : m = n + 2 BY <1>11
<1>16. /\ m \in Nat /\ m - 1 = n + 1 /\ New(g, m) /\ New(g, n + 1) /\ queue'[g][m] = op
       /\ queue'[g][n + 1] = Wait(fan)
  <2>1. m \in Len(queue[g]) + 1 .. Len(r) /\ n + 1 \in Len(queue[g]) + 1 .. Len(r) BY <1>0, <1>11, <1>12
  <2>. QED BY <1>0, <1>12, <1>15, <2>1
<1>17. \A s \in Stream, i \in Nat : New(s, i) =>
             \/ s = g /\ queue'[s][i].kind \in {"wait", "record", "launch"}
                /\ (queue'[s][i].kind = "launch" => i = m)
             \/ s = c /\ queue'[s][i].kind \in {"wait", "use"} /\
                   (queue'[s][i].kind = "use" => queue'[s][i].invocation = invocation)
  <2>1. \A i \in Len(queue[g]) + 1 .. Len(r) : r[i].kind \in {"wait", "record", "launch"} /\
                                                   (r[i].kind = "launch" => i = m)
    BY <1>0, <1>7, <1>8, <1>11, <1>12, <1>13
  <2>. QED BY <1>15, <2>1
<1>18. ~Active' /\ host'.phase = "idle" BY <1>5 DEF Active, Idle
<1>19. CallTypes'
  <2>1. /\ OfFactors' = OfFactors /\ MayFail' = MayFail /\ Offset' = Offset /\ Group' = Group
        /\ Digits!Slice' = Digits!Slice /\ Boundary' = Boundary
    BY <1>5, SamePlan
  <2>2. host' \in {Idle', [phase |-> "released"]} BY <1>5 DEF Idle
  <2>. QED BY <1>5, <1>18, <2>1, <2>2 DEF CallTypes
<1>20. ReadyLatest' BY <1>18 DEF ReadyLatest
<1>21. \A s : Covers(g, queue'[g][m], s) <=> s \in Digits!Slice BY DEF Covers
<1>22. \A h, s : HostPast(h, s) <=> h < g BY <1>1 DEF HostPast
<1>23. \A h \in Group : \A v, s : Passed(h, v, s)' <=>
           Passed(h, v, s) \/ (h = g /\ v = invocation /\ s \in Digits!Slice)
  <2>1. Piece' = Piece /\ invocation' = invocation /\ failed' = failed BY <1>5, SamePlan
  <2>2. \A h, s : HostPast(h, s)' BY <1>18 DEF HostPast
  <2>3. \A h \in Group : h < g \/ h = g BY <1>2
  <2>4. \A h \in Group : ~(h = g /\ h < g) BY <1>2
  <2>. QED BY <1>1, <1>2, <1>22, <2>1, <2>2, <2>3, <2>4 DEF Passed
<1>24. ASSUME NEW t \in Group, NEW j \in Ops(t),
              ReadAfter(g, queue'[g][m], t, queue[t][j]) \/ FillAfter(g, queue'[g][m], t, queue[t][j])
       PROVE  Behind(g, m, t, j)'
  <2>1. ReadAfter(g, queue'[g][m], t, queue[t][j]) BY <1>24 DEF FillAfter
  <2>2. Is(t, j, "launch") /\ t \in Stream /\ t \in Nat BY <1>2, <2>1 DEF Is, ReadAfter
  <2>3. g = t + 1 BY <2>1 DEF ReadAfter
  <2>4. t = g - 1 BY <1>2, <2>2, <2>3
  <2>5. RecordAfter(t, j, fan) BY <1>1, <1>2, <1>4, <2>2, <2>4 DEF ReadyLatest
  <2>6. n + 1 \in 1 .. m - 1 /\ n + 1 \in Ops(g)'
    <3>1. Len(queue[g]) \in Nat BY <1>12
    <3>. QED BY <1>16, <3>1 DEF New, Ops
  <2>7. Is(g, n + 1, "wait")' /\ queue'[g][n + 1].on = <<fan, recorded[fan]>>
    BY <1>8, <1>16, <2>6 DEF Is
  <2>. QED BY <1>2, <1>15, <1>16, <2>2, <2>5, <2>6, <2>7, WaitedFor
<1>25. Launched(g, m)
  <2>1. \A h \in Group : \A s, q1 :
           Covers(g, queue'[g][m], s) /\ Passed(h, invocation, q1) =>
               /\ g <= h => q1 < s
               /\ ~OfFactors /\ h < g => q1 <= s
    <3>1. \A h \in Group : \A q1 : Passed(h, invocation, q1) => h < g BY <1>22 DEF Passed
    <3>2. \A h \in Group : h < g => ~(g <= h) BY <1>2
    <3>. QED BY <3>1, <3>2
  <2>. QED BY <1>1, <1>7, <1>16, <1>24, <2>1 DEF Launched
<1>26. Enqueue(g, m, c, TRUE, FALSE, TRUE)
  <2>1. failed' = failed \cup {v \in {invocation} : FALSE} BY <1>5
  <2>2. \A i \in Nat : New(c, i) /\ queue'[c][i].kind = "use" => queue'[c][i].invocation = invocation
    BY <1>1, <1>2, <1>17
  <2>3. \A i \in Nat : New(g, i) /\ queue'[g][i].kind = "launch" => i = m
    BY <1>1, <1>2, <1>17
  <2>4. \A s \in Stream, i \in Nat : New(s, i) =>
           \/ s = g /\ queue'[s][i].kind \in {"wait", "record", "launch"}
           \/ TRUE /\ s = c /\ queue'[s][i].kind \in {"wait", "use"}
    BY <1>17
  <2>. QED BY <1>1, <1>2, <1>5, <1>15, <1>18, <1>19, <2>1, <2>2, <2>3, <2>4 DEF Enqueue
<1>27. EnqueueStep(g, m, c, TRUE, FALSE, TRUE)
  <2>1. \A h \in Group : \A v, s : Passed(h, v, s)' <=>
            /\ ~(FALSE /\ v = invocation)
            /\ Passed(h, v, s) \/ (TRUE /\ h = g /\ v = invocation /\ Covers(g, queue'[g][m], s))
    BY <1>21, <1>23
  <2>. QED BY <1>15, <1>20, <1>25, <1>26, <2>1 DEF EnqueueStep
<1>. QED BY <1>27

\* A launch that throws adds waits only.
LEMMA FactorFails ==
    ASSUME CallInv, OfFactors, Digits!LaunchFails
    PROVE  \E g : EnqueueStep(g, 0, host.caller, FALSE, TRUE, FALSE) /\ Grown
<1>. USE DEF CallInv
<1>1. host.phase \in {"slices", "last"} /\ MayFail
      /\ UNCHANGED <<plan, recorded, completed, invocation, input>>
      /\ failed' = failed \cup {invocation} /\ host' = Idle
  BY FactorNames DEF Digits!LaunchFails
<1>2. /\ host.group \in Boundary /\ host.slice \in Digits!Slice /\ host.caller \in Caller /\ Active BY <1>1, SliceTypes
<1>3. /\ Group \subseteq Stream /\ Last \in Group /\ Boundary \subseteq Group /\ Last - 1 \in Boundary
      /\ Digits!Slices - 1 \in Digits!Slice
  BY PlanFacts DEF Group, Boundary, Last, Digits!Slice
<1>4. ASSUME NEW g \in Group, NEW w \in Seq(Operation), \A i \in 1 .. Len(w) : w[i].kind = "wait",
             NEW q, q = queue[g], NEW r, r = q \o w, queue' = [queue EXCEPT ![g] = r]
      PROVE  EnqueueStep(g, 0, host.caller, FALSE, TRUE, FALSE) /\ Grown
  <2>1. q \in Seq(Operation) /\ Len(q) \in Nat /\ Len(w) \in Nat BY <1>3, <1>4 DEF StreamInv, StreamTypes
  <2>2. /\ r \in Seq(Operation) /\ Len(r) = Len(q) + Len(w)
        /\ \A i \in 1 .. Len(q) : r[i] = q[i]
        /\ \A i \in 1 .. Len(w) : r[Len(q) + i] = w[i]
    <3>1. r = q \o w BY <1>4
    <3>. QED BY ONLY <2>1, <3>1, AppendFacts
  <2>3. \A i \in Len(q) + 1 .. Len(r) : r[i].kind = "wait"
    <3>. SUFFICES ASSUME NEW i \in Len(q) + 1 .. Len(r) PROVE r[i].kind = "wait" OBVIOUS
    <3>1. PICK n \in Nat, a \in Nat : n = Len(q) /\ a = Len(w) BY <2>1
    <3>2. i - n \in 1 .. a /\ n + (i - n) = i BY <2>2, <3>1
    <3>3. r[i] = w[i - n] BY <2>2, <3>1, <3>2
    <3>. QED BY <1>4, <3>1, <3>2, <3>3
  <2>4. Len(r) >= Len(queue[g]) /\ \A i \in 1 .. Len(queue[g]) : r[i] = queue[g][i] BY <1>4, <2>1, <2>2
  <2>5. \A i \in Len(queue[g]) + 1 .. Len(r) : r[i].kind = "wait" BY <1>4, <2>3
  <2>6. r \in Seq(Operation) BY <2>2
  <2>. QED BY <1>1, <1>2, <1>4, <2>4, <2>5, <2>6, RefuseStep
<1>5. CASE /\ host.phase = "slices"
           /\ queue' = [queue EXCEPT ![host.group] = @ \o Digits!SliceWait(host.group, host.slice)]
  <2>1. PICK g, p : g = host.group /\ p = host.slice OBVIOUS
  <2>2. g \in Group /\ p \in Digits!Slice BY <1>2, <1>3, <2>1
  <2>3. /\ Digits!SliceWait(g, p) \in Seq(Operation)
        /\ \A i \in 1 .. Len(Digits!SliceWait(g, p)) : Digits!SliceWait(g, p)[i].kind = "wait"
    BY <2>2, SliceWaits DEF StreamInv
  <2>4. PICK w : w = Digits!SliceWait(g, p) OBVIOUS
  <2>5. PICK q, r : q = queue[g] /\ r = q \o w OBVIOUS
  <2>6. queue' = [queue EXCEPT ![g] = r]
    <3>1. queue' = [queue EXCEPT ![g] = @ \o w] BY <1>5, <2>1, <2>4
    <3>. QED BY <2>5, <3>1
  <2>. QED BY <1>4, <2>2, <2>3, <2>4, <2>5, <2>6
<1>6. CASE /\ host.phase = "last"
           /\ queue' = [queue EXCEPT ![Last] = Append(@, Wait(ready(Last - 1, Digits!Slices - 1)))]
  <2>1. PICK e : e = ready(Last - 1, Digits!Slices - 1) OBVIOUS
  <2>2. e \in Event BY <1>3, <2>1, PlanFacts
  <2>3. Wait(e).kind = "wait" /\ Wait(e) \in Operation
    <3>1. recorded[e] \in Nat BY <2>2 DEF StreamTypes, StreamInv
    <3>. QED BY <2>2, <3>1 DEF Wait, Operation, SyncOperation, Mark
  <2>4. PICK o : o = Wait(e) OBVIOUS
  <2>5. PICK w : w = <<o>> OBVIOUS
  <2>6. w \in Seq(Operation) /\ \A i \in 1 .. Len(w) : w[i].kind = "wait" BY <2>3, <2>4, <2>5
  <2>7. PICK q, r : q = queue[Last] /\ r = q \o w OBVIOUS
  <2>8. queue' = [queue EXCEPT ![Last] = r]
    <3>1. queue' = [queue EXCEPT ![Last] = Append(@, o)] BY <1>6, <2>1, <2>4
    <3>2. q \in Seq(Operation) /\ o \in Operation BY <1>3, <2>3, <2>4, <2>7 DEF StreamInv, StreamTypes
    <3>3. Append(q, o) = q \o w BY <2>5, <3>2
    <3>. QED BY <2>7, <3>1, <3>3
  <2>. QED BY <1>3, <1>4, <2>6, <2>7, <2>8
<1>7. \/ /\ host.phase = "slices"
         /\ queue' = [queue EXCEPT ![host.group] = @ \o Digits!SliceWait(host.group, host.slice)]
      \/ /\ host.phase = "last"
         /\ queue' = [queue EXCEPT ![Last] = Append(@, Wait(ready(Last - 1, Digits!Slices - 1)))]
  BY FactorNames DEF Digits!LaunchFails, Digits!FanIn
<1>. QED BY <1>5, <1>6, <1>7
----------------------------------------------------------------------------
(* The factor pipeline: what its launches read and write.                  *)

\* The factor scheduler's device steps are those of the streams.
LEMMA DeviceNames ==
    /\ \A s : Digits!Busy(s) <=> Busy(s)
    /\ \A s : Digits!Next1(s) = Next1(s)
    /\ \A s, k : Digits!Doing(s, k) <=> Doing(s, k)
    /\ \A s : Digits!Pop(s) <=> Pop(s)
    /\ \A s : Digits!PassWait(s) <=> PassWait(s)
    /\ \A s : Digits!PassRecord(s) <=> PassRecord(s)
BY DEF Digits!Busy, Busy, Digits!Next1, Next1, Digits!Doing, Doing, Digits!Pop, Pop, Digits!PassWait,
       PassWait, Digits!PassRecord, PassRecord, Digits!Happened, Happened

\* The slices of a plan (DependencyClosed).
LEMMA SliceFacts ==
    ASSUME CallTypes, OfFactors
    PROVE  /\ \A e \in Boundary : \A s, t \in Digits!Slice :
                  s # t => Digits!Writes[e][s] \cap Digits!Writes[e][t] = {}
           /\ \A g \in Boundary \ {0} : \A s \in Digits!Slice :
                  Digits!Reads[g][s] \subseteq Digits!Writes[g - 1][s]
           /\ \A a \in Digits!Reads[Last][0] : \E s \in Digits!Slice : a \in Digits!Writes[Last - 1][s]
           /\ Digits!Writes[Last][0] = Digits!Address
           /\ \A g \in Group : \A s \in Digits!Slice :
                  Digits!Reads[g][s] \subseteq Digits!Address /\ Digits!Writes[g][s] \subseteq Digits!Address
<1>1. plan \in FactorPlans BY DEF CallTypes
<1>2. Digits!DependencyClosed(plan) BY <1>1, PlansAssumption DEF Digits!ValidPlans
<1>. DEFINE n == plan.groups
            m == plan.slices
<1>3. n \in Nat /\ n >= 2 BY <1>1, PlansAssumption DEF Digits!ValidPlans
<1>4. /\ Group = 0 .. n - 1 /\ Boundary = 0 .. n - 2 /\ Last = n - 1 /\ Digits!Slice = 0 .. m - 1
      /\ Digits!Reads = plan.reads /\ Digits!Writes = plan.writes /\ Digits!Address = plan.addresses
  BY DEF Group, Groups, Boundary, Last, Digits!Slice, Digits!Slices, Digits!Reads, Digits!Writes,
         Digits!Address
<1>5. /\ plan.reads \in [0 .. n - 1 -> [0 .. m - 1 -> SUBSET plan.addresses]]
      /\ plan.writes \in [0 .. n - 1 -> [0 .. m - 1 -> SUBSET plan.addresses]]
      /\ \A e \in 0 .. n - 2 : \A s, t \in 0 .. m - 1 :
             s # t => plan.writes[e][s] \cap plan.writes[e][t] = {}
      /\ \A e \in 0 .. n - 3 : \A s \in 0 .. m - 1 : plan.reads[e + 1][s] \subseteq plan.writes[e][s]
      /\ \A a \in plan.reads[n - 1][0] : \E s \in 0 .. m - 1 : a \in plan.writes[n - 2][s]
      /\ plan.writes[n - 1][0] = plan.addresses
  BY <1>2 DEF Digits!DependencyClosed
<1>. HIDE DEF n, m
<1>6. \A g \in 0 .. n - 2 : g # 0 => g - 1 \in 0 .. n - 3 /\ (g - 1) + 1 = g BY <1>3
<1>7. \A g \in Boundary \ {0} : \A s \in Digits!Slice : Digits!Reads[g][s] \subseteq Digits!Writes[g - 1][s]
  BY <1>4, <1>5, <1>6
<1>8. Last - 1 = n - 2 BY <1>3, <1>4
<1>9. \A e \in Boundary : \A s, t \in Digits!Slice :
          s # t => Digits!Writes[e][s] \cap Digits!Writes[e][t] = {}
  BY <1>4, <1>5
<1>10. \A a \in Digits!Reads[Last][0] : \E s \in Digits!Slice : a \in Digits!Writes[Last - 1][s]
  BY <1>4, <1>5, <1>8
<1>11. Digits!Writes[Last][0] = Digits!Address BY <1>4, <1>5
<1>12. \A g \in Group : \A s \in Digits!Slice :
          Digits!Reads[g][s] \subseteq Digits!Address /\ Digits!Writes[g][s] \subseteq Digits!Address
  <2>1. \A g \in 0 .. n - 1 : /\ plan.reads[g] \in [0 .. m - 1 -> SUBSET plan.addresses]
                             /\ plan.writes[g] \in [0 .. m - 1 -> SUBSET plan.addresses]
    BY <1>5
  <2>2. \A g \in 0 .. n - 1 : \A s \in 0 .. m - 1 :
            plan.reads[g][s] \in SUBSET plan.addresses /\ plan.writes[g][s] \in SUBSET plan.addresses
    BY <2>1
  <2>. QED BY <1>4, <2>2
<1>. QED BY <1>7, <1>9, <1>10, <1>11, <1>12

\* The launch at the head of a group.
LEMMA FactorHead ==
    ASSUME CallInv, OfFactors, NEW g \in Group, Doing(g, "launch")
    PROVE  /\ Is(g, 1, "launch") /\ Next1(g) = queue[g][1] /\ g \in Stream /\ queue[g] # <<>>
           /\ queue[g][1].caller \in Caller /\ queue[g][1].slice \in Digits!Slice
           /\ (g = Last => queue[g][1].slice = 0)
           /\ queue[g][1].invocation \in Nat
           /\ LaunchOf(g, 1, queue[g][1].invocation, queue[g][1].slice)
           /\ \A p \in Digits!Slice : g = Last => LaunchOf(g, 1, queue[g][1].invocation, p)
<1>. USE DEF CallInv
<1>1. g \in Stream /\ queue \in [Stream -> Seq(Operation)] /\ 0 \in Digits!Slice
  BY PlanFacts DEF StreamInv, StreamTypes, Digits!Slice
<1>2. queue[g] # <<>> /\ Head(queue[g]).kind = "launch" BY DEF Doing, Busy, Next1
<1>3. Head(queue[g]) = queue[g][1] /\ 1 \in Ops(g)
  <2>1. queue[g] \in Seq(Operation) BY <1>1
  <2>. QED BY <1>2, <2>1 DEF Ops
<1>4. Is(g, 1, "launch") BY <1>2, <1>3 DEF Is
<1>5. queue[g][1].slice \in Digits!Slice /\ (g = Last => queue[g][1].slice = 0)
  BY <1>1, <1>3, <1>4 DEF GroupOps
<1>6. /\ LaunchOf(g, 1, queue[g][1].invocation, queue[g][1].slice)
      /\ \A p \in Digits!Slice : g = Last => LaunchOf(g, 1, queue[g][1].invocation, p)
  BY <1>4, <1>5 DEF LaunchOf, Covers
<1>7. queue[g][1].invocation \in Nat /\ queue[g][1].caller \in Caller
  BY <1>6, LaunchTypes
<1>. QED BY <1>1, <1>2, <1>3, <1>4, <1>5, <1>6, <1>7 DEF Next1

\* What is still needed is where it was.
LEMMA FactorKeep ==
    ASSUME CallInv, OfFactors, FactorTypes, ScratchTrue, ResultTrue, plan' = plan,
           UNCHANGED <<running, scratch, output>>,
           \A b \in Boundary : \A v, p : Needed(b, v, p)' => Needed(b, v, p),
           \A c \in Caller : \A v, p : Delivered(c, v, p)' => Delivered(c, v, p)
    PROVE  FactorTypes' /\ ScratchTrue' /\ ResultTrue'
<1>1. /\ Group' = Group /\ Boundary' = Boundary /\ Last' = Last
      /\ Digits!Address' = Digits!Address /\ Digits!Writes' = Digits!Writes
  BY SamePlan DEF Digits!Address, Digits!Writes
<1>2. FactorTypes' BY <1>1 DEF FactorTypes
<1>3. ScratchTrue'
  <2>1. \A b \in Boundary : \A v, p : Needed(b, v, p)' => \A a \in Digits!Writes[b][p] : scratch'[b][a] = v
    BY DEF ScratchTrue, Needed
  <2>. QED BY <1>1, <2>1 DEF ScratchTrue, Needed
<1>4. ResultTrue'
  <2>1. \A c \in Caller : \A v : Delivered(c, v, 0)' => \A a \in Digits!Address : output'[c][a] = v
    BY DEF ResultTrue, Delivered
  <2>. QED BY <1>1, <2>1 DEF ResultTrue, Delivered
<1>. QED BY <1>2, <1>3, <1>4

\* The operands of a launch at the head of its stream are there.
LEMMA HeadOperands ==
    ASSUME CallInv, OfFactors, ScratchTrue, NEW g \in Group, Doing(g, "launch"),
           queue[g][1].invocation \notin failed
    PROVE  Digits!OperandsRight(g, queue[g][1])
<1>. USE DEF CallInv
<1>. DEFINE op == queue[g][1]
            v == op.invocation
            p == op.slice
<1>1. /\ Is(g, 1, "launch") /\ p \in Digits!Slice /\ (g = Last => p = 0)
      /\ LaunchOf(g, 1, v, p) /\ \A s \in Digits!Slice : g = Last => LaunchOf(g, 1, v, s)
  BY FactorHead
<1>. SUFFICES ASSUME NEW a \in Digits!Reads[g][p] PROVE Digits!Operand(g, op, a) = v
  BY DEF Digits!OperandsRight
<1>2. CASE g = 0 BY <1>1, <1>2, HeadInput DEF Digits!Operand
<1>3. CASE g # 0
  <2>1. PICK s \in Digits!Slice : LaunchOf(g, 1, v, s) /\ a \in Digits!Writes[g - 1][s]
    <3>1. CASE g = Last BY <1>1, <3>1, SliceFacts
    <3>2. CASE g # Last
      <4>1. g \in Boundary \ {0} BY <1>3, <3>2, PlanFacts DEF Group, Boundary, Last
      <4>. QED BY <1>1, <4>1, SliceFacts
    <3>. QED BY <3>1, <3>2
  <2>2. g - 1 \in Boundary /\ Needed(g - 1, v, s) BY <1>3, <2>1, HeadNeeds
  <2>3. scratch[g - 1][a] = v BY <2>1, <2>2 DEF ScratchTrue, Needed
  <2>. QED BY <1>3, <2>3 DEF Digits!Operand, Digits!EdgeBuffer
<1>. QED BY <1>2, <1>3

\* It writes nothing that is still needed on its edge, ...
LEMMA ScratchIntact ==
    ASSUME CallInv, OfFactors, NEW g \in Boundary, Doing(g, "launch"), NEW v, NEW p, Needed(g, v, p),
           NEW a \in Digits!Writes[g][p]
    PROVE  a \notin Digits!Writes[g][queue[g][1].slice]
<1>. USE DEF CallInv
<1>1. g \in Group /\ Piece \subseteq Nat /\ Piece = Digits!Slice BY PlanFacts DEF Piece
<1>2. LaunchOf(g, 1, queue[g][1].invocation, queue[g][1].slice) /\ queue[g][1].slice \in Digits!Slice
  BY <1>1, FactorHead
<1>3. p < queue[g][1].slice BY <1>2, Intact
<1>4. p \in Digits!Slice BY <1>1 DEF Needed, Passed
<1>5. p # queue[g][1].slice BY <1>1, <1>2, <1>3, <1>4
<1>. QED BY <1>2, <1>4, <1>5, SliceFacts

\* ... and no output that will still be used.
LEMMA ResultIntact ==
    ASSUME CallInv, OfFactors, NEW c \in Caller, Doing(Last, "launch"), queue[Last][1].caller = c,
           NEW v, Delivered(c, v, 0)
    PROVE  FALSE
<1>1. Last \in Group /\ 0 \in Digits!Slice BY PlanFacts DEF CallInv, Digits!Slice
<1>2. LaunchOf(Last, 1, queue[Last][1].invocation, 0) BY <1>1, FactorHead
<1>3. 0 < 0 BY <1>2, DeliveredIntact
<1>. QED BY <1>3

\* What a launch writes: the addresses of its slice, or the caller's output.
LEMMA EdgeFill ==
    ASSUME CallTypes, FactorTypes, OfFactors, NEW g \in Group, NEW op, op.slice \in Digits!Slice,
           op.caller \in Caller, g = Last => op.slice = 0, NEW value \in Nat, Digits!Fill(g, op, value)
    PROVE  /\ scratch' \in [Boundary -> [Digits!Address -> Nat]]
           /\ output' \in [Caller -> [Digits!Address -> Nat]]
           /\ \A b \in Boundary : \A a \in Digits!Address :
                  scratch'[b][a] = IF b = g /\ a \in Digits!Writes[g][op.slice] THEN value ELSE scratch[b][a]
           /\ \A c \in Caller : \A a \in Digits!Address :
                  output'[c][a] = IF g = Last /\ c = op.caller THEN value ELSE output[c][a]
<1>1. Boundary = Group \ {Last} /\ Digits!Last = Last BY PlanFacts, FactorNames DEF Group, Boundary, Last
<1>2. /\ scratch \in [Boundary -> [Digits!Address -> Nat]]
      /\ output \in [Caller -> [Digits!Address -> Nat]]
  BY DEF FactorTypes
<1>. DEFINE W == Digits!Writes[g][op.slice]
<1>3. CASE g # Last
  <2>1. scratch' = [scratch EXCEPT ![g] = [a \in Digits!Address |-> IF a \in W THEN value ELSE @[a]]]
        /\ output' = output
    BY <1>1, <1>3 DEF Digits!Fill, Digits!EdgeBuffer
  <2>2. g \in Boundary BY <1>1, <1>3
  <2>. HIDE DEF W
  <2>3. scratch' \in [Boundary -> [Digits!Address -> Nat]] BY <1>2, <2>1
  <2>4. \A b \in Boundary : \A a \in Digits!Address :
            scratch'[b][a] = IF b = g /\ a \in W THEN value ELSE scratch[b][a]
    BY <1>2, <2>1, <2>2
  <2>. QED BY <1>2, <1>3, <2>1, <2>3, <2>4 DEF W
<1>4. CASE g = Last
  <2>0. W = Digits!Address BY <1>4, SliceFacts
  <2>1. output' = [output EXCEPT ![op.caller] = [a \in Digits!Address |-> IF a \in W THEN value ELSE @[a]]]
        /\ scratch' = scratch
    BY <1>1, <1>4 DEF Digits!Fill
  <2>2. g \notin Boundary BY <1>1, <1>4
  <2>. HIDE DEF W
  <2>3. output' \in [Caller -> [Digits!Address -> Nat]] BY <1>2, <2>1
  <2>4. \A c \in Caller : \A a \in Digits!Address :
            output'[c][a] = IF c = op.caller THEN value ELSE output[c][a]
    BY <1>2, <2>0, <2>1
  <2>. QED BY <1>2, <1>4, <2>1, <2>2, <2>3, <2>4
<1>. QED BY <1>3, <1>4

\* What is needed of an edge lies in its array.
LEMMA EdgeAddress ==
    ASSUME CallTypes, OfFactors, NEW b \in Boundary, NEW v, NEW p, Needed(b, v, p), NEW a \in Digits!Writes[b][p]
    PROVE  a \in Digits!Address
<1>1. b \in Group /\ p \in Digits!Slice BY PlanFacts DEF Needed, Passed, Piece
<1>. QED BY <1>1, SliceFacts
----------------------------------------------------------------------------
(* The steps of the factor pipeline keep its data.                         *)

\* The start of a launch keeps the values: every operand is the one the slice before
\* it left, for its invocation.
LEMMA StartFactor ==
    ASSUME CallInv, FactorInv, OfFactors, NEW g \in Group, Digits!KernelStart(g)
    PROVE  StillStep /\ FactorInv'
<1>. USE DEF CallInv
<1>. DEFINE op == queue[g][1]
<1>1. /\ Doing(g, "launch") /\ Is(g, 1, "launch") /\ Next1(g) = op /\ g \in Stream
      /\ op.slice \in Digits!Slice /\ op.caller \in Caller /\ (g = Last => op.slice = 0)
  BY DeviceNames, FactorHead DEF Digits!KernelStart
<1>2. /\ running' = [running EXCEPT ![g] = IF Digits!OperandsRight(g, op) THEN "right" ELSE "wrong"]
      /\ Digits!Fill(g, op, 0)
      /\ UNCHANGED <<plan, queue, recorded, completed, host, invocation, failed, input>>
  BY <1>1, DeviceNames DEF Digits!KernelStart
<1>3. StillStep BY <1>2 DEF StillStep
<1>4. FactorTypes /\ ScratchTrue /\ ResultTrue /\ RunningTrue BY DEF FactorInv
<1>5. /\ Group' = Group /\ Boundary' = Boundary /\ Last' = Last
      /\ Digits!Address' = Digits!Address /\ Digits!Writes' = Digits!Writes
  BY <1>2, SamePlan DEF Digits!Address, Digits!Writes
<1>6. /\ scratch' \in [Boundary -> [Digits!Address -> Nat]]
      /\ output' \in [Caller -> [Digits!Address -> Nat]]
      /\ \A b \in Boundary : \A a \in Digits!Address :
             scratch'[b][a] = IF b = g /\ a \in Digits!Writes[g][op.slice] THEN 0 ELSE scratch[b][a]
      /\ \A c \in Caller : \A a \in Digits!Address :
             output'[c][a] = IF g = Last /\ c = op.caller THEN 0 ELSE output[c][a]
  BY <1>1, <1>2, <1>4, EdgeFill
<1>7. /\ \A b \in Boundary : \A v, p : Needed(b, v, p)' => Needed(b, v, p)
      /\ \A c \in Caller : \A v, p : Delivered(c, v, p)' => Delivered(c, v, p)
  BY <1>3, StillNeeded
<1>. HIDE DEF op
<1>8. FactorTypes'
  <2>1. running' \in [Group -> {"idle", "right", "wrong"}] BY <1>2, <1>4 DEF FactorTypes
  <2>. QED BY <1>5, <1>6, <2>1 DEF FactorTypes
<1>9. ScratchTrue'
  <2>1. \A b \in Boundary : \A v, p : Needed(b, v, p)' => \A a \in Digits!Writes[b][p] : scratch'[b][a] = v
    <3>. SUFFICES ASSUME NEW b \in Boundary, NEW v, NEW p, Needed(b, v, p)', NEW a \in Digits!Writes[b][p]
                  PROVE  scratch'[b][a] = v
      OBVIOUS
    <3>1. Needed(b, v, p) BY <1>7
    <3>2. scratch[b][a] = v BY <1>4, <3>1 DEF ScratchTrue, Needed
    <3>3. ~(b = g /\ a \in Digits!Writes[g][op.slice]) BY <1>1, <3>1, ScratchIntact DEF op
    <3>4. a \in Digits!Address BY <3>1, EdgeAddress
    <3>. QED BY <1>6, <3>2, <3>3, <3>4
  <2>. QED BY <1>5, <2>1 DEF ScratchTrue, Needed
<1>10. ResultTrue'
  <2>1. \A c \in Caller : \A v : Delivered(c, v, 0)' => \A a \in Digits!Address : output'[c][a] = v
    <3>. SUFFICES ASSUME NEW c \in Caller, NEW v, Delivered(c, v, 0)', NEW a \in Digits!Address
                  PROVE  output'[c][a] = v
      OBVIOUS
    <3>1. Delivered(c, v, 0) BY <1>7
    <3>2. output[c][a] = v BY <1>4, <3>1 DEF ResultTrue, Delivered
    <3>3. ~(g = Last /\ c = op.caller) BY <1>1, <3>1, ResultIntact DEF op
    <3>. QED BY <1>6, <3>2, <3>3
  <2>. QED BY <1>5, <2>1 DEF ResultTrue, Delivered
<1>11. RunningTrue'
  <2>. SUFFICES ASSUME NEW h \in Group, running'[h] # "idle"
                PROVE  Is(h, 1, "launch")' /\ (queue'[h][1].invocation \notin failed' => running'[h] = "right")
    BY <1>5 DEF RunningTrue
  <2>1. CASE h = g
    <3>1. running'[g] = IF Digits!OperandsRight(g, op) THEN "right" ELSE "wrong" BY <1>2, <1>4 DEF FactorTypes
    <3>2. op.invocation \notin failed => Digits!OperandsRight(g, op) BY <1>1, <1>4, HeadOperands DEF op
    <3>3. Is(g, 1, "launch")' BY <1>1, <1>2 DEF Is, Ops
    <3>. QED BY <1>2, <2>1, <3>1, <3>2, <3>3 DEF op
  <2>2. CASE h # g
    <3>1. running'[h] = running[h] BY <1>2, <1>4, <2>2 DEF FactorTypes
    <3>. QED BY <1>2, <1>4, <3>1 DEF RunningTrue, Is, Ops
  <2>. QED BY <2>1, <2>2
<1>. QED BY <1>3, <1>8, <1>9, <1>10, <1>11 DEF FactorInv

\* The end of a launch keeps the values: no address that is still needed is written.
LEMMA FinishFactor ==
    ASSUME CallInv, FactorInv, OfFactors, NEW g \in Group, Digits!KernelFinish(g)
    PROVE  PopStep(g) /\ FactorInv'
<1>. USE DEF CallInv
<1>. DEFINE op == queue[g][1]
            value == Digits!Outcome(g, op)
<1>1. /\ Doing(g, "launch") /\ Is(g, 1, "launch") /\ Next1(g) = op /\ g \in Stream /\ queue[g] # <<>>
      /\ op.slice \in Digits!Slice /\ op.caller \in Caller /\ (g = Last => op.slice = 0)
      /\ op.invocation \in Nat
  BY DeviceNames, FactorHead DEF Digits!KernelFinish
<1>2. /\ running' = [running EXCEPT ![g] = "idle"] /\ running[g] # "idle"
      /\ Digits!Fill(g, op, value)
      /\ queue' = [queue EXCEPT ![g] = Tail(@)]
      /\ UNCHANGED <<plan, recorded, completed, host, invocation, failed, input>>
  BY <1>1, DeviceNames DEF Digits!KernelFinish, Pop
<1>3. PopStep(g)
  <2>1. Head(queue[g]).kind = "launch" BY <1>1 DEF Next1, Is
  <2>. QED BY <1>1, <1>2, <2>1, PopDevice
<1>4. FactorTypes /\ ScratchTrue /\ ResultTrue /\ RunningTrue BY DEF FactorInv
<1>5. /\ Group' = Group /\ Boundary' = Boundary /\ Last' = Last
      /\ Digits!Address' = Digits!Address /\ Digits!Writes' = Digits!Writes
  BY <1>2, SamePlan DEF Digits!Address, Digits!Writes
<1>6. value \in Nat BY <1>1 DEF Digits!Outcome
<1>7. op.invocation \notin failed => value = op.invocation
  <2>1. op.invocation \notin failed => running[g] = "right" BY <1>2, <1>4 DEF RunningTrue
  <2>2. op.invocation \notin failed => Digits!OperandsRight(g, op) BY <1>1, <1>4, HeadOperands
  <2>. QED BY <2>1, <2>2 DEF Digits!Outcome
<1>. HIDE DEF value, op
<1>8. /\ scratch' \in [Boundary -> [Digits!Address -> Nat]]
      /\ output' \in [Caller -> [Digits!Address -> Nat]]
      /\ \A b \in Boundary : \A a \in Digits!Address :
             scratch'[b][a] = IF b = g /\ a \in Digits!Writes[g][op.slice] THEN value ELSE scratch[b][a]
      /\ \A c \in Caller : \A a \in Digits!Address :
             output'[c][a] = IF g = Last /\ c = op.caller THEN value ELSE output[c][a]
  BY <1>1, <1>2, <1>4, <1>6, EdgeFill
<1>9. /\ \A b \in Boundary : \A v, p : Needed(b, v, p)' =>
             Needed(b, v, p) \/ (g = b /\ LaunchOf(b, 1, v, p) /\ Passed(b, v, p))
      /\ \A c \in Caller : \A v, p : Delivered(c, v, p)' =>
             /\ Awaited(c, v)
             /\ Delivered(c, v, p) \/ (g = Last /\ LaunchOf(Last, 1, v, p) /\ Passed(Last, v, p))
  BY <1>3, PopNeeded
<1>10. FactorTypes'
  <2>1. running' \in [Group -> {"idle", "right", "wrong"}] BY <1>2, <1>4 DEF FactorTypes
  <2>. QED BY <1>5, <1>8, <2>1 DEF FactorTypes
<1>11. \A v, p : LaunchOf(g, 1, v, p) /\ Passed(g, v, p) =>
           v = op.invocation /\ v \notin failed /\ (g # Last => p = op.slice)
  BY DEF LaunchOf, Covers, Passed, op
<1>12. Last \notin Boundary BY PlanFacts DEF Boundary, Last
<1>13. ScratchTrue'
  <2>1. \A b \in Boundary : \A v, p : Needed(b, v, p)' => \A a \in Digits!Writes[b][p] : scratch'[b][a] = v
    <3>. SUFFICES ASSUME NEW b \in Boundary, NEW v, NEW p, Needed(b, v, p)', NEW a \in Digits!Writes[b][p]
                  PROVE  scratch'[b][a] = v
      OBVIOUS
    <3>1. CASE Needed(b, v, p)
      <4>1. scratch[b][a] = v BY <1>4, <3>1 DEF ScratchTrue, Needed
      <4>2. ~(b = g /\ a \in Digits!Writes[g][op.slice]) BY <1>1, <3>1, ScratchIntact DEF op
      <4>3. a \in Digits!Address BY <3>1, EdgeAddress
      <4>. QED BY <1>8, <4>1, <4>2, <4>3
    <3>2. CASE g = b /\ LaunchOf(b, 1, v, p) /\ Passed(b, v, p)
      <4>1. v = op.invocation /\ v \notin failed /\ p = op.slice BY <1>11, <1>12, <3>2
      <4>2. a \in Digits!Address BY <1>1, <3>2, <4>1, SliceFacts, PlanFacts
      <4>. QED BY <1>7, <1>8, <3>2, <4>1, <4>2
    <3>. QED BY <1>9, <3>1, <3>2
  <2>. QED BY <1>5, <2>1 DEF ScratchTrue, Needed
<1>14. ResultTrue'
  <2>1. \A c \in Caller : \A v : Delivered(c, v, 0)' => \A a \in Digits!Address : output'[c][a] = v
    <3>. SUFFICES ASSUME NEW c \in Caller, NEW v, Delivered(c, v, 0)', NEW a \in Digits!Address
                  PROVE  output'[c][a] = v
      OBVIOUS
    <3>1. CASE Delivered(c, v, 0)
      <4>1. output[c][a] = v BY <1>4, <3>1 DEF ResultTrue, Delivered
      <4>2. ~(g = Last /\ c = op.caller) BY <1>1, <3>1, ResultIntact DEF op
      <4>. QED BY <1>8, <4>1, <4>2
    <3>2. CASE g = Last /\ LaunchOf(Last, 1, v, 0) /\ Passed(Last, v, 0)
      <4>1. v = op.invocation /\ v \notin failed BY <1>11, <3>2
      <4>2. op.caller = c BY <1>9, <3>2, HeadCaller DEF op
      <4>. QED BY <1>7, <1>8, <3>2, <4>1, <4>2
    <3>. QED BY <1>9, <3>1, <3>2
  <2>. QED BY <1>5, <2>1 DEF ResultTrue, Delivered
<1>15. RunningTrue'
  <2>1. \A h \in Group : h # g => running'[h] = running[h] BY <1>2, <1>4 DEF FactorTypes
  <2>2. running'[g] = "idle" BY <1>2, <1>4 DEF FactorTypes
  <2>3. plan' = plan BY <1>2
  <2>. QED BY <1>3, <1>4, <2>1, <2>2, <2>3, RunningPops
<1>. QED BY <1>3, <1>10, <1>13, <1>14, <1>15 DEF FactorInv

\* The device passes or does anything but a launch.
LEMMA PopFactor ==
    ASSUME CallInv, FactorInv, OfFactors, NEW u, PopStep(u), ~Is(u, 1, "launch"),
           UNCHANGED <<running, scratch, output>>
    PROVE  FactorInv'
<1>1. FactorTypes /\ ScratchTrue /\ ResultTrue /\ RunningTrue BY DEF FactorInv
<1>2. plan' = plan BY DEF PopStep
<1>3. /\ \A b \in Boundary : \A v, p : Needed(b, v, p)' => Needed(b, v, p)
      /\ \A c \in Caller : \A v, p : Delivered(c, v, p)' => Delivered(c, v, p)
  <2>1. \A b, v, p : u = b => ~LaunchOf(b, 1, v, p) BY DEF LaunchOf
  <2>. QED BY <2>1, PopNeeded
<1>4. FactorTypes' /\ ScratchTrue' /\ ResultTrue' BY <1>1, <1>2, <1>3, FactorKeep
<1>5. RunningTrue'
  <2>1. u \in Group => running'[u] = "idle" BY <1>1 DEF RunningTrue
  <2>2. \A g \in Group : g # u => running'[g] = running[g] OBVIOUS
  <2>. QED BY <1>1, <1>2, <2>1, <2>2, RunningPops
<1>. QED BY <1>4, <1>5 DEF FactorInv

\* The host's steps and what is left.
LEMMA HostFactor ==
    ASSUME CallInv, FactorInv, OfFactors, plan' = plan, Grown, failed \subseteq failed',
           UNCHANGED <<running, scratch, output>>,
           \A b \in Boundary : \A v, p : Needed(b, v, p)' => Needed(b, v, p),
           \A c \in Caller : \A v, p : Delivered(c, v, p)' => Delivered(c, v, p)
    PROVE  FactorInv'
<1>1. FactorTypes /\ ScratchTrue /\ ResultTrue /\ RunningTrue BY DEF FactorInv
<1>2. FactorTypes' /\ ScratchTrue' /\ ResultTrue' BY <1>1, FactorKeep
<1>3. RunningTrue' BY <1>1, RunningStays
<1>. QED BY <1>2, <1>3 DEF FactorInv
----------------------------------------------------------------------------
(* Every step of the factor pipeline.                                      *)

\* Every step of the factor scheduler keeps its invariant.
LEMMA FactorStep ==
    ASSUME CallInv, FactorInv, OfFactors, Digits!Next
    PROVE  CallInv' /\ FactorInv'
<1>. USE DEF CallInv
<1>1. Group \subseteq Stream /\ Caller \subseteq Stream /\ StreamInv BY PlanFacts
<1>2. \A u \in Stream : queue[u] # <<>> /\ Is(u, 1, "launch") => Head(queue[u]).kind = "launch"
  <2>. SUFFICES ASSUME NEW u \in Stream, queue[u] # <<>>, Is(u, 1, "launch")
                PROVE  Head(queue[u]).kind = "launch"
    OBVIOUS
  <2>1. queue[u] \in Seq(Operation) BY DEF StreamInv, StreamTypes
  <2>2. Head(queue[u]) = queue[u][1] BY <2>1
  <2>. QED BY <2>2 DEF Is
<1>3. ASSUME NEW c \in Caller, Digits!Begin(c) PROVE CallInv' /\ FactorInv'
  <2>1. BeginStep(c) BY <1>3, FactorNames DEF Digits!Begin, BeginStep
  <2>2. CallInv' BY <2>1, BeginCall
  <2>3. /\ Grown /\ UNCHANGED <<running, scratch, output>> /\ plan' = plan /\ failed' = failed
    BY <1>3, <2>1, BeginQueues DEF Digits!Begin
  <2>4. /\ \A b \in Boundary : \A v, p : Needed(b, v, p)' => Needed(b, v, p)
        /\ \A d \in Caller : \A v, p : Delivered(d, v, p)' => Delivered(d, v, p)
    BY <2>1, BeginNeeded
  <2>. QED BY <2>2, <2>3, <2>4, HostFactor
<1>4. ASSUME NEW g, NEW m, NEW c, NEW launched, NEW refused, NEW ending,
             EnqueueStep(g, m, c, launched, refused, ending),
             UNCHANGED <<running, scratch, output>>, plan' = plan
      PROVE  CallInv' /\ FactorInv'
  <2>1. CallInv' BY <1>4, EnqueueCall
  <2>2. Grown /\ failed \subseteq failed' BY <1>4, EnqueueFacts
  <2>3. /\ \A b \in Boundary : \A v, p : Needed(b, v, p)' => Needed(b, v, p)
        /\ \A d \in Caller : \A v, p : Delivered(d, v, p)' => Delivered(d, v, p)
    BY <1>4, EnqueueNeeded
  <2>. QED BY <1>4, <2>1, <2>2, <2>3, HostFactor
<1>5. ASSUME Digits!EnqueueSlice PROVE CallInv' /\ FactorInv'
  <2>1. PICK g, p : g = host.group /\ p = host.slice OBVIOUS
  <2>2. PICK m : EnqueueStep(g, m, host.caller, TRUE, FALSE, FALSE) BY <1>5, <2>1, SliceStep
  <2>3. UNCHANGED <<running, scratch, output>> /\ plan' = plan BY <1>5 DEF Digits!EnqueueSlice
  <2>. QED BY <1>4, <2>2, <2>3
<1>6. ASSUME Digits!EnqueueLast PROVE CallInv' /\ FactorInv'
  <2>1. PICK g, c : g = Last /\ c = host.caller OBVIOUS
  <2>2. PICK m : EnqueueStep(g, m, c, TRUE, FALSE, TRUE) BY <1>6, <2>1, LastStep
  <2>3. UNCHANGED <<running, scratch, output>> /\ plan' = plan BY <1>6 DEF Digits!EnqueueLast
  <2>. QED BY <1>4, <2>2, <2>3
<1>7. ASSUME Digits!LaunchFails PROVE CallInv' /\ FactorInv'
  <2>1. PICK g : EnqueueStep(g, 0, host.caller, FALSE, TRUE, FALSE) BY <1>7, FactorFails
  <2>2. UNCHANGED <<running, scratch, output>> /\ plan' = plan BY <1>7 DEF Digits!LaunchFails
  <2>. QED BY <1>4, <2>1, <2>2
<1>8. ASSUME StillStep, UNCHANGED <<running, scratch, output>> PROVE CallInv' /\ FactorInv'
  <2>1. CallInv' BY <1>8, StillCall
  <2>2. Grown BY <1>8, StillGrown
  <2>3. plan' = plan /\ failed' = failed BY <1>8 DEF StillStep
  <2>4. /\ \A b \in Boundary : \A v, p : Needed(b, v, p)' => Needed(b, v, p)
        /\ \A d \in Caller : \A v, p : Delivered(d, v, p)' => Delivered(d, v, p)
    BY <1>8, StillNeeded
  <2>. QED BY <1>8, <2>1, <2>2, <2>3, <2>4, HostFactor
<1>9. CASE Digits!Release
  <2>1. StillStep BY <1>9, FactorNames DEF Digits!Release, StillStep
  <2>. QED BY <1>8, <1>9, <2>1 DEF Digits!Release
<1>10. CASE Digits!Terminated
  <2>1. StillStep BY <1>10 DEF Digits!Terminated, StillStep, Digits!fvars
  <2>. QED BY <1>8, <1>10, <2>1 DEF Digits!Terminated, Digits!fvars
<1>11. ASSUME NEW s \in Stream, Digits!Sync(s) PROVE CallInv' /\ FactorInv'
  <2>1. PassWait(s) \/ PassRecord(s) BY <1>11, DeviceNames DEF Digits!Sync
  <2>2. /\ queue[s] # <<>> /\ queue' = [queue EXCEPT ![s] = Tail(@)] /\ recorded' = recorded
        /\ UNCHANGED <<plan, host, invocation, failed, running, scratch, input, output>>
        /\ \/ /\ Head(queue[s]).kind = "wait" /\ Happened(Head(queue[s]).on) /\ completed' = completed
           \/ /\ Head(queue[s]).kind = "record" /\ completed' = completed \cup {Head(queue[s]).mark}
    BY <1>11, <2>1 DEF Digits!Sync, PassWait, PassRecord, Doing, Busy, Next1, Pop
  <2>3. PopStep(s) BY <2>2, PopDevice
  <2>4. ~Is(s, 1, "launch") BY <1>2, <2>2
  <2>. QED BY <2>2, <2>3, <2>4, CallPop, PopFactor
<1>12. ASSUME NEW c \in Caller, Digits!Upload(c) PROVE CallInv' /\ FactorInv'
  <2>1. /\ queue[c] # <<>> /\ queue' = [queue EXCEPT ![c] = Tail(@)] /\ recorded' = recorded
        /\ UNCHANGED <<plan, host, invocation, failed, running, scratch, completed, output>>
        /\ Head(queue[c]).kind = "upload" /\ input' = [input EXCEPT ![c] = Head(queue[c]).invocation]
    BY <1>12, DeviceNames DEF Digits!Upload, Doing, Busy, Next1, Pop
  <2>2. PopStep(c) BY <1>1, <2>1, PopDevice
  <2>3. ~Is(c, 1, "launch") BY <1>1, <1>2, <2>1
  <2>. QED BY <2>1, <2>2, <2>3, CallPop, PopFactor
<1>13. ASSUME NEW c \in Caller, Digits!Use(c) PROVE CallInv' /\ FactorInv'
  <2>1. /\ queue[c] # <<>> /\ queue' = [queue EXCEPT ![c] = Tail(@)] /\ recorded' = recorded
        /\ UNCHANGED <<plan, host, invocation, failed, running, scratch, completed, output, input>>
        /\ Head(queue[c]).kind = "use"
    BY <1>13, DeviceNames DEF Digits!Use, Doing, Busy, Next1, Pop
  <2>2. PopStep(c) BY <1>1, <2>1, PopDevice
  <2>3. ~Is(c, 1, "launch") BY <1>1, <1>2, <2>1
  <2>. QED BY <2>1, <2>2, <2>3, CallPop, PopFactor
<1>14. ASSUME NEW g \in Group, Digits!KernelStart(g) PROVE CallInv' /\ FactorInv'
  BY <1>14, StartFactor, StillCall
<1>15. ASSUME NEW g \in Group, Digits!KernelFinish(g) PROVE CallInv' /\ FactorInv'
  BY <1>15, FinishFactor, CallPop
<1>16. Digits!Group = Group BY FactorNames
<1>17. ASSUME NEW g \in Group, Digits!GroupStep(g) PROVE CallInv' /\ FactorInv'
  BY <1>1, <1>11, <1>14, <1>15, <1>17 DEF Digits!GroupStep
<1>18. ASSUME NEW c \in Caller, Digits!CallerStep(c) PROVE CallInv' /\ FactorInv'
  BY <1>1, <1>11, <1>12, <1>13, <1>18 DEF Digits!CallerStep
<1>. QED BY <1>3, <1>5, <1>6, <1>7, <1>9, <1>10, <1>16, <1>17, <1>18 DEF Digits!Next, Digits!HostStep

\* The factor invariant holds of a new plan.
LEMMA FactorInit ==
    ASSUME Digits!Init
    PROVE  OfFactors /\ CallInv /\ FactorInv
<1>1. plan \in FactorPlans /\ OfFactors BY PlansAssumption DEF Digits!Init, OfFactors
<1>2. StreamsInit BY DEF Digits!Init, Digits!StreamsInit, StreamsInit
<1>3. CallInv BY <1>1, <1>2, CallInit, FactorNames DEF Digits!Init
<1>4. \A g, v, p : ~Passed(g, v, p) BY DEF Passed, Digits!Init
<1>5. FactorTypes BY FactorNames DEF FactorTypes, Digits!Init
<1>6. ScratchTrue /\ ResultTrue BY <1>4 DEF ScratchTrue, ResultTrue
<1>7. RunningTrue BY FactorNames DEF RunningTrue, Digits!Init
<1>. QED BY <1>1, <1>3, <1>5, <1>6, <1>7 DEF FactorInv

\* The use of an output finds the invocation's own result at every address.
LEMMA FactorResults ==
    ASSUME CallInv, FactorInv, OfFactors
    PROVE  Digits!ResultsReady
<1>. USE DEF CallInv
<1>. SUFFICES ASSUME NEW c \in Caller, Doing(c, "use"), NEW a \in Digits!Address
              PROVE  output[c][a] = Next1(c).invocation
  BY DeviceNames DEF Digits!ResultsReady
<1>1. c \in Stream BY PlanFacts
<1>2. Is(c, 1, "use") /\ Next1(c) = queue[c][1]
  <2>1. queue[c] \in Seq(Operation) /\ queue[c] # <<>> BY <1>1 DEF Doing, Busy, StreamInv, StreamTypes
  <2>2. 1 \in Ops(c) /\ Head(queue[c]) = queue[c][1] BY <2>1 DEF Ops
  <2>. QED BY <2>2 DEF Is, Doing, Next1
<1>3. 0 \in Piece BY PlanFacts DEF Piece, Digits!Slice
<1>4. Delivered(c, queue[c][1].invocation, 0) BY <1>2, <1>3, HeadUse
<1>. QED BY <1>2, <1>4 DEF FactorInv, ResultTrue, Delivered
\* A launch that another running one feeds has what it reads behind it.
LEMMA FactorConflicts ==
    ASSUME CallInv, FactorInv, OfFactors, ~MayFail
    PROVE  Digits!NoConflict
<1>. USE DEF CallInv
<1>1. /\ Group \subseteq Stream /\ Group = 0 .. Last /\ Boundary = 0 .. Last - 1 /\ Last \in Nat /\ Last >= 1
      /\ Groups = Last + 1 /\ Group \cup Caller \subseteq Stream /\ Groups \in Nat /\ Groups >= 2
      /\ Piece = Digits!Slice
  BY PlanFacts DEF Group, Boundary, Last, Piece
<1>2. failed = {} BY DEF CallTypes
<1>3. ASSUME NEW g \in Group, NEW h \in Group, g # Last, h = g + 1, running[g] # "idle", running[h] # "idle",
             NEW a \in Digits!Writes[g][Next1(g).slice] \cap Digits!Reads[h][Next1(h).slice]
      PROVE  FALSE
  <2>1. /\ Is(g, 1, "launch") /\ Next1(g) = queue[g][1] /\ 1 \in Ops(g)
        /\ Is(h, 1, "launch") /\ Next1(h) = queue[h][1] /\ 1 \in Ops(h)
    BY <1>3, RunningHead DEF FactorInv
  <2>2. PICK w, q, v, p : /\ w = queue[g][1].invocation /\ q = queue[g][1].slice
                          /\ v = queue[h][1].invocation /\ p = queue[h][1].slice
    OBVIOUS
  <2>3. q \in Digits!Slice /\ p \in Digits!Slice /\ (h = Last => p = 0)
    <3>1. 0 \in Digits!Slice BY PlanFacts DEF Digits!Slice
    <3>. QED BY <1>3, <2>1, <2>2, <3>1 DEF GroupOps
  <2>4. LaunchOf(g, 1, w, q) BY <1>3, <2>1, <2>2, <2>3 DEF LaunchOf, Covers
  <2>5. LaunchOf(h, 1, v, q)
    <3>1. CASE h = Last BY <2>1, <2>2, <2>3, <3>1 DEF LaunchOf, Covers
    <3>2. CASE h # Last
      <4>1. g \in Boundary /\ h \in Boundary \ {0} /\ h - 1 = g BY <1>1, <1>3, <3>2
      <4>2. a \in Digits!Writes[g][q] /\ a \in Digits!Reads[h][p] BY <1>3, <2>1, <2>2
      <4>3. a \in Digits!Writes[g][p] BY <2>3, <4>1, <4>2, SliceFacts
      <4>4. p = q BY <2>3, <4>1, <4>2, <4>3, SliceFacts
      <4>. QED BY <2>1, <2>2, <2>3, <4>4 DEF LaunchOf, Covers
    <3>. QED BY <3>1, <3>2
  <2>6. w \in Nat /\ v \in Nat /\ q \in Nat /\ q \in Piece BY <1>3, <2>4, <2>5, LaunchTypes
  <2>7. CASE v < w
    <3>1. Pending(h, v, q) BY <2>1, <2>5 DEF Pending
    <3>. QED BY <1>2, <1>3, <2>1, <2>2, <2>7, <3>1, Overtaken
  <2>8. CASE w <= v
    <3>1. ~Before(v, q, w, q) BY <2>6, <2>8 DEF Before
    <3>2. Covers(h, queue[h][1], q) /\ Covers(g, queue[g][1], q) BY <2>4, <2>5 DEF LaunchOf
    <3>3. ReadAfter(h, queue[h][1], g, queue[g][1])
      BY <1>3, <2>1, <2>2, <2>6, <3>1, <3>2 DEF ReadAfter, Is
    <3>4. \A t \in Stream : \A j \in Ops(t) : ~After(h, queue[h][1], t, queue[t][j])
      BY <1>1, <1>3, <2>1, HeadFree
    <3>5. g \in Stream BY <1>1, <1>3
    <3>. QED BY <2>1, <3>3, <3>4, <3>5 DEF After
  <2>. QED BY <2>6, <2>7, <2>8
<1>4. ASSUME NEW g \in Group, NEW h \in Group, g # h, running[g] # "idle", running[h] # "idle",
             NEW z \in Digits!WriteCells(g, Next1(g)),
             z \in Digits!ReadCells(h, Next1(h)) \cup Digits!WriteCells(h, Next1(h))
      PROVE  FALSE
  <2>1. PICK b, a : /\ z = <<b, a>> /\ b = (IF g = Last THEN Groups + 1 ELSE g)
                    /\ a \in Digits!Writes[g][Next1(g).slice]
    BY <1>4, FactorNames DEF Digits!WriteCells, Digits!EdgeBuffer
  <2>2. CASE z \in Digits!WriteCells(h, Next1(h))
    <3>1. b = IF h = Last THEN Groups + 1 ELSE h
      BY <2>1, <2>2, FactorNames DEF Digits!WriteCells, Digits!EdgeBuffer
    <3>. QED BY <1>1, <1>4, <2>1, <3>1
  <2>3. CASE z \in Digits!ReadCells(h, Next1(h))
    <3>1. b = (IF h = 0 THEN Groups ELSE h - 1) /\ a \in Digits!Reads[h][Next1(h).slice]
      BY <2>1, <2>3, FactorNames DEF Digits!ReadCells, Digits!EdgeBuffer
    <3>2. g # Last /\ h = g + 1 BY <1>1, <1>4, <2>1, <3>1
    <3>. QED BY <1>3, <1>4, <2>1, <3>1, <3>2
  <2>. QED BY <1>4, <2>2, <2>3
<1>. QED BY <1>4, FactorNames, DeviceNames DEF Digits!NoConflict

----------------------------------------------------------------------------
(* Either scheduler.                                                       *)

\* What every reachable state satisfies, whichever plan runs.
PipelineInv ==
    /\ CallInv
    /\ OfFactors => FactorInv
    /\ ~OfFactors => BatchInv
    /\ Overlapped => CountTrue

\* The invariant holds of every new plan.
LEMMA PipelineInit ==
    ASSUME MCInit
    PROVE  PipelineInv
BY BatchInit, FactorInit DEF MCInit, PipelineInv, Overlapped

\* A plan is for life.
LEMMA PlanKept ==
    /\ Next => plan' = plan
    /\ Digits!Next => plan' = plan
<1>1. Next => plan' = plan
  BY DEF Next, Begin, CallerStep, Sync, Upload, Use, HostStep, EnqueueGroup, End, LaunchFails, Release,
         GroupStep, KernelStart, KernelFinish, Terminated, pvars
<1>2. Digits!Next => plan' = plan
  BY DEF Digits!Next, Digits!Begin, Digits!CallerStep, Digits!Sync, Digits!Upload, Digits!Use,
         Digits!HostStep, Digits!EnqueueSlice, Digits!EnqueueLast, Digits!LaunchFails, Digits!Release,
         Digits!GroupStep, Digits!KernelStart, Digits!KernelFinish, Digits!Terminated, Digits!fvars
<1>. QED BY <1>1, <1>2

\* Every step of either scheduler keeps the invariant.
LEMMA PipelineStep ==
    ASSUME PipelineInv, [MCNext]_mvars
    PROVE  PipelineInv'
<1>1. CASE ~OfFactors /\ Next
  <2>1. plan' = plan BY <1>1, PlanKept
  <2>2. ~OfFactors' /\ (Overlapped' <=> Overlapped) BY <1>1, <2>1, SamePlan, SameOverlapped
  <2>3. CallInv' /\ BatchInv' BY <1>1, BatchStep DEF PipelineInv
  <2>4. Overlapped => CountTrue' BY <1>1, CountStep DEF PipelineInv, Overlapped
  <2>. QED BY <2>2, <2>3, <2>4 DEF PipelineInv
<1>2. CASE OfFactors /\ Digits!Next
  <2>1. plan' = plan BY <1>2, PlanKept
  <2>2. OfFactors' BY <1>2, <2>1, SamePlan
  <2>3. CallInv' /\ FactorInv' BY <1>2, FactorStep DEF PipelineInv
  <2>. QED BY <2>2, <2>3 DEF PipelineInv, Overlapped
<1>3. CASE UNCHANGED mvars
  <2>1. StillStep BY <1>3 DEF StillStep, mvars, pvars
  <2>2. UNCHANGED <<plan, running, slots, output, executed, scratch, failed>> BY <1>3 DEF mvars, pvars
  <2>3. CallInv' BY <2>1, StillCall DEF PipelineInv
  <2>4. Grown /\ failed \subseteq failed' BY <2>1, <2>2, StillGrown DEF PipelineInv, CallInv
  <2>5. /\ \A b \in Boundary : \A v, p : Needed(b, v, p)' => Needed(b, v, p)
        /\ \A d \in Caller : \A v, p : Delivered(d, v, p)' => Delivered(d, v, p)
    BY <2>1, StillNeeded DEF PipelineInv
  <2>6. (OfFactors' <=> OfFactors) /\ (Overlapped' <=> Overlapped) BY <2>2, SamePlan, SameOverlapped
  <2>7. ~OfFactors => BatchInv'
    <3>1. ~OfFactors => ConsumedLatest' BY <2>1, ConsumedStill DEF PipelineInv, BatchInv
    <3>. QED BY <2>2, <2>4, <2>5, <3>1, HostBatch DEF PipelineInv
  <2>8. OfFactors => FactorInv' BY <2>2, <2>4, <2>5, HostFactor DEF PipelineInv
  <2>9. Overlapped => CountTrue'
    <3>1. Quiet BY <2>1, <2>2, StillSame DEF Quiet
    <3>. QED BY <3>1, CountQuiet DEF PipelineInv
  <2>. QED BY <2>3, <2>6, <2>7, <2>8, <2>9 DEF PipelineInv
<1>. QED BY <1>1, <1>2, <1>3 DEF MCNext

\* Every reachable state of every plan satisfies the invariant.
THEOREM PipelinesInvariant == MCSpec => []PipelineInv
<1>1. MCInit => PipelineInv BY PipelineInit
<1>2. PipelineInv /\ [MCNext]_mvars => PipelineInv' BY PipelineStep
<1>. QED BY <1>1, <1>2, PTL DEF MCSpec

\* A caller's stream reaches no use of an output before all of it was computed from
\* the input of that invocation, in either scheduler, for every plan (both enqueue
\* functions).
THEOREM ResultsAreReady == MCSpec => []EveryResultReady
<1>1. PipelineInv => EveryResultReady
  BY BatchResults, FactorResults DEF PipelineInv, EveryResultReady
<1>. QED BY <1>1, PipelinesInvariant, PTL

\* On a plan whose launches succeed, no launch writes what another pending or running
\* one reads or writes.
THEOREM BuffersAreExclusive == MCSpec => []BuffersExclusive
<1>1. PipelineInv => BuffersExclusive
  BY BatchSlots, FactorConflicts DEF PipelineInv, BuffersExclusive
<1>. QED BY <1>1, PipelinesInvariant, PTL

\* A new plan is a new tile dataflow.
LEMMA FlowInit ==
    ASSUME MCInit
    PROVE  Flow!Init
<1>1. PipelineInv BY PipelineInit
<1>2. Groups \in Nat \ {0, 1} /\ Flow!Group = Group
  BY <1>1, PlanFacts DEF PipelineInv, CallInv, Flow!Group, Group
<1>3. CASE Overlapped
  <2>1. Init /\ TilesEach \in Nat \ {0} BY <1>1, <1>3, FactorInit, TilesFacts DEF MCInit, Overlapped, PipelineInv, CallInv
  <2>2. BatchTypes BY <1>1, <1>3 DEF PipelineInv, BatchInv, Overlapped
  <2>3. \A g \in Group : executed[g].started = 0 /\ executed[g].finished = 0 BY <2>1 DEF Init
  <2>4. Launches("started") = [g \in Group |-> 0] /\ Launches("finished") = [g \in Group |-> 0]
    BY <1>3, <2>2, <2>3, LaunchValues
  <2>. QED BY <1>2, <1>3, <2>1, <2>4 DEF Flow!Init
<1>4. CASE ~Overlapped BY <1>2, <1>4, NoLaunches DEF Flow!Init
<1>. QED BY <1>3, <1>4

\* The streams and events of a batch plan implement the tile dataflow.
THEOREM TilesImplemented == MCSpec => ImplementsTiles
<1>1. MCInit => Flow!Init BY FlowInit
<1>2. PipelineInv /\ [MCNext]_mvars => [Flow!Next]_(Flow!bvars)
  <2>. SUFFICES ASSUME PipelineInv, [MCNext]_mvars PROVE Flow!Next \/ UNCHANGED Flow!bvars
    OBVIOUS
  <2>1. CASE Overlapped /\ ~OfFactors /\ Next BY <2>1, FlowStep DEF PipelineInv
  <2>2. CASE ~Overlapped /\ (Next \/ Digits!Next) BY <2>2, PlanKept, FlowStutter
  <2>3. CASE UNCHANGED mvars BY <2>3, FlowStutter DEF mvars, pvars
  <2>. QED BY <2>1, <2>2, <2>3 DEF MCNext, Overlapped
<1>. QED BY <1>1, <1>2, PipelinesInvariant, PTL DEF MCSpec, ImplementsTiles, Flow!Spec
=============================================================================
