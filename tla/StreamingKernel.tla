-------------------------- MODULE StreamingKernel ---------------------------
(***************************************************************************)
(* hierarchical_streaming_kernel of src/ntt.cu: one cooperative launch in  *)
(* which the warps of Count roles run as a pipeline.  Role s executes the  *)
(* tasks of segment s for every transform, reads its operands from edge    *)
(* s - 1 and writes its results to edge s.  Warps synchronise only through *)
(* words of device memory:                                                 *)
(*                                                                         *)
(*   ready          tokens (ring edge: the transform + 1 last stored by a  *)
(*                  producer task) or counters (full-scratch edge: how     *)
(*                  many producer tasks of a wave have stored);            *)
(*   consume_state  ring edge, per slot: the epoch being consumed and how  *)
(*                  many consumer tasks have taken their operands;         *)
(*   consumed_epoch ring edge, per slot: the last epoch fully consumed.    *)
(*                                                                         *)
(* A value is modelled by its provenance, the pair <<launch, transform>>:  *)
(* Garbage stands for memory that no task of a launch has written and for  *)
(* the result of combining operands of different provenance.  Memory is    *)
(* sequentially consistent; each read, write and atomic is a step.         *)
(***************************************************************************)
EXTENDS StreamingGeometry, FiniteSets

CONSTANTS
    Batch,        \* transforms
    Slots,        \* boundary_slots, per edge
    RoleWorkers,  \* role_workers (role_blocks * warps_per_block), per segment
    WarpSize,     \* lanes of a warp
    Launches,     \* bound: kernel launches on the same workspace
    StaleWords,   \* what the workspace words may hold before the first launch
    ClearShare    \* the words each warp's threads clear in the entry loops

Worker == UNION { {s} \X (0 .. RoleWorkers[s] - 1) : s \in Segment }

\* Warp <<s, i>> plays role s and is its role_worker i.
Role(w) == w[1]

\* The elements of a task, and the shared-memory tile each warp holds them in.
Item(w) == 0 .. SegmentN[Role(w)] - 1

TileWord == UNION { {w} \X Item(w) : w \in Worker }

\* Slots equal to the batch make an edge full-scratch, fewer make it a ring.
Ring(e) == e \in Edge /\ Slots[e] < Batch

ReadyTokens(e) == IF Ring(e) THEN TaskCount(e) ELSE WaveCount(e)

ReadyWord ==
    UNION { {e} \X (0 .. Slots[e] - 1) \X (0 .. ReadyTokens(e) - 1) : e \in Edge }

RingEdge == { e \in Edge : Ring(e) }

StateWord == UNION { {e} \X (0 .. Slots[e] - 1) : e \in RingEdge }

Cell == UNION { {e} \X (0 .. Slots[e] - 1) \X Element : e \in Edge }

ASSUME KernelAssumption ==
    /\ Batch \in Nat \ {0}
    /\ Slots \in [Edge -> 1 .. Batch]
    /\ RoleWorkers \in [Segment -> Nat \ {0}]
    /\ WarpSize \in Nat \ {0}
    /\ Launches \in Nat \ {0}
    /\ StaleWords \subseteq Nat
    /\ ClearShare \in [Worker -> SUBSET (ReadyWord \cup StateWord)]

\* The entry loops stride over every word of the three arrays.
ASSUME ClearAssumption ==
    \A word \in ReadyWord \cup StateWord : \E w \in Worker : word \in ClearShare[w]

Garbage == <<0, 0>>

Token == {Garbage} \cup ((1 .. Launches) \X (0 .. Batch - 1))

VARIABLES
    launch,          \* which launch of the kernel is running
    pc,              \* per warp: the phase it is in
    task,            \* per warp: the loop variable `task`
    pending,         \* per warp: elements its lanes have still to load or store
    granted,         \* per warp: elements whose token a lane has seen ready
    tile,            \* per warp and element: its shared-memory tile
    observed,        \* per warp: lane 0's copy of the consume_state word
    ready, consume_state, consumed_epoch,
    boundary,        \* the slots of every edge
    output

vars == <<launch, pc, task, pending, granted, tile, observed, ready,
          consume_state, consumed_epoch, boundary, output>>

----------------------------------------------------------------------------
(* What a warp is working on.                                              *)

Transform(w) == task[w] \div TaskCount(Role(w))
Within(w) == task[w] % TaskCount(Role(w))
TotalTasks(s) == Batch * TaskCount(s)

\* The slot of edge e that holds transform t.
Slot(e, t) == IF Slots[e] = Batch THEN t ELSE t % Slots[e]

RingSource(s) == s # 0 /\ Ring(s - 1)
AggregatedSource(s) == s # 0 /\ ~Ring(s - 1)
FinalSegment(s) == s + 1 = Count

Here(w, i) == Address(Role(w), Within(w), i)

\* The producer's output slot and the consumer's source slot.
Destination(w) == <<Role(w), Slot(Role(w), Transform(w))>>
Source(w) == <<Role(w) - 1, Slot(Role(w) - 1, Transform(w))>>

\* A lane handles its elements in steps of WarpSize, in order.
LaneTurn(w, i) == \A j \in pending[w] : j % WarpSize = i % WarpSize => i <= j

\* The loop test on the warp's next task.
PhaseOf(s, next) == IF next < TotalTasks(s) THEN "acquire" ELSE "done"

Goto(w, phase) == pc' = [pc EXCEPT ![w] = phase]

NextTask(w) ==
    LET next == task[w] + RoleWorkers[Role(w)]
    IN  /\ task' = [task EXCEPT ![w] = next]
        /\ Goto(w, PhaseOf(Role(w), next))

Unread == [epoch |-> 0, count |-> 0]

----------------------------------------------------------------------------
Init ==
    /\ launch = 1
    /\ pc = [w \in Worker |-> "clear"]
    /\ task = [w \in Worker |-> w[2]]
    /\ pending = [w \in Worker |-> {}]
    /\ granted = [w \in Worker |-> {}]
    /\ tile = [word \in TileWord |-> Garbage]
    /\ observed = [w \in Worker |-> Unread]
    /\ \E stale \in StaleWords :
        /\ ready = [word \in ReadyWord |-> stale]
        /\ consume_state = [word \in StateWord |-> [epoch |-> stale, count |-> stale]]
        /\ consumed_epoch = [word \in StateWord |-> stale]
    /\ boundary = [cell \in Cell |-> Garbage]
    /\ output = [x \in (0 .. Batch - 1) \X Element |-> Garbage]

\* The entry loops: each warp's threads clear their share of the words.
Clear(w) ==
    /\ pc[w] = "clear"
    /\ ready' = [word \in ReadyWord |->
                    IF word \in ClearShare[w] THEN 0 ELSE ready[word]]
    /\ consume_state' = [word \in StateWord |->
                    IF word \in ClearShare[w] THEN Unread ELSE consume_state[word]]
    /\ consumed_epoch' = [word \in StateWord |->
                    IF word \in ClearShare[w] THEN 0 ELSE consumed_epoch[word]]
    /\ Goto(w, "sync")
    /\ UNCHANGED <<launch, task, pending, granted, tile, observed, boundary, output>>

\* grid.sync(), then every warp enters its task loop at task = role_worker.
GridSync ==
    /\ \A w \in Worker : pc[w] = "sync"
    /\ pc' = [w \in Worker |-> PhaseOf(Role(w), task[w])]
    /\ UNCHANGED <<launch, task, pending, granted, tile, observed, ready,
                   consume_state, consumed_epoch, boundary, output>>

\* Mutant: the producer is content with the epoch before the one it needs.
SlotFreeOffByOne(w) ==
    LET s == Role(w)
    IN  (Ring(s) /\ Transform(w) >= Slots[s])
            => consumed_epoch[Destination(w)] >= Transform(w) - Slots[s]

\* A ring producer waits until the slot it reuses has been fully consumed.
SlotFree(w) ==
    LET s == Role(w)
    IN  (Ring(s) /\ Transform(w) >= Slots[s])
            => consumed_epoch[Destination(w)] >= Transform(w) - Slots[s] + 1

AcquireSlot(w) ==
    /\ pc[w] = "acquire"
    /\ SlotFree(w)
    /\ Goto(w, IF AggregatedSource(Role(w)) THEN "wave" ELSE "load")
    /\ pending' = [pending EXCEPT ![w] = Item(w)]
    /\ UNCHANGED <<launch, task, granted, tile, observed, ready, consume_state,
                   consumed_epoch, boundary, output>>

\* Full-scratch source: lane 0 polls the counter of the task's wave.
WaveComplete(w) ==
    LET e == Role(w) - 1
        wave == <<e, Transform(w), ConsumerWave(e, Within(w))>>
    IN  ready[wave] >= SegmentN[Role(w)]

AwaitWave(w) ==
    /\ pc[w] = "wave"
    /\ WaveComplete(w)
    /\ Goto(w, "load")
    /\ UNCHANGED <<launch, task, pending, granted, tile, observed, ready,
                   consume_state, consumed_epoch, boundary, output>>

\* Ring source: each lane polls the token of the producer of its element.
TokenWord(w, i) ==
    LET e == Role(w) - 1
    IN  <<e, Slot(e, Transform(w)), ProducerWithin(e, Here(w, i))>>

\* Mutant: the token is compared with the transform instead of its epoch.
TokenReadyOffByOne(w, i) == ready[TokenWord(w, i)] >= Transform(w)

TokenReady(w, i) == ready[TokenWord(w, i)] >= Transform(w) + 1

AwaitToken(w, i) ==
    /\ pc[w] = "load"
    /\ RingSource(Role(w))
    /\ i \in pending[w] \ granted[w]
    /\ LaneTurn(w, i)
    /\ TokenReady(w, i)
    /\ granted' = [granted EXCEPT ![w] = @ \cup {i}]
    /\ UNCHANGED <<launch, pc, task, pending, tile, observed, ready,
                   consume_state, consumed_epoch, boundary, output>>

Operand(w, i) ==
    IF Role(w) = 0
    THEN <<launch, Transform(w)>>            \* the caller's input
    ELSE boundary[<<Source(w)[1], Source(w)[2], Here(w, i)>>]

\* Mutant: the readiness a lane saw is kept for its next task.
LoadElementKeepsGrant(w, i) ==
    /\ pc[w] = "load"
    /\ i \in pending[w]
    /\ LaneTurn(w, i)
    /\ RingSource(Role(w)) => i \in granted[w]
    /\ tile' = [tile EXCEPT ![<<w, i>>] = Operand(w, i)]
    /\ pending' = [pending EXCEPT ![w] = @ \ {i}]
    /\ UNCHANGED <<launch, pc, task, granted, observed, ready, consume_state,
                   consumed_epoch, boundary, output>>

LoadElement(w, i) ==
    /\ pc[w] = "load"
    /\ i \in pending[w]
    /\ LaneTurn(w, i)
    /\ RingSource(Role(w)) => i \in granted[w]
    /\ tile' = [tile EXCEPT ![<<w, i>>] = Operand(w, i)]
    /\ pending' = [pending EXCEPT ![w] = @ \ {i}]
    /\ granted' = [granted EXCEPT ![w] = @ \ {i}]
    /\ UNCHANGED <<launch, pc, task, observed, ready, consume_state,
                   consumed_epoch, boundary, output>>

\* The __syncwarp() after the load loop.
FinishLoad(w) ==
    /\ pc[w] = "load"
    /\ pending[w] = {}
    /\ Goto(w, IF RingSource(Role(w)) THEN "observe" ELSE "compute")
    /\ UNCHANGED <<launch, task, pending, granted, tile, observed, ready,
                   consume_state, consumed_epoch, boundary, output>>

\* Ring source: lane 0 reads the slot's consume_state ...
ObserveConsume(w) ==
    /\ pc[w] = "observe"
    /\ observed' = [observed EXCEPT ![w] = consume_state[Source(w)]]
    /\ Goto(w, "swap")
    /\ UNCHANGED <<launch, task, pending, granted, tile, ready, consume_state,
                   consumed_epoch, boundary, output>>

\* Mutant: the epoch of transform t is t, so the first one is epoch 0.
EpochFromZero(w) == Transform(w)

\* ... computes this task's count in the epoch ...
Epoch(w) == Transform(w) + 1

\* Mutant: the last consumer sets the count back for the next transform.
DesiredStateReset(w) ==
    [epoch |-> Epoch(w),
     count |-> (IF observed[w].epoch = Epoch(w) THEN observed[w].count + 1 ELSE 1)
                   % TaskCount(Role(w))]

DesiredState(w) ==
    [epoch |-> Epoch(w),
     count |-> IF observed[w].epoch = Epoch(w) THEN observed[w].count + 1 ELSE 1]

\* Mutant: a plain store instead of atomicCAS.
SwapConsumeUnchecked(w) ==
    /\ pc[w] = "swap"
    /\ consume_state' = [consume_state EXCEPT ![Source(w)] = DesiredState(w)]
    /\ observed' = [observed EXCEPT ![w] = Unread]
    /\ Goto(w, IF DesiredState(w).count = TaskCount(Role(w)) THEN "signal" ELSE "compute")
    /\ UNCHANGED <<launch, task, pending, granted, tile, ready, consumed_epoch,
                   boundary, output>>

\* ... and installs it with atomicCAS; the last consumer goes on to signal.
SwapConsume(w) ==
    /\ pc[w] = "swap"
    /\ consume_state[Source(w)] = observed[w]
    /\ consume_state' = [consume_state EXCEPT ![Source(w)] = DesiredState(w)]
    /\ observed' = [observed EXCEPT ![w] = Unread]
    /\ Goto(w, IF DesiredState(w).count = TaskCount(Role(w)) THEN "signal" ELSE "compute")
    /\ UNCHANGED <<launch, task, pending, granted, tile, ready, consumed_epoch,
                   boundary, output>>

RetrySwap(w) ==
    /\ pc[w] = "swap"
    /\ consume_state[Source(w)] # observed[w]
    /\ observed' = [observed EXCEPT ![w] = consume_state[Source(w)]]
    /\ UNCHANGED <<launch, pc, task, pending, granted, tile, ready,
                   consume_state, consumed_epoch, boundary, output>>

SignalConsumed(w) ==
    /\ pc[w] = "signal"
    /\ consumed_epoch' = [consumed_epoch EXCEPT ![Source(w)] = Epoch(w)]
    /\ Goto(w, "compute")
    /\ UNCHANGED <<launch, task, pending, granted, tile, observed, ready,
                   consume_state, boundary, output>>

\* The butterflies: every result of the tile depends on every operand.
Result(w) ==
    IF \A i \in Item(w) : tile[<<w, i>>] = <<launch, Transform(w)>>
    THEN <<launch, Transform(w)>>
    ELSE Garbage

Compute(w) ==
    /\ pc[w] = "compute"
    /\ tile' = [word \in TileWord |-> IF word[1] = w THEN Result(w) ELSE tile[word]]
    /\ pending' = [pending EXCEPT ![w] = Item(w)]
    /\ Goto(w, "store")
    /\ UNCHANGED <<launch, task, granted, observed, ready, consume_state,
                   consumed_epoch, boundary, output>>

StoreElement(w, i) ==
    /\ pc[w] = "store"
    /\ i \in pending[w]
    /\ LaneTurn(w, i)
    /\ IF FinalSegment(Role(w))
       THEN /\ output' = [output EXCEPT
                            ![<<Transform(w), OutputAddress(Here(w, i))>>] = tile[<<w, i>>]]
            /\ UNCHANGED boundary
       ELSE /\ boundary' = [boundary EXCEPT
                    ![<<Destination(w)[1], Destination(w)[2], Here(w, i)>>] = tile[<<w, i>>]]
            /\ UNCHANGED output
    /\ pending' = [pending EXCEPT ![w] = @ \ {i}]
    /\ UNCHANGED <<launch, pc, task, granted, tile, observed, ready,
                   consume_state, consumed_epoch>>

\* The __syncwarp() after the store loop; a final task ends here.
FinishStore(w) ==
    /\ pc[w] = "store"
    /\ pending[w] = {}
    /\ IF FinalSegment(Role(w))
       THEN NextTask(w)
       ELSE Goto(w, "publish") /\ UNCHANGED task
    /\ UNCHANGED <<launch, pending, granted, tile, observed, ready,
                   consume_state, consumed_epoch, boundary, output>>

\* Lane 0 announces the stored results to the next segment.
Publish(w) ==
    LET s       == Role(w)
        token   == <<s, Slot(s, Transform(w)), Within(w)>>
        counter == <<s, Slot(s, Transform(w)), ProducerWave(s, Within(w))>>
    IN  /\ pc[w] = "publish"
        /\ ready' = IF Ring(s)
                    THEN [ready EXCEPT ![token] = Transform(w) + 1]
                    ELSE [ready EXCEPT ![counter] = @ + 1]
        /\ NextTask(w)
        /\ UNCHANGED <<launch, pending, granted, tile, observed, consume_state,
                       consumed_epoch, boundary, output>>

AllDone == \A w \in Worker : pc[w] = "done"

\* The next launch in stream order, on the workspace the last one left behind.
Relaunch ==
    /\ AllDone
    /\ launch < Launches
    /\ launch' = launch + 1
    /\ pc' = [w \in Worker |-> "clear"]
    /\ task' = [w \in Worker |-> w[2]]
    /\ UNCHANGED <<pending, granted, tile, observed, ready, consume_state,
                   consumed_epoch, boundary, output>>

\* The last launch has ended: the system stops.
Finished ==
    /\ AllDone
    /\ launch = Launches
    /\ UNCHANGED vars

Step(w) ==
    \/ Clear(w)
    \/ AcquireSlot(w)
    \/ AwaitWave(w)
    \/ \E i \in Item(w) : AwaitToken(w, i)
    \/ \E i \in Item(w) : LoadElement(w, i)
    \/ FinishLoad(w)
    \/ ObserveConsume(w)
    \/ SwapConsume(w)
    \/ RetrySwap(w)
    \/ SignalConsumed(w)
    \/ Compute(w)
    \/ \E i \in Item(w) : StoreElement(w, i)
    \/ FinishStore(w)
    \/ Publish(w)

Next ==
    \/ \E w \in Worker : Step(w)
    \/ GridSync
    \/ Relaunch
    \/ Finished

Spec == Init /\ [][Next]_vars

\* cudaLaunchCooperativeKernel keeps every block resident and each warp of a
\* resident block is scheduled.
FairSpec == Spec /\ WF_vars(GridSync) /\ \A w \in Worker : WF_vars(Step(w))

----------------------------------------------------------------------------
(* What each warp has done so far, read off its task counter and phase.    *)

Owner(s, T) == <<s, T % RoleWorkers[s]>>

Loaded == {"observe", "swap", "signal", "compute", "store", "publish"}
Counted == {"signal", "compute", "store", "publish"}

\* Task number T of segment s has stored and announced its results.
Stored(s, T) == T < task[Owner(s, T)]

\* Task number T of segment s has read all its operands ...
Taken(s, T) ==
    \/ Stored(s, T)
    \/ T = task[Owner(s, T)] /\ pc[Owner(s, T)] \in Loaded

\* ... and has told its source slot so.
Released(s, T) ==
    \/ Stored(s, T)
    \/ T = task[Owner(s, T)] /\ pc[Owner(s, T)] \in Counted

TaskNumber(s, t, k) == t * TaskCount(s) + k

Running == \A w \in Worker : pc[w] \notin {"clear", "sync"}

(* The state has its type: in particular no warp ever indexes a word or a  *)
(* cell outside the arrays the host laid out.                              *)
TypeOK ==
    /\ launch \in 1 .. Launches
    /\ pc \in [Worker -> {"clear", "sync", "acquire", "wave", "load", "done"} \cup Loaded]
    /\ task \in [Worker -> Nat]
    /\ pending \in [Worker -> SUBSET Nat]
    /\ granted \in [Worker -> SUBSET Nat]
    /\ \A w \in Worker : granted[w] \subseteq pending[w] /\ pending[w] \subseteq Item(w)
    /\ tile \in [TileWord -> Token]
    /\ observed \in [Worker -> [epoch : Nat, count : Nat]]
    /\ ready \in [ReadyWord -> Nat]
    /\ consume_state \in [StateWord -> [epoch : Nat, count : Nat]]
    /\ consumed_epoch \in [StateWord -> Nat]
    /\ boundary \in [Cell -> Token]
    /\ output \in [(0 .. Batch - 1) \X Element -> Token]

(* Everything a warp has in its tile belongs to the transform it works on, *)
(* in this launch: no lane read a slot before its producer stored it, after *)
(* a later transform overwrote it, or left over from an earlier launch.    *)
OperandsFresh ==
    \A w \in Worker :
        LET have == IF pc[w] = "load" THEN Item(w) \ pending[w]
                    ELSE IF pc[w] \in Loaded THEN Item(w) ELSE {}
        IN  \A i \in have : tile[<<w, i>>] = <<launch, Transform(w)>>

(* A warp that may store into a ring slot is alone with it: every consumer *)
(* task of every earlier transform in that slot has taken its operands.    *)
SlotHandover ==
    \A w \in Worker :
        (Ring(Role(w)) /\ pc[w] \in {"load", "wave"} \cup Loaded) =>
            \A t \in 0 .. Transform(w) - 1 :
                Slot(Role(w), t) = Slot(Role(w), Transform(w)) =>
                    \A k \in Task(Role(w) + 1) :
                        Taken(Role(w) + 1, TaskNumber(Role(w) + 1, t, k))

(* The consume_state word counts exactly the released consumer tasks of    *)
(* the transform its epoch names, whatever the interleaving of the CAS     *)
(* loops: none is lost, none is counted twice, and no task of a later      *)
(* transform in the slot has been released.                                *)
ConsumeCountExact ==
    Running => \A word \in StateWord :
        LET s == word[1] + 1
            c == consume_state[word]
            released(t) == {k \in Task(s) : Released(s, TaskNumber(s, t, k))}
            inSlot == {t \in 0 .. Batch - 1 : Slot(word[1], t) = word[2]}
        IN  /\ c.epoch = 0 => \A t \in inSlot : released(t) = {}
            /\ c.epoch # 0 =>
                /\ c.epoch - 1 \in inSlot
                /\ c.count = Cardinality(released(c.epoch - 1))
                /\ \A t \in inSlot : t < c.epoch - 1 => released(t) = Task(s)
                /\ \A t \in inSlot : t > c.epoch - 1 => released(t) = {}

(* A full-scratch wave counter equals the number of producer tasks of the  *)
(* wave that have stored, so it reaches segment_n exactly when the last    *)
(* operand of the wave's consumers is in memory.                           *)
WaveCounterExact ==
    Running => \A word \in ReadyWord :
        LET s == word[1]
            feeders == {k \in Task(s) : ProducerWave(s, k) = word[3]}
        IN  ~Ring(s) =>
                /\ Cardinality(feeders) = SegmentN[s + 1]
                /\ ready[word] = Cardinality({k \in feeders :
                                     Stored(s, TaskNumber(s, word[2], k))})

(* When a launch has ended, every element of every transform has been      *)
(* written, in this launch and from operands of that transform only.       *)
OutputComplete ==
    AllDone => \A t \in 0 .. Batch - 1, x \in Element : output[<<t, x>>] = <<launch, t>>

(* Between grid.sync and the end of a launch the synchronisation words     *)
(* only advance: a token, counter or consumed epoch never regresses, and   *)
(* consume_state moves on in its epoch or to a later one.                  *)
EpochsAdvance ==
    [][ (Running /\ launch' = launch) =>
          /\ \A word \in ReadyWord : ready'[word] >= ready[word]
          /\ \A word \in StateWord :
                /\ consumed_epoch'[word] >= consumed_epoch[word]
                /\ \/ consume_state'[word].epoch > consume_state[word].epoch
                   \/ /\ consume_state'[word].epoch = consume_state[word].epoch
                      /\ consume_state'[word].count >= consume_state[word].count
      ]_vars

(* No cycle of waits: every launch comes to its end, however few slots the *)
(* rings have and however few workers the roles.                           *)
EveryLaunchEnds == []<>AllDone

----------------------------------------------------------------------------
(* The dataflow graph this kernel executes: the tasks that have taken      *)
(* their operands and those that have stored, per segment.                 *)
TasksWhere(s, P(_, _)) ==
    { c \in (0 .. Batch - 1) \X Task(s) : P(s, TaskNumber(s, c[1], c[2])) }

Dataflow == INSTANCE StreamingDataflow WITH
    taken  <- [s \in Segment |-> TasksWhere(s, Taken)],
    stored <- [s \in Segment |-> TasksWhere(s, Stored)]

(* The kernel is a bounded-buffer execution of the segment graph: a task   *)
(* takes its operands after all its producers have stored, stores after    *)
(* its slot was given back, and runs exactly once per launch.              *)
ImplementsDataflow == Dataflow!Spec
=============================================================================
