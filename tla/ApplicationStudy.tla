-------------------------- MODULE ApplicationStudy --------------------------
(***************************************************************************)
(* The application-contract study (run_crypto_application_study): composed *)
(* transforms timed with the public proposal and with the cyclic mappings  *)
(* three searches found.  Two of the searches are earlier studies that own *)
(* the GPU while they hold their scheduling lock; the study waits for      *)
(* both, takes both locks, runs its own search and then times its          *)
(* workloads.  The lock, parent_resolved and the waiting controller belong *)
(* to those studies.                                                       *)
(***************************************************************************)
EXTENDS Naturals, Sequences, FiniteSets, SequencesExt

CONSTANTS Earlier,          \* the studies the manifest depends on, in order
          Found,            \* study -> the channels its search resolves
          Workloads,        \* the composed workloads: [id, channels], in order
          Gates,            \* the workloads of the correctness gate
          Patterns, Trials,
          MaxCalls, MaxSetbacks

VARIABLES inputs, frozen,   \* revision of the inputs; the one of the manifest
          compiled,         \* the precompilation is complete
          journals,         \* study -> its acceptance journal
          lock, other,      \* per earlier study: its lock; what its process does
          foreign,          \* a stranger uses the GPU
          gate, composed,   \* gpu_preflight.json, composed.json
          summary,          \* summary.json
          runner, calls, setbacks

application == <<inputs, frozen, compiled, journals, lock, other, foreign, gate, composed,
                 summary, runner, calls, setbacks>>

Own == "own"
Studies == ToSet(Earlier) \cup {Own}
Absent == [identity |-> 0, status |-> "absent"]
Idle == [at |-> "idle"]

Init == /\ inputs = 1 /\ frozen = 0 /\ compiled = FALSE
        /\ journals = [s \in Studies |-> [resolved |-> FALSE, known |-> {}, digest |-> 0]]
        /\ lock = [s \in ToSet(Earlier) |-> "free"]
        /\ other = [s \in ToSet(Earlier) |-> "none"]
        /\ foreign = FALSE /\ gate = Absent /\ composed = Absent /\ summary = "none"
        /\ runner = Idle /\ calls = 0 /\ setbacks = 0

Setback == setbacks < MaxSetbacks /\ setbacks' = setbacks + 1

world == <<inputs, frozen, compiled, journals, other, foreign, summary, calls>>

\* query_compute_clients.
Clients == foreign \/ \E s \in DOMAIN other : other[s] = "timing"

\* The runner's process is gone, and the locks it held with it.
Exit == /\ runner' = Idle
        /\ lock' = [s \in DOMAIN lock |-> IF lock[s] = "us" THEN "free" ELSE lock[s]]

-----------------------------------------------------------------------------
(* What is timed *)

\* The journal whose mapping of a channel is replayed: of several the last read.
EvidenceFor(channel) ==
    LET holders == SelectSeq(Append(Earlier, Own), LAMBDA s : channel \in journals[s].known)
    IN  IF holders = <<>> THEN <<>> ELSE <<Last(holders), journals[Last(holders)].digest>>

Portfolios(w) ==
    LET evidence == [k \in DOMAIN w.channels |-> EvidenceFor(w.channels[k])]
    IN  [evidence |-> evidence,
         names |-> <<"public-default">> \o
                   (IF \E k \in DOMAIN evidence : evidence[k] # <<>>
                    THEN <<"searched-cyclic-cores">> ELSE <<>>)]

\* Every pattern and trial of a cell, odd trials in reverse.
Slots(portfolios) ==
    FlattenSeq([p \in DOMAIN Patterns |-> FlattenSeq([t \in 1 .. Trials |->
        [k \in DOMAIN portfolios.names |->
            <<Patterns[p], t - 1, IF t % 2 = 1 THEN portfolios.names[k]
                                  ELSE Reverse(portfolios.names)[k]>>]])])

Timed(cell, slot) == \E i \in DOMAIN cell.rows : cell.rows[i].slot = slot

Missing(cell) == SelectSeq(Slots(cell.portfolios), LAMBDA slot : ~ Timed(cell, slot))

NewCell(w) == [id |-> w.id, status |-> "pending", portfolios |-> Portfolios(w), rows |-> <<>>]

-----------------------------------------------------------------------------
(* prepare, and the waiting of queue *)

\* freeze() keeps what it wrote the first time, or refuses.
Prepare == /\ runner = Idle /\ frozen = 0
           /\ frozen' = inputs
           /\ UNCHANGED <<inputs, compiled, journals, lock, other, foreign, gate, composed,
                          summary, runner, calls, setbacks>>

InputsValid == frozen # 0 /\ frozen = inputs

DependenciesReady ==
    /\ \A s \in DOMAIN lock : journals[s].resolved /\ lock[s] = "free"
    /\ compiled

\* execute, by hand or when the controller of queue finds nothing to wait for.
Execute(queued) ==
    /\ runner = Idle /\ InputsValid /\ calls < MaxCalls /\ calls' = calls + 1
    /\ queued => DependenciesReady /\ ~ Clients
    /\ runner' = [at |-> "locking", next |-> 1]
    /\ UNCHANGED <<inputs, frozen, compiled, journals, lock, other, foreign, gate, composed,
                   summary, setbacks>>

\* Mutant: a busy lock is passed over.
TakeLockIfFree ==
    /\ runner.at = "locking" /\ runner.next <= Len(Earlier)
    /\ LET s == Earlier[runner.next]
       IN  lock' = IF lock[s] = "free" THEN [lock EXCEPT ![s] = "us"] ELSE lock
    /\ runner' = [runner EXCEPT !.next = @ + 1]
    /\ UNCHANGED <<world, gate, composed, setbacks>>

\* One lock after another; a busy one ends the call with 75, an unresolved
\* matrix with an error.
TakeLock ==
    /\ runner.at = "locking" /\ runner.next <= Len(Earlier)
    /\ LET s == Earlier[runner.next]
       IN  IF lock[s] # "free" \/ ~ journals[s].resolved THEN Exit
           ELSE /\ lock' = [lock EXCEPT ![s] = "us"]
                /\ runner' = [runner EXCEPT !.next = @ + 1]
    /\ UNCHANGED <<world, gate, composed, setbacks>>

Enter ==
    /\ runner.at = "locking" /\ runner.next > Len(Earlier)
    /\ IF Clients \/ ~ compiled \/ (gate # Absent /\ gate.identity # frozen) THEN Exit
       ELSE runner' = [at |-> "gate", flying |-> FALSE] /\ UNCHANGED lock
    /\ UNCHANGED <<world, gate, composed, setbacks>>

-----------------------------------------------------------------------------
(* measure: a benchmark, looked at before, during and after *)

GateRows == IF gate = Absent THEN <<>> ELSE gate.rows
GateOpen == runner.at = "gate" /\ Len(GateRows) < Len(Gates)

LaunchGate ==
    /\ GateOpen /\ ~ runner.flying
    /\ IF Clients THEN Exit ELSE runner' = [runner EXCEPT !.flying = TRUE] /\ UNCHANGED lock
    /\ UNCHANGED <<world, gate, composed, setbacks>>

\* A sample is kept when nobody else was on the GPU and it is the one asked for.
LandGate ==
    /\ GateOpen /\ runner.flying
    /\ \/ Clients /\ Exit /\ UNCHANGED <<gate, setbacks>>
       \/ /\ ~ Clients
          /\ gate' = [identity |-> frozen, rows |-> Append(GateRows, Gates[Len(GateRows) + 1]),
                      status |-> "partial"]
          /\ runner' = [runner EXCEPT !.flying = FALSE] /\ UNCHANGED <<lock, setbacks>>
       \/ ~ Clients /\ Setback /\ Exit /\ UNCHANGED gate
    /\ UNCHANGED <<world, composed>>

GateDone ==
    /\ runner.at = "gate" /\ Len(GateRows) = Len(Gates)
    /\ gate' = [gate EXCEPT !.status = "complete"]
    /\ runner' = [at |-> "cyclic"]
    /\ UNCHANGED <<world, lock, composed, setbacks>>

\* The study's own search: an acceptance run, unless its matrix is resolved.
OwnSearch ==
    /\ runner.at = "cyclic"
    /\ \/ /\ journals' = [journals EXCEPT ![Own] =
                 IF @.resolved THEN @ ELSE [resolved |-> TRUE, known |-> Found[Own], digest |-> 1]]
          /\ IF composed # Absent /\ composed.identity # frozen THEN Exit
             ELSE runner' = [at |-> "composed", next |-> 1, cell |-> Absent, flying |-> FALSE]
                  /\ UNCHANGED lock
          /\ UNCHANGED setbacks
       \/ ~ journals[Own].resolved /\ Setback /\ Exit /\ UNCHANGED journals
    /\ UNCHANGED <<inputs, frozen, compiled, other, foreign, gate, composed, summary, calls>>

-----------------------------------------------------------------------------
(* run_composed *)

Cells == IF composed = Absent THEN <<>> ELSE composed.cells
Timing == runner.at = "composed" /\ runner.next <= Len(Workloads)
WorkloadNow == Workloads[runner.next]

Save(cell) ==
    composed' = [identity |-> frozen,
                 status |-> IF composed = Absent THEN "partial" ELSE composed.status,
                 cells |-> IF runner.next \in DOMAIN Cells
                           THEN [Cells EXCEPT ![runner.next] = cell] ELSE Append(Cells, cell)]

\* Mutant: a cell begun earlier goes on with whatever evidence there is now.
OpenUnchecked ==
    /\ Timing /\ runner.cell = Absent
    /\ runner' = [runner EXCEPT !.cell =
           IF runner.next \in DOMAIN Cells
           THEN [Cells[runner.next] EXCEPT !.portfolios = Portfolios(WorkloadNow)]
           ELSE NewCell(WorkloadNow)]
    /\ UNCHANGED <<world, lock, gate, composed, setbacks>>

\* A cell is begun in memory; one begun earlier must rest on the same evidence.
OpenCell ==
    /\ Timing /\ runner.cell = Absent
    /\ IF runner.next \notin DOMAIN Cells
       THEN runner' = [runner EXCEPT !.cell = NewCell(WorkloadNow)] /\ UNCHANGED lock
       ELSE IF Cells[runner.next].portfolios # Portfolios(WorkloadNow) THEN Exit
       ELSE runner' = [runner EXCEPT !.cell = Cells[runner.next]] /\ UNCHANGED lock
    /\ UNCHANGED <<world, gate, composed, setbacks>>

CellOpen == Timing /\ runner.cell # Absent

\* A failed measurement is journalled with its cell, and ends the call.
Fails(status) == Save([runner.cell EXCEPT !.status = status]) /\ Exit

LaunchTrial ==
    /\ CellOpen /\ ~ runner.flying /\ Missing(runner.cell) # <<>>
    /\ IF Clients THEN Fails("interrupted")
       ELSE runner' = [runner EXCEPT !.flying = TRUE] /\ UNCHANGED <<lock, composed>>
    /\ UNCHANGED <<world, gate, setbacks>>

LandTrial ==
    /\ CellOpen /\ runner.flying
    /\ LET row == [slot |-> Missing(runner.cell)[1]]
           cell == [runner.cell EXCEPT !.rows = Append(@, row), !.status = "partial"]
       IN  \/ Clients /\ Fails("interrupted") /\ UNCHANGED setbacks
           \/ /\ ~ Clients /\ Save(cell)
              /\ runner' = [runner EXCEPT !.cell = cell, !.flying = FALSE]
              /\ UNCHANGED <<lock, setbacks>>
           \/ ~ Clients /\ Setback /\ Fails("failed")
    /\ UNCHANGED <<world, gate>>

CompleteCell ==
    /\ CellOpen /\ ~ runner.flying /\ Missing(runner.cell) = <<>>
    /\ Save([runner.cell EXCEPT !.status = "complete"])
    /\ runner' = [runner EXCEPT !.next = @ + 1, !.cell = Absent]
    /\ UNCHANGED <<world, lock, gate, setbacks>>

Finish ==
    /\ runner.at = "composed" /\ runner.next > Len(Workloads)
    /\ composed' = [composed EXCEPT !.status = "complete"]
    /\ Exit
    /\ UNCHANGED <<world, gate, setbacks>>

\* report: refuses cells whose evidence or trials are not what they say.  A
\* matrix with unavailable cells is complete, too.
Report ==
    /\ runner = Idle /\ InputsValid
    /\ composed # Absent => composed.identity = frozen
    /\ LET done == {c \in DOMAIN Cells : Cells[c].status = "complete"}
           all == done = DOMAIN Workloads
       IN  /\ \A c \in done : Cells[c].portfolios = Portfolios(Workloads[c]) /\ Missing(Cells[c]) = <<>>
           /\ summary' = IF journals[Own].resolved /\ all THEN "complete" ELSE "partial"
    /\ UNCHANGED <<inputs, frozen, compiled, journals, lock, other, foreign, gate, composed,
                   runner, calls, setbacks>>

\* The runner or its machine dies: the system releases its locks.
Killed == /\ runner # Idle /\ Setback /\ Exit
          /\ UNCHANGED <<world, gate, composed>>

-----------------------------------------------------------------------------
(* The other studies and the world *)

ours == <<inputs, frozen, gate, composed, summary, runner, calls>>

OtherStarts(s) ==
    /\ lock[s] = "free" /\ ~ journals[s].resolved
    /\ lock' = [lock EXCEPT ![s] = "other"] /\ other' = [other EXCEPT ![s] = "scoring"]
    /\ UNCHANGED <<ours, compiled, journals, foreign, setbacks>>

\* It scores on the CPU and times on the GPU, in turn.
OtherTurns(s) ==
    /\ other[s] # "none"
    /\ other' = [other EXCEPT ![s] = IF @ = "timing" THEN "scoring" ELSE "timing"]
    /\ UNCHANGED <<ours, compiled, journals, lock, foreign, setbacks>>

OtherResolves(s) ==
    /\ other[s] = "scoring"
    /\ journals' = [journals EXCEPT ![s] = [resolved |-> TRUE, known |-> Found[s], digest |-> 1]]
    /\ lock' = [lock EXCEPT ![s] = "free"] /\ other' = [other EXCEPT ![s] = "none"]
    /\ UNCHANGED <<ours, compiled, foreign, setbacks>>

\* Somebody resumes a resolved search by hand: its journal is written again.
Rewritten(s) ==
    /\ journals[s].resolved /\ Setback
    /\ journals' = [journals EXCEPT ![s].digest = @ + 1]
    /\ UNCHANGED <<ours, compiled, lock, other, foreign>>

Precompiled == /\ ~ compiled /\ compiled' = TRUE
               /\ UNCHANGED <<ours, journals, lock, other, foreign, setbacks>>

\* A stranger comes and goes, perhaps between two looks.
Stranger == /\ IF foreign THEN UNCHANGED setbacks ELSE Setback
            /\ foreign' = ~ foreign
            /\ UNCHANGED <<ours, compiled, journals, lock, other>>

InputsChange == /\ runner = Idle /\ Setback /\ inputs' = inputs + 1
                /\ UNCHANGED <<frozen, compiled, journals, lock, other, foreign, gate, composed,
                               summary, runner, calls>>

Study == \/ Prepare \/ (\E queued \in BOOLEAN : Execute(queued)) \/ TakeLock \/ Enter
         \/ LaunchGate \/ LandGate \/ GateDone \/ OwnSearch
         \/ OpenCell \/ LaunchTrial \/ LandTrial \/ CompleteCell \/ Finish \/ Report \/ Killed

Next == \/ Study
        \/ \E s \in DOMAIN lock : OtherStarts(s) \/ OtherTurns(s) \/ OtherResolves(s)
        \/ \E s \in Studies : Rewritten(s)
        \/ Precompiled \/ Stranger \/ InputsChange

Spec == Init /\ [][Next]_application

-----------------------------------------------------------------------------
(* Properties *)

\* From its first benchmark to its last, its own search in between, every earlier
\* study has resolved its matrix and is at rest, however they start, score, time and
\* resolve while readiness is polled and the locks are taken one after another
\* (dependencies_ready, execute).
EarlierAtRest ==
    runner.at \in {"gate", "cyclic", "composed"} =>
        \A s \in DOMAIN lock : lock[s] = "us" /\ other[s] = "none" /\ journals[s].resolved

\* A complete cell has one row per pattern, trial and portfolio, and the searched
\* portfolio was weighed wherever one of the three finished searches has a mapping:
\* no cell was begun while a search could still resolve one of its channels.
CellsWhole ==
    /\ composed # Absent /\ composed.status = "complete" =>
          [c \in DOMAIN Cells |-> Cells[c].id] = [k \in DOMAIN Workloads |-> Workloads[k].id]
    /\ \A c \in DOMAIN Cells :
          LET cell == Cells[c]
              found == UNION {Found[s] : s \in Studies}
          IN  /\ \A k \in DOMAIN Workloads[c].channels :
                    cell.portfolios.evidence[k] # <<>> <=> Workloads[c].channels[k] \in found
              /\ cell.status = "complete" =>
                    /\ Len(cell.rows) = Len(Slots(cell.portfolios))
                    /\ {cell.rows[i].slot : i \in DOMAIN cell.rows} = ToSet(Slots(cell.portfolios))

\* A measured row is never lost or replaced, and a cell keeps the evidence it was
\* begun with, whatever is rewritten, interrupted or killed.
RowsStay ==
    \A c \in DOMAIN Cells :
        /\ c \in DOMAIN Cells'
        /\ Cells'[c].portfolios = Cells[c].portfolios
        /\ SubSeq(Cells'[c].rows, 1, Len(Cells[c].rows)) = Cells[c].rows

RowsKept == [][RowsStay]_application
=============================================================================
