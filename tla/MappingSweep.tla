---------------------------- MODULE MappingSweep ----------------------------
(***************************************************************************)
(* The sweep of the kernel forms (sweep_cubutterfly_designs).  Every       *)
(* candidate of the request is benchmarked for every trial; its rows are   *)
(* appended to OUTPUT.partial when the last trial is in, and the output is *)
(* written from the memory of the process when no candidate is left.  A    *)
(* call fails, is killed (perhaps in the middle of an append) and is       *)
(* called again, perhaps with another request, over another build or next  *)
(* to another client of the GPU.                                           *)
(*                                                                         *)
(* A request is [points, trials, exclusive]; a point has a name and tells  *)
(* whether its resources fit the GPU.  A row also keeps, for the           *)
(* properties alone, the request, the call and the build.                  *)
(***************************************************************************)
EXTENDS Naturals, Sequences, FiniteSets

CONSTANTS Requests, Builds, MaxCalls, MaxSetbacks

VARIABLES partial,      \* OUTPUT.partial
          table,        \* OUTPUT
          build,        \* the benchmark
          foreign,      \* is another client on the GPU
          sweeper,      \* the running call
          calls, setbacks

svars == <<partial, table, build, foreign, sweeper, calls, setbacks>>

NoFile == [present |-> FALSE, rows |-> <<>>, torn |-> FALSE]
Resting == [stage |-> "none"]

-----------------------------------------------------------------------------

\* A row that was cut, or ran into the next one, may still tell its candidate.
Counted(rows, i) == Cardinality({k \in DOMAIN rows : rows[k].index = i})

Completed(rows, request) ==
    {i \in DOMAIN request.points : Counted(rows, i) >= request.trials}

\* The candidates after i that are neither completed nor infeasible, and the first.
Open(request, completed, i) ==
    {j \in DOMAIN request.points : j > i /\ j \notin completed /\ request.points[j].fits}

Following(request, completed, i) ==
    LET open == Open(request, completed, i)
    IN  IF open = {} THEN Len(request.points) + 1 ELSE CHOOSE j \in open : \A k \in open : j <= k

\* What an append makes of the file: a last row that was cut swallows the next one.
Appended(file, rows) ==
    LET n == Len(file.rows)
    IN  IF n > 0 /\ file.rows[n].text = "cut"
        THEN [file EXCEPT !.rows = [@ EXCEPT ![n].text = "long"] \o Tail(rows)]
        ELSE [file EXCEPT !.present = TRUE, !.rows = @ \o rows]

-----------------------------------------------------------------------------

Begin(request, resume) ==
    /\ sweeper.stage = "none" /\ calls < MaxCalls
    /\ request.exclusive => ~foreign
    /\ partial.present => resume
    /\ calls' = calls + 1
    /\ LET completed == Completed(partial.rows, request)
       IN  sweeper' = [stage |-> "check", request |-> request, completed |-> completed,
                       at |-> Following(request, completed, 0), trial |-> 1,
                       records |-> partial.rows, fresh |-> <<>>]
    /\ UNCHANGED <<partial, table, build, foreign, setbacks>>

\* The check before a run, and the run.
Measuring == sweeper.stage = "check" /\ sweeper.at <= Len(sweeper.request.points)

Measure ==
    /\ Measuring
    /\ sweeper.request.exclusive => ~foreign
    /\ sweeper' = [sweeper EXCEPT !.stage = "run"]
    /\ UNCHANGED <<partial, table, build, foreign, calls, setbacks>>

RowNow ==
    [index |-> sweeper.at, trial |-> sweeper.trial, text |-> "whole",
     point |-> sweeper.request.points[sweeper.at].name, request |-> sweeper.request,
     call |-> calls, build |-> build]

\* A run ends, and the check after it passes.
Land ==
    /\ sweeper.stage = "run"
    /\ sweeper.request.exclusive => ~foreign
    /\ sweeper' = [sweeper EXCEPT !.records = Append(@, RowNow), !.fresh = Append(@, RowNow),
                                  !.trial = @ + 1,
                                  !.stage = IF sweeper.trial = sweeper.request.trials THEN "append" ELSE "check"]
    /\ UNCHANGED <<partial, table, build, foreign, calls, setbacks>>

Advanced == [sweeper EXCEPT !.stage = "check", !.fresh = <<>>, !.trial = 1,
                            !.at = Following(sweeper.request, sweeper.completed, @)]

Checkpoint ==
    /\ sweeper.stage = "append"
    /\ partial' = Appended(partial, sweeper.fresh)
    /\ sweeper' = Advanced
    /\ UNCHANGED <<table, build, foreign, calls, setbacks>>

\* A check that fails raises, as the empty table and a row with too many fields do.
Disturbed == /\ Measuring \/ sweeper.stage = "run"
             /\ sweeper.request.exclusive /\ foreign

Unwritable ==
    /\ sweeper.stage = "check" /\ ~Measuring
    /\ sweeper.records = <<>> \/ \E k \in DOMAIN sweeper.records : sweeper.records[k].text = "long"

Raises ==
    /\ Disturbed \/ Unwritable
    /\ sweeper' = Resting
    /\ UNCHANGED <<partial, table, build, foreign, calls, setbacks>>

\* The output is replaced as a whole, then the checkpoint is removed.
Write ==
    /\ sweeper.stage = "check" /\ ~Measuring /\ ~Unwritable
    /\ table' = [present |-> TRUE, rows |-> sweeper.records, torn |-> partial.torn,
                 request |-> sweeper.request]
    /\ sweeper' = [sweeper EXCEPT !.stage = "unlink"]
    /\ UNCHANGED <<partial, build, foreign, calls, setbacks>>

Unlink ==
    /\ sweeper.stage = "unlink"
    /\ partial' = NoFile /\ sweeper' = Resting
    /\ UNCHANGED <<table, build, foreign, calls, setbacks>>

-----------------------------------------------------------------------------

Setback == setbacks < MaxSetbacks /\ setbacks' = setbacks + 1

\* The benchmark fails, or the call is killed; in the middle of an append the file
\* keeps some rows and perhaps a piece of the next one.
Ends ==
    /\ sweeper.stage # "none" /\ Setback
    /\ sweeper' = Resting
    /\ UNCHANGED <<partial, table, build, foreign, calls>>

Pieces(rows, k) ==
    {SubSeq(rows, 1, k)} \cup
    {Append(SubSeq(rows, 1, k), [rows[k + 1] EXCEPT !.text = "cut", !.index = i]) :
        i \in {0, rows[k + 1].index}}

KilledAppending ==
    /\ sweeper.stage = "append" /\ Setback
    /\ \E k \in 0..(Len(sweeper.fresh) - 1) : \E piece \in Pieces(sweeper.fresh, k) :
          /\ piece # <<>>
          /\ partial' = [Appended(partial, piece) EXCEPT !.torn = TRUE]
    /\ sweeper' = Resting
    /\ UNCHANGED <<table, build, foreign, calls>>

Arrives == ~foreign /\ foreign' = TRUE /\ Setback /\ UNCHANGED <<partial, table, build, sweeper, calls>>
Leaves == foreign /\ foreign' = FALSE /\ UNCHANGED <<partial, table, build, sweeper, calls, setbacks>>

Rebuild ==
    /\ build' \in Builds \ {build} /\ Setback
    /\ UNCHANGED <<partial, table, foreign, sweeper, calls>>

Init == /\ partial = NoFile /\ table = NoFile /\ sweeper = Resting
        /\ build \in Builds /\ foreign = FALSE /\ calls = 0 /\ setbacks = 0

Next == \/ \E request \in Requests, resume \in BOOLEAN : Begin(request, resume)
        \/ Measure \/ Land \/ Checkpoint \/ Raises \/ Write \/ Unlink
        \/ Ends \/ KilledAppending \/ Arrives \/ Leaves \/ Rebuild

Spec == Init /\ [][Next]_svars

-----------------------------------------------------------------------------

\* An output of which every call made the same request, and no append was cut short.
Uniform == /\ table.present /\ ~table.torn
           /\ \A k \in DOMAIN table.rows : table.rows[k].request = table.request

\* An output that one request filled over any number of calls has exactly one row for
\* every trial of every candidate that fits, and none for another (--resume).
TableWhole ==
    Uniform =>
        LET request == table.request
            Rows(i, t) == {k \in DOMAIN table.rows : table.rows[k].index = i /\ table.rows[k].trial = t}
        IN  /\ \A i \in DOMAIN request.points, t \in 1..request.trials :
                  Cardinality(Rows(i, t)) = IF request.points[i].fits THEN 1 ELSE 0
            /\ Len(table.rows) = request.trials * Cardinality({i \in DOMAIN request.points : request.points[i].fits})
            /\ \A k \in DOMAIN table.rows : table.rows[k].point = request.points[table.rows[k].index].name

\* The trials of a candidate come from one call, so that they can be compared: a
\* candidate that was cut short is measured again from its first trial.
TrialsTogether ==
    Uniform =>
        \A k, l \in DOMAIN table.rows :
            table.rows[k].index = table.rows[l].index => table.rows[k].call = table.rows[l].call

\* No whole row that was checkpointed is lost: it stays in the checkpoint until the
\* output has it, whatever fails.
RowsKept ==
    \A k \in DOMAIN partial.rows :
        partial.rows[k].text = "whole" =>
            \/ \E l \in DOMAIN partial'.rows : partial'.rows[l] = partial.rows[k]
            \/ \E l \in DOMAIN table'.rows : table'.rows[l] = partial.rows[k]

CheckpointStays == [][RowsKept]_svars
=============================================================================
