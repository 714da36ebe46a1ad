--------------------------- MODULE CompiledSearch ---------------------------
(***************************************************************************)
(* The search of the installed candidates (run_compiled_search): every     *)
(* workload of the configuration is screened up to a budget and its best   *)
(* designs are confirmed by full trials.  Two files carry the search over  *)
(* an interruption: the audit (search_coverage.json), written when a       *)
(* candidate was screened and when a workload is finished, and the journal *)
(* (search_measurements.json), written after every timed sample.  A third, *)
(* the seed snapshot, fixes the historical mappings that are tried first.  *)
(*                                                                         *)
(* A file is written next to its final name and renamed, so a reader sees  *)
(* the old or the new one; a kill (the module that composes this one) may  *)
(* come between any two steps and leaves only the files.                   *)
(***************************************************************************)
EXTENDS Naturals, Sequences, FiniteSets

CONSTANTS
    Workloads,    \* the workloads, in the order of the configuration
    Inventory,    \* per workload: what the library exports, in stratified order
    Neighbours,   \* per candidate: what the evolutionary search makes of it
    DesignOf,     \* the design a candidate resolves to; aliases share one
    Latency,      \* its median kernel time
    Trials, Finalists, SeedBudget,
    Outcomes,     \* what a timed run may end in
    MayStop       \* a search time budget is set

Members(s) == {s[i] : i \in DOMAIN s}

\* What can be measured.
Candidates == DOMAIN Neighbours

ASSUME SearchAssumption ==
    /\ Trials \in Nat \ {0} /\ Finalists \in Nat \ {0} /\ SeedBudget \in Nat
    /\ Outcomes \subseteq {"correct", "failed", "busy", "changed"}
    /\ MayStop \in BOOLEAN
    /\ Workloads \in Seq(Members(Workloads))
    /\ Inventory \in [Members(Workloads) -> Seq(Candidates)]
    /\ Neighbours \in [Candidates -> SUBSET Candidates]
    /\ \A c \in Candidates : Latency[c] \in Nat
    /\ "file" \notin Candidates   \* the name by which Absent is told from rows

VARIABLES
    coverage,     \* the audit on disk
    journal,      \* the journal on disk: a row per measured candidate
    snapshot,     \* the seeds on disk, per workload
    search,       \* the search of the running process
    setbacks      \* how many unfavourable outcomes may still come (a bound)

searchvars == <<coverage, journal, snapshot, search>>

Setback == setbacks > 0 /\ setbacks' = setbacks - 1

Absent == [file |-> "absent"]
Empty == [c \in {} |-> c]
Idle == [pc |-> "idle"]

SearchInit ==
    /\ coverage = Absent /\ journal = Absent /\ snapshot = Absent
    /\ search = Idle

\* A row of the journal: whether its samples are of the full protocol or of the
\* short screening one, how many there are, and whether all of them are correct.
Row(full, samples, correct, status) ==
    [full |-> full, samples |-> samples, correct |-> correct, status |-> status]

\* The entries of one document over those of another, and a document of one entry.
new ++ old ==
    [x \in DOMAIN new \cup DOMAIN old |-> IF x \in DOMAIN new THEN new[x] ELSE old[x]]
Entry(c, row) == [x \in {c} |-> row]

At(s, n) == SubSeq(s, 1, IF n < Len(s) THEN n ELSE Len(s))

----------------------------------------------------------------------------
(* Beginning and resuming.                                                 *)

\* The frozen snapshot wins over what the registry would offer now.
Seeds(offered) == IF snapshot = Absent THEN offered ELSE snapshot

\* Rows are taken over only together with an audit, and only from a run of the
\* same binaries and verification; cells only from the same protocol.
Resumable == coverage # Absent /\ journal # Absent
PreviousCells(protocol) ==
    IF Resumable /\ coverage.protocol = protocol THEN coverage.cells ELSE << >>

BeginSearch(build, budget, offered) ==
    /\ search = Idle
    /\ snapshot' = Seeds(offered)
    /\ LET protocol == [budget |-> budget, seeds |-> Seeds(offered)]
       IN search' =
            IF Resumable /\ coverage.build # build
            THEN [pc |-> "raised", cause |-> "identity"]
            ELSE [pc |-> "cells", build |-> build, protocol |-> protocol, at |-> 1,
                  done |-> << >>, previous |-> PreviousCells(protocol), kept |-> Resumable]
    /\ UNCHANGED <<coverage, journal, setbacks>>

\* retained: the rows of earlier runs, if they were taken over, and of this one.
\* save_measurements writes them all, so an earlier cell never erases a later one.
Retained == IF search.kept THEN journal ELSE Empty
\* Mutant: only the rows at hand are written.
SaveRowsAlone(rows) == journal' = rows
SaveRows(rows) == journal' = rows ++ Retained

Audit(cells) == [build |-> search.build, protocol |-> search.protocol, cells |-> cells]

----------------------------------------------------------------------------
(* The cell of a workload.                                                 *)
Work == Workloads[search.at]
Chosen == At(search.protocol.seeds[Work], SeedBudget)
Unseeded == Members(Inventory[Work]) \ Members(Chosen)
Requested ==
    Len(Chosen)
      + IF search.protocol.budget = 0 THEN Cardinality(Unseeded) ELSE search.protocol.budget

Previous == {i \in DOMAIN search.previous : search.previous[i].work = Work}
PreviousCell == search.previous[CHOOSE i \in Previous : TRUE]
Completed == Previous # {} /\ PreviousCell.complete

\* _resume_selection_prefix: every screened selection is named in the audit and
\* has its row in the journal.
PrefixPersisted ==
    /\ Previous # {} /\ ~ PreviousCell.complete /\ PreviousCell.screened > 0
    /\ PreviousCell.screened <= Len(PreviousCell.order)
    /\ \A i \in 1..PreviousCell.screened : PreviousCell.order[i] \in DOMAIN Retained
ResumeFast ==
    /\ PrefixPersisted
    /\ PreviousCell.requested = Requested
    /\ PreviousCell.screened <= Requested

FreshCell ==
    [work |-> Work, requested |-> Requested, order |-> << >>, status |-> Empty,
     screened |-> 0, complete |-> FALSE, stop |-> FALSE]
ResumedCell ==
    LET order == At(PreviousCell.order, PreviousCell.screened)
    IN [FreshCell EXCEPT
            !.order = order, !.screened = Len(order),
            !.status = [c \in Members(order) |-> Retained[c].status]]

AtCell == search.pc = "cells" /\ search.at <= Len(Workloads)

SkipCell ==
    /\ AtCell /\ Completed
    /\ search' = [search EXCEPT !.done = Append(@, PreviousCell), !.at = @ + 1]
    /\ UNCHANGED <<coverage, journal, snapshot, setbacks>>

OpenCell ==
    /\ AtCell /\ ~ Completed
    /\ LET cell == IF ResumeFast THEN ResumedCell ELSE FreshCell
       IN search' = [cell |-> cell, rows |-> [c \in Members(cell.order) |-> Retained[c]]]
                    ++ [search EXCEPT !.pc = "select"]
    /\ UNCHANGED <<coverage, journal, snapshot, setbacks>>

FinishSearch ==
    /\ search.pc = "cells" /\ search.at > Len(Workloads)
    /\ coverage' = Audit(search.done)
    /\ search' = [search EXCEPT !.pc = "done"]
    /\ UNCHANGED <<journal, snapshot, setbacks>>

----------------------------------------------------------------------------
(* Screening.                                                              *)
Screened == search.cell.order
Remaining == Unseeded \ Members(Screened)
Stratum(c) == CHOOSE i \in DOMAIN Inventory[Work] : Inventory[Work][i] = c
Correct == {c \in Members(Screened) : search.rows[c].correct}

\* Historical seeds first; then one selection in four explores the next stratum
\* and the others follow the model, among what remains and the neighbours of that
\* and of what was correct.
IsSeed == Len(Screened) < Len(Chosen)
Explores == (Len(Screened) - Len(Chosen)) % 4 = 0
Sources == Correct \cup Remaining
Proposals ==
    IF Screened = << >> THEN Remaining
    ELSE (Remaining \cup UNION {Neighbours[c] : c \in Sources}) \ Members(Screened)
Eligible ==
    IF IsSeed THEN {Chosen[Len(Screened) + 1]}
    ELSE IF Explores THEN {c \in Remaining : \A d \in Remaining : Stratum(c) <= Stratum(d)}
    ELSE Proposals

Exhausted == Eligible = {}
ScreeningOver == Len(Screened) >= Requested

Select ==
    /\ search.pc = "select" /\ ~ ScreeningOver
    /\ \E c \in Eligible : search' = [cur |-> c] ++ [search EXCEPT !.pc = "screen"]
    /\ UNCHANGED <<coverage, journal, snapshot, setbacks>>

\* The workload's share of the search time has run out, or no candidate is left.
StopScreening ==
    /\ search.pc = "select" /\ ~ ScreeningOver
    /\ \/ MayStop /\ ~ Exhausted /\ Setback
       \/ Exhausted /\ UNCHANGED setbacks
    /\ search' = [search EXCEPT !.cell.stop = TRUE, !.pc = "rank"]
    /\ UNCHANGED <<coverage, journal, snapshot>>

\* A correct row of an earlier run is as good as a screening run of now.
Cached(c) == c \in DOMAIN Retained /\ Retained[c].correct

Note(c, row) ==
    [search EXCEPT
        !.pc = "audit", !.rows = Entry(c, row) ++ @,
        !.cell.order = Append(@, c), !.cell.screened = Len(Screened) + 1,
        !.cell.status = Entry(c, row.status) ++ @]

ScreenCached ==
    /\ search.pc = "screen" /\ Cached(search.cur)
    /\ search' = Note(search.cur, [Retained[search.cur] EXCEPT !.status = "screened"])
    /\ UNCHANGED <<coverage, journal, snapshot, setbacks>>

\* One timed run.  A correct sample is in the journal before the selection is in
\* the audit; a failed one is not.
ScreenRun ==
    /\ search.pc = "screen" /\ ~ Cached(search.cur)
    /\ \/ /\ "correct" \in Outcomes
          /\ LET row == Row(FALSE, 1, TRUE, "screened")
             IN /\ SaveRows(Entry(search.cur, row))
                /\ search' = [Note(search.cur, row) EXCEPT !.kept = TRUE]
          /\ UNCHANGED setbacks
       \/ /\ "failed" \in Outcomes /\ Setback
          /\ search' = Note(search.cur, Row(FALSE, 0, FALSE, "failed"))
          /\ UNCHANGED journal
    /\ UNCHANGED <<coverage, snapshot>>

WriteAudit ==
    /\ search.pc = "audit"
    /\ coverage' = Audit(Append(search.done, search.cell))
    /\ search' = [search EXCEPT !.pc = "save"]
    /\ UNCHANGED <<journal, snapshot, setbacks>>

WriteRows ==
    /\ search.pc = "save"
    /\ SaveRows(search.rows)
    /\ search' = [search EXCEPT !.pc = "select", !.kept = TRUE]
    /\ UNCHANGED <<coverage, snapshot, setbacks>>

----------------------------------------------------------------------------
(* Confirming the finalists.                                               *)
Place(c) == CHOOSE i \in DOMAIN Screened : Screened[i] = c
Ahead(c, d) ==
    \/ Latency[c] < Latency[d]
    \/ Latency[c] = Latency[d] /\ Place(c) < Place(d)

\* The fastest correct candidates, one for each design.
FinalistSet ==
    {c \in Correct :
        LET ahead == {d \in Correct : Ahead(d, c)}
        IN /\ \A d \in ahead : DesignOf[d] # DesignOf[c]
           /\ Cardinality({DesignOf[d] : d \in ahead}) < Finalists}

Rank ==
    /\ \/ search.pc = "rank"
       \/ search.pc = "select" /\ ScreeningOver
    /\ search' = [finalists |-> FinalistSet, next |-> 1] ++ [search EXCEPT !.pc = "confirm"]
    /\ UNCHANGED <<coverage, journal, snapshot, setbacks>>

Confirming == search.pc = "confirm" /\ search.next <= Len(Screened)
Candidate == Screened[search.next]
Finalist == Candidate \in search.finalists

\* The samples that count: those of the full protocol, as long as all are correct.
Samples(c) == IF Cached(c) /\ Retained[c].full THEN Retained[c].samples ELSE 0

\* The row is final: it goes to the journal with the rows behind it.
Settle(c, row) ==
    LET rows == Entry(c, row) ++ search.rows
    IN /\ SaveRows(rows)
       /\ search' = [search EXCEPT
                        !.rows = rows, !.cell.status = Entry(c, row.status) ++ @,
                        !.next = @ + 1, !.kept = TRUE]

KeepScreened ==
    /\ Confirming /\ ~ Finalist
    /\ LET row == search.rows[Candidate]
       IN Settle(Candidate, IF row.correct THEN [row EXCEPT !.status = "screened"] ELSE row)
    /\ UNCHANGED <<coverage, snapshot, setbacks>>

Confirmed ==
    /\ Confirming /\ Finalist /\ Samples(Candidate) >= Trials
    /\ Settle(Candidate, [Retained[Candidate] EXCEPT !.status = "measured"])
    /\ UNCHANGED <<coverage, snapshot, setbacks>>

\* One more trial.
ConfirmRun ==
    /\ Confirming /\ Finalist /\ Samples(Candidate) < Trials
    /\ \/ /\ "correct" \in Outcomes
          /\ SaveRows(Entry(Candidate, Row(TRUE, Samples(Candidate) + 1, TRUE, "screened")))
          /\ search' = [search EXCEPT !.kept = TRUE]
          /\ UNCHANGED setbacks
       \/ /\ "failed" \in Outcomes /\ Setback
          /\ Settle(Candidate, Row(TRUE, Samples(Candidate), FALSE, "failed"))
    /\ UNCHANGED <<coverage, snapshot>>

\* Another process is on the GPU, before or after the run, or the run resolved
\* another mapping than the one asked for: the search is given up.
RunRaises ==
    /\ \/ search.pc = "screen" /\ ~ Cached(search.cur)
       \/ Confirming /\ Finalist /\ Samples(Candidate) < Trials
    /\ \E cause \in Outcomes \cap {"busy", "changed"} :
          search' = [pc |-> "raised", cause |-> cause]
    /\ Setback
    /\ UNCHANGED <<coverage, journal, snapshot>>

\* Every row is in the journal before the audit calls the workload complete.
SaveCell ==
    /\ search.pc = "confirm" /\ search.next > Len(Screened)
    /\ SaveRows(search.rows)
    /\ search' = [search EXCEPT !.pc = "close", !.kept = TRUE]
    /\ UNCHANGED <<coverage, snapshot, setbacks>>

CloseCell ==
    /\ search.pc = "close"
    /\ LET cells == Append(search.done, [search.cell EXCEPT !.complete = TRUE])
       IN /\ coverage' = Audit(cells)
          /\ search' = [pc |-> "cells", build |-> search.build, protocol |-> search.protocol,
                        at |-> search.at + 1, done |-> cells, previous |-> search.previous,
                        kept |-> TRUE]
    /\ UNCHANGED <<journal, snapshot, setbacks>>

SearchStep ==
    \/ SkipCell \/ OpenCell \/ Select \/ StopScreening \/ ScreenCached \/ ScreenRun
    \/ WriteAudit \/ WriteRows \/ Rank \/ KeepScreened \/ Confirmed \/ ConfirmRun
    \/ RunRaises \/ SaveCell \/ CloseCell \/ FinishSearch

=============================================================================
