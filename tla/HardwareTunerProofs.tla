------------------------ MODULE HardwareTunerProofs -------------------------
(***************************************************************************)
(* The installation and its search, for any workloads, candidates, trials, *)
(* promoters and bounds, and whatever is killed, times out, is built anew  *)
(* or promoted in between: the processes and the files fit together, paid  *)
(* trials are kept, promotions are kept, and what is called complete is    *)
(* installed and backed by trials.                                         *)
(*                                                                         *)
(* The four theorems rest on one inductive invariant in four parts:        *)
(* SearchInv of the search and its files, SessionInv of the programs       *)
(* around it, RegistryInv of the registry and its lock, InstallInv of the  *)
(* way of a row from the search to the registry.                           *)
(***************************************************************************)
EXTENDS HardwareTuner, TLAPS, FiniteSetTheorems, SequenceTheorems, WellFoundedInduction

----------------------------------------------------------------------------
(* What the search and its files are made of.                              *)

Settled(row) == row.full /\ row.correct /\ row.samples >= Trials

Status == {"screened", "measured", "failed", "unavailable"}
RowSet == [full : BOOLEAN, samples : Nat, correct : BOOLEAN, status : Status]
RowOK(row) == row \in RowSet /\ (row.status = "measured" => Settled(row))
IsRows(rows, S) == DOMAIN rows \subseteq S /\ \A c \in DOMAIN rows : RowOK(rows[c])

CandidateOf(w) == {c \in Candidates : WorkOf[c] = w}

Statuses == UNION {[D -> Status] : D \in SUBSET Candidates}
CellSet ==
    [work : Members(Workloads), requested : Nat, order : Seq(Candidates), status : Statuses,
     screened : Nat, complete : BOOLEAN, stop : BOOLEAN]
CellOK(cell) ==
    /\ cell \in CellSet
    /\ Members(cell.order) \subseteq CandidateOf(cell.work)
    /\ DOMAIN cell.status = Members(cell.order)
CellsOK(cells) == cells \in Seq(CellSet) /\ \A i \in DOMAIN cells : CellOK(cells[i])

SeedSet ==
    {seeds \in [Members(Workloads) -> Seq(Candidates)] :
        \A w \in Members(Workloads) : Members(seeds[w]) \subseteq CandidateOf(w)}

SearchFields == {"build", "protocol", "at", "done", "previous", "kept"}
InCell == {"select", "screen", "audit", "save", "rank", "confirm", "close"}
InSearch == InCell \cup {"cells", "done"}

\* The files are the audit, the journal and the seeds of these workloads and candidates.
FilesOK ==
    /\ coverage # Absent =>
          /\ {"build", "protocol", "cells"} \subseteq DOMAIN coverage
          /\ CellsOK(coverage.cells)
    /\ IsRows(Rows, Candidates)
    /\ journal # Absent => Rows = journal
    /\ snapshot # Absent => snapshot \in SeedSet

\* The running search has the fields its step reads.
SearchOK ==
    /\ "pc" \in DOMAIN search
    /\ search.pc \in InSearch \cup {"idle", "raised"}
    /\ search.pc = "idle" => search = Idle
    /\ search.pc = "raised" => "cause" \in DOMAIN search
    /\ search.pc \in InSearch =>
          /\ SearchFields \subseteq DOMAIN search
          /\ search.at \in Nat \ {0}
          /\ {"budget", "seeds"} \subseteq DOMAIN search.protocol
          /\ search.protocol.budget \in Nat
          /\ search.protocol.seeds \in SeedSet
          /\ CellsOK(search.done) /\ CellsOK(search.previous)
          /\ search.kept \in BOOLEAN

\* The open cell is of the workload in turn, and its rows and its statuses agree.
CellNow ==
    /\ search.pc \in InCell =>
          /\ {"cell", "rows"} \subseteq DOMAIN search
          /\ search.at <= Len(Workloads)
          /\ CellOK(search.cell) /\ search.cell.work = Work /\ ~ search.cell.complete
          /\ IsRows(search.rows, CandidateOf(Work))
          /\ DOMAIN search.rows = Members(search.cell.order)
          /\ \A c \in DOMAIN search.rows : search.cell.status[c] = search.rows[c].status
    /\ search.pc = "screen" => "cur" \in DOMAIN search /\ search.cur \in CandidateOf(Work)
    /\ search.pc = "confirm" => {"finalists", "next"} \subseteq DOMAIN search /\ search.next \in Nat \ {0}

\* Rows without full trials.
Bare(rows) == \A c \in DOMAIN rows : ~ rows[c].full
Started == search.pc \in InSearch

\* A search that has taken over no rows finds none worth it: without an audit and a
\* journal together there are no full trials to lose, and no complete cell names one.
Kept ==
    /\ (Started /\ search.kept) => journal # Absent
    /\ search.pc = "close" => search.kept
    /\ (Started /\ ~ search.kept) =>
          /\ search.previous = << >> /\ search.done = << >>
          /\ Bare(Rows)
          /\ search.pc \in InCell => Bare(search.rows)
          /\ coverage # Absent =>
                \A i \in DOMAIN coverage.cells :
                    coverage.cells[i].complete => coverage.cells[i].order = << >>
\* Full trials come after the first audit.
AuditFirst ==
    coverage = Absent =>
        /\ Bare(Rows) /\ search.pc # "save"
        /\ search.pc \in InCell => Bare(search.rows)
        /\ (Started /\ search.pc \notin {"audit", "close"}) => ~ search.kept
        /\ search.pc \in InCell \ {"audit"} => search.cell.order = << >>

\* The running search knows every full row of the journal, but for the one it is adding
\* trials to.
InTrial(c) == Confirming /\ Finalist /\ c = Candidate
RowsKnown ==
    search.pc \in InCell =>
        \A c \in DOMAIN search.rows \cap DOMAIN Rows :
            (Rows[c].full /\ Rows[c].correct /\ ~ InTrial(c)) =>
                /\ search.rows[c].full /\ search.rows[c].correct
                /\ search.rows[c].samples >= Rows[c].samples

\* What a cell calls complete is in the journal.
Backed(cell) ==
    cell.complete =>
        \A c \in Members(cell.order) :
            c \in DOMAIN Rows /\ (cell.status[c] = "measured" => Settled(Rows[c]))
AllBacked(cells) == \A i \in DOMAIN cells : Backed(cells[i])
CellsTrue ==
    /\ coverage # Absent => AllBacked(coverage.cells)
    /\ Started => AllBacked(search.done) /\ AllBacked(search.previous)
    /\ search.pc = "close" =>
          \A c \in Members(search.cell.order) : c \in DOMAIN Rows /\ Rows[c] = search.rows[c]

SearchInv ==
    FilesOK /\ SearchOK /\ CellNow /\ Kept /\ AuditFirst /\ RowsKnown /\ CellsTrue

----------------------------------------------------------------------------
(* The programs and their children.                                        *)

\* How a calibration or an installation ended; what the tuner remembers.
IsExit(end) == DOMAIN end = {"pc", "code", "cause"} /\ end.pc = "exit" /\ end.code \in {0, 1}
IsState(state) ==
    /\ DOMAIN state = {"status", "completed", "next", "expired"}
    /\ state.completed \in 0..MaxRounds /\ state.next \in Nat /\ state.expired \in BOOLEAN
Round == {"round", "run", "wait"}

\* The tuner's own state and the file it saves it in.
TunerOK ==
    /\ setbacks \in 0..MaxSetbacks /\ build \in Nat
    /\ tuner # Absent => IsState(tuner)
    /\ tun = Out \/ tun \in [pc : Round \cup {"close"}, watch : BOOLEAN, late : BOOLEAN]
    /\ tun # Out => tuner # Absent
    /\ tun.pc \in Round => tuner.completed < MaxRounds
    /\ DOMAIN migration = {"status", "full"} /\ migration.full \in BOOLEAN

Installing == {"child", "wait", "replay", "note", "grade"}
\* An installation is waited for by an invocation of the tuner.
MigrationOK ==
    /\ \/ mig = Out
       \/ mig \in [pc : Installing, budget : Nat]
       \/ IsExit(mig)
    /\ mig # Out => tun # Out /\ tun.pc = "wait"

Before == {"device", "write-device", "stages", "identity"}
Measured == {"incumbents", "search", "output", "model", "promote", "publish", "manifest"}
\* A calibration is waited for by an installation, a search by a calibration; and a
\* calibration has the registry's lock exactly between its read and its rename.
CalibrationOK ==
    /\ \/ cal = Out
       \/ cal \in [pc : Before, build : Nat, budget : Nat, full : BOOLEAN]
       \/ /\ DOMAIN cal = {"pc", "build", "budget", "full", "rows", "next"}
          /\ cal.pc \in Measured /\ cal.budget \in Nat /\ cal.next \in Nat \ {0}
       \/ IsExit(cal)
    /\ cal # Out => mig # Out /\ mig.pc = "wait"
    /\ search # Idle => cal.pc = "search"
    /\ Promoting \in held <=> cal.pc = "publish"

\* The rows of the incumbents are of full trials, and there is one of each when the
\* search begins.
IncumbentRows(rows) ==
    /\ IsRows(rows, Name)
    /\ \A w \in Members(Workloads) : IncumbentOf[w] \in DOMAIN rows => rows[IncumbentOf[w]].full
IncumbentsOK ==
    /\ cal.pc \in Measured => IncumbentRows(cal.rows)
    /\ cal.pc = "incumbents" =>
          \A k \in 1..(cal.next - 1) :
              k <= Len(Workloads) /\ IncumbentOf[Workloads[k]] \in DOMAIN cal.rows
    /\ cal.pc = "search" => \A w \in Members(Workloads) : IncumbentOf[w] \in DOMAIN cal.rows
    /\ operator \notin {Absent, Torn} =>
          DOMAIN operator = {"rows"} /\ IncumbentRows(operator.rows)

----------------------------------------------------------------------------
(* From the rows of a calibration to the registry.                         *)

Listed(rows) == {c \in DOMAIN rows : rows[c].status = "measured" /\ rows[c].correct}
Registered(records, c) ==
    LET id == <<Hardware, DesignOf[c]>>
    IN id \in DOMAIN records /\ records[id].work = WorkOf[c] /\ records[id].samples >= Trials
AllRegistered(records, rows) == \A c \in Listed(rows) : Registered(records, c)

\* Every mapping the audit and the journal confirm is among the rows, as it is in the journal.
AuditListed(rows) ==
    \A w \in Members(Workloads) : \A c \in SearchConfirmed(w) :
        c \in DOMAIN rows /\ rows[c] = journal[c]

\* From the end of a calibration that went well to the grade.
Succeeded == (cal.pc = "exit" /\ cal.code = 0) \/ mig.pc \in {"replay", "note", "grade"}

\* The audit on disk is that of the search that has ended.
AuditIsDone == search.pc = "done" => coverage # Absent /\ coverage.cells = search.done

Behind == {"output", "model", "promote", "publish", "manifest"}

\* The rows of the calibration go from the search to operator_calibration.json, into the
\* copy of the registry, and into the registry.
RowsInstalled ==
    /\ cal.pc \in Behind => AuditListed(cal.rows)
    /\ cal.pc \in Behind \ {"output"} => operator = [rows |-> cal.rows]
    /\ cal.pc = "publish" => AllRegistered(document[Promoting], cal.rows)
    /\ cal.pc = "manifest" => AllRegistered(registry, cal.rows)
    /\ Succeeded =>
          /\ operator \notin {Absent, Torn}
          /\ AuditListed(operator.rows) /\ AllRegistered(registry, operator.rows)

\* The copy of another GPU's promoter has the records of this GPU as they are.
PeersCopy ==
    \A p \in held \ {Promoting} : \A id \in DOMAIN registry :
        id[1] = Hardware => id \in DOMAIN document[p] /\ document[p][id] = registry[id]

HasRecord(w) ==
    \E id \in DOMAIN registry :
        id[1] = Hardware /\ registry[id].work = w /\ registry[id].samples >= Trials
AllInstalled == \A w \in Members(Workloads) : HasRecord(w)

\* What is called complete is installed, and an invocation that runs has called nothing
\* complete.
GradeTrue ==
    /\ (mig.pc = "exit" /\ mig.code = 0 /\ migration.status = "complete") => AllInstalled
    /\ (tuner # Absent /\ tuner.status = "complete") => tun = Out /\ AllInstalled

InstallInv == AuditIsDone /\ RowsInstalled /\ PeersCopy /\ GradeTrue
SessionInv == TunerOK /\ MigrationOK /\ CalibrationOK /\ IncumbentsOK
----------------------------------------------------------------------------
(* Documents, rows and orders.                                             *)

USE DEF Status

LEMMA OverFacts ==
    ASSUME NEW f, NEW g
    PROVE  /\ DOMAIN (f ++ g) = DOMAIN f \cup DOMAIN g
           /\ \A x \in DOMAIN f : (f ++ g)[x] = f[x]
           /\ \A x \in DOMAIN g : x \notin DOMAIN f => (f ++ g)[x] = g[x]
BY DEF ++

LEMMA EntryFacts ==
    ASSUME NEW c, NEW row
    PROVE  DOMAIN Entry(c, row) = {c} /\ Entry(c, row)[c] = row
BY DEF Entry

LEMMA OverRows ==
    ASSUME NEW S, NEW f, NEW g, IsRows(f, S), IsRows(g, S)
    PROVE  IsRows(f ++ g, S)
<1>. DEFINE h == f ++ g
<1>1. /\ DOMAIN h = DOMAIN f \cup DOMAIN g
      /\ \A x \in DOMAIN f : h[x] = f[x]
      /\ \A x \in DOMAIN g : x \notin DOMAIN f => h[x] = g[x]
  BY OverFacts
<1>. HIDE DEF h
<1>2. DOMAIN h \subseteq S
  BY <1>1 DEF IsRows
<1>3. ASSUME NEW c \in DOMAIN h PROVE RowOK(h[c])
  <2>1. CASE c \in DOMAIN f
    <3>1. RowOK(f[c])
      BY <2>1 DEF IsRows
    <3>. QED
      BY <1>1, <2>1, <3>1
  <2>2. CASE c \notin DOMAIN f
    <3>1. RowOK(g[c]) /\ h[c] = g[c]
      BY <1>1, <1>3, <2>2 DEF IsRows
    <3>. QED
      BY <3>1
  <2>. QED
    BY <2>1, <2>2
<1>. QED
  BY <1>2, <1>3 DEF IsRows, h

LEMMA EntryRows ==
    ASSUME NEW S, NEW c \in S, NEW row, RowOK(row)
    PROVE  IsRows(Entry(c, row), S)
<1>. DEFINE e == Entry(c, row)
<1>1. DOMAIN e = {c} /\ e[c] = row
  BY EntryFacts
<1>. HIDE DEF e
<1>2. \A d \in DOMAIN e : RowOK(e[d])
  BY <1>1
<1>. QED
  BY <1>1, <1>2 DEF IsRows, e

LEMMA EmptyRows ==
    ASSUME NEW S PROVE IsRows(Empty, S) /\ DOMAIN Empty = {}
BY DEF Empty, IsRows

LEMMA WiderRows ==
    ASSUME NEW S, NEW T, S \subseteq T, NEW f, IsRows(f, S)
    PROVE  IsRows(f, T)
BY DEF IsRows

LEMMA StatusEntry ==
    ASSUME NEW s \in Statuses, NEW c \in Candidates, NEW v \in Status
    PROVE  /\ Entry(c, v) ++ s \in Statuses
           /\ DOMAIN (Entry(c, v) ++ s) = {c} \cup DOMAIN s
<1>1. PICK D \in SUBSET Candidates : s \in [D -> Status]
  BY DEF Statuses
<1>2. Entry(c, v) ++ s \in [{c} \cup D -> Status]
  BY <1>1 DEF ++, Entry
<1>3. {c} \cup D \in SUBSET Candidates
  BY <1>1
<1>. QED
  BY <1>1, <1>2, <1>3 DEF Statuses

LEMMA StatusRows ==
    ASSUME NEW D \in SUBSET Candidates, NEW f, \A c \in D : f[c].status \in Status
    PROVE  /\ [c \in D |-> f[c].status] \in Statuses
           /\ DOMAIN [c \in D |-> f[c].status] = D
<1>1. [c \in D |-> f[c].status] \in [D -> Status]
  OBVIOUS
<1>. QED
  BY <1>1 DEF Statuses

LEMMA RowStatus ==
    ASSUME NEW row, RowOK(row), NEW v \in Status, v # "measured"
    PROVE  /\ RowOK([row EXCEPT !.status = v])
           /\ LET new == [row EXCEPT !.status = v]
              IN /\ new.status = v /\ new.full = row.full /\ new.correct = row.correct
                 /\ new.samples = row.samples
BY DEF RowOK, RowSet

LEMMA NewRow ==
    ASSUME NEW full \in BOOLEAN, NEW samples \in Nat, NEW correct \in BOOLEAN, NEW v \in Status,
           v # "measured"
    PROVE  /\ RowOK(Row(full, samples, correct, v))
           /\ LET row == Row(full, samples, correct, v)
              IN row.full = full /\ row.samples = samples /\ row.correct = correct /\ row.status = v
BY DEF RowOK, RowSet, Row

LEMMA AppendFacts ==
    ASSUME NEW S, NEW s \in Seq(S), NEW c \in S
    PROVE  /\ Append(s, c) \in Seq(S)
           /\ Members(Append(s, c)) = Members(s) \cup {c}
           /\ Len(Append(s, c)) = Len(s) + 1
           /\ DOMAIN Append(s, c) = DOMAIN s \cup {Len(s) + 1}
           /\ \A i \in DOMAIN s : Append(s, c)[i] = s[i]
           /\ Append(s, c)[Len(s) + 1] = c
<1>1. /\ Append(s, c) \in Seq(S)
      /\ Len(Append(s, c)) = Len(s) + 1
      /\ \A i \in 1..Len(s) : Append(s, c)[i] = s[i]
      /\ Append(s, c)[Len(s) + 1] = c
      /\ Len(s) \in Nat /\ DOMAIN s = 1..Len(s)
  OBVIOUS
<1>2. DOMAIN Append(s, c) = 1..(Len(s) + 1)
  BY <1>1
<1>3. DOMAIN Append(s, c) = DOMAIN s \cup {Len(s) + 1}
  BY <1>1, <1>2
<1>. QED
  BY <1>1, <1>3 DEF Members

LEMMA AtFacts ==
    ASSUME NEW S, NEW s \in Seq(S), NEW n \in Nat
    PROVE  /\ At(s, n) \in Seq(S)
           /\ Members(At(s, n)) \subseteq Members(s)
           /\ Len(At(s, n)) = IF n < Len(s) THEN n ELSE Len(s)
           /\ \A c \in Members(At(s, n)) : \E i \in 1..n : i <= Len(s) /\ s[i] = c
<1>. DEFINE m == IF n < Len(s) THEN n ELSE Len(s)
<1>1. m \in Nat /\ m <= Len(s) /\ m <= n /\ Len(s) \in Nat
  OBVIOUS
<1>2. At(s, n) = SubSeq(s, 1, m)
  BY DEF At
<1>. HIDE DEF m
<1>3. \A i \in 1..m : i \in 1..Len(s)
  BY <1>1
<1>4. /\ SubSeq(s, 1, m) \in Seq(S)
      /\ Len(SubSeq(s, 1, m)) = m
      /\ \A i \in 1..m : SubSeq(s, 1, m)[i] = s[i]
  BY <1>1, <1>3, SubSeqProperties
<1>5. DOMAIN SubSeq(s, 1, m) = 1..m
  BY <1>4
<1>6. \A c \in Members(At(s, n)) : \E i \in 1..n : i <= Len(s) /\ s[i] = c
  BY <1>1, <1>2, <1>4, <1>5 DEF Members
<1>7. Members(At(s, n)) \subseteq Members(s)
  BY <1>1, <1>2, <1>4, <1>5 DEF Members
<1>. QED
  BY <1>2, <1>4, <1>6, <1>7 DEF m

LEMMA MembersFinite ==
    ASSUME NEW S, NEW s \in Seq(S)
    PROVE  /\ IsFiniteSet(Members(s)) /\ Members(s) \subseteq S
           /\ s \in Seq(Members(s))
<1>1. DOMAIN s = 1..Len(s) /\ Len(s) \in Nat /\ \A i \in DOMAIN s : s[i] \in S
  OBVIOUS
<1>2. IsFiniteSet(1..Len(s))
  BY <1>1, FS_Interval
<1>3. s \in Surjection(1..Len(s), Members(s))
  <2>1. s \in [1..Len(s) -> Members(s)]
    BY <1>1 DEF Members
  <2>. QED
    BY <1>1, <2>1 DEF Surjection, Members
<1>4. IsFiniteSet(Members(s))
  BY <1>2, <1>3, FS_Surjection
<1>5. s \in [1..Len(s) -> Members(s)]
  BY <1>1 DEF Members
<1>6. s \in Seq(Members(s))
  BY <1>1, <1>5
<1>. QED
  BY <1>1, <1>4, <1>6 DEF Members

\* A list of a finite set, as SetToSeq makes one.
LEMMA ListFacts ==
    ASSUME NEW S, IsFiniteSet(S)
    PROVE  SetToSeq(S) \in Seq(S) /\ Members(SetToSeq(S)) \subseteq S
<1>. DEFINE n == Cardinality(S)
<1>1. n \in Nat
  BY FS_CardinalityType
<1>2. ExistsBijection(1..n, S)
  BY FS_CardinalityType
<1>3. \E f \in [1..n -> S] : IsInjective(f)
  BY <1>2 DEF ExistsBijection, Bijection, Injection, IsInjective
<1>4. SetToSeq(S) \in [1..n -> S]
  BY <1>3 DEF SetToSeq
<1>5. SetToSeq(S) \in Seq(S) /\ DOMAIN SetToSeq(S) = 1..n
  BY <1>1, <1>4
<1>. QED
  BY <1>4, <1>5 DEF Members

----------------------------------------------------------------------------
(* The journal.                                                            *)

LEMMA AbsentIsNoRows ==
    ASSUME NEW rows, IsRows(rows, Candidates) PROVE rows # Absent
<1>1. DOMAIN Absent = {"file"}
  BY DEF Absent
<1>. QED
  BY <1>1, SearchAssumption DEF IsRows

\* What the journal is after a write.
LEMMA SaveFacts ==
    ASSUME FilesOK, SearchOK, Kept, Started, NEW rows, IsRows(rows, Candidates), SaveRows(rows)
    PROVE  /\ journal' # Absent /\ Rows' = journal' /\ IsRows(Rows', Candidates)
           /\ DOMAIN rows \subseteq DOMAIN Rows' /\ \A c \in DOMAIN rows : Rows'[c] = rows[c]
           /\ \A c \in DOMAIN Rows' : c \notin DOMAIN rows =>
                  search.kept /\ c \in DOMAIN Rows /\ Rows'[c] = Rows[c]
           /\ search.kept => DOMAIN Rows \subseteq DOMAIN Rows'
<1>1. search.kept \in BOOLEAN /\ IsRows(Rows, Candidates)
  BY DEF FilesOK, SearchOK, Started
<1>2. /\ search.kept => Retained = Rows
      /\ ~ search.kept => Retained = Empty
  BY DEF Kept, FilesOK, Retained
<1>3. IsRows(Retained, Candidates)
  BY <1>1, <1>2, EmptyRows
<1>4. journal' = rows ++ Retained
  BY DEF SaveRows
<1>5. IsRows(journal', Candidates)
  BY <1>3, <1>4, OverRows
<1>6. journal' # Absent
  BY <1>5, AbsentIsNoRows
<1>7. Rows' = journal'
  BY <1>6 DEF Rows
<1>8. /\ DOMAIN journal' = DOMAIN rows \cup DOMAIN Retained
      /\ \A x \in DOMAIN rows : journal'[x] = rows[x]
      /\ \A x \in DOMAIN Retained : x \notin DOMAIN rows => journal'[x] = Retained[x]
  BY <1>4 DEF ++
<1>9. ~ search.kept => DOMAIN Retained = {}
  BY <1>2, EmptyRows
<1>. QED
  BY <1>1, <1>2, <1>5, <1>6, <1>7, <1>8, <1>9

LEMMA RetainedFacts ==
    ASSUME FilesOK, SearchOK, Kept, Started
    PROVE  /\ IsRows(Retained, Candidates)
           /\ \A c \in DOMAIN Retained : search.kept /\ c \in DOMAIN Rows /\ Retained[c] = Rows[c]
           /\ search.kept => Retained = Rows
<1>1. search.kept \in BOOLEAN /\ IsRows(Rows, Candidates)
  BY DEF FilesOK, SearchOK, Started
<1>2. /\ search.kept => Retained = Rows
      /\ ~ search.kept => Retained = Empty
  BY DEF Kept, FilesOK, Retained
<1>. QED
  BY <1>1, <1>2, EmptyRows

\* What a write must not do to a row of full trials.
Sound(rows) ==
    \A c \in DOMAIN rows \cap DOMAIN Rows :
        (Rows[c].full /\ Rows[c].correct) =>
            \/ rows[c].full /\ rows[c].correct /\ rows[c].samples >= Rows[c].samples
            \/ ~ rows[c].correct /\ Rows[c].samples < Trials

\* Rows that are settled stay settled, those of full trials do not lose them.
EvidenceStep ==
    \A c \in DOMAIN Rows :
        (Rows[c].full /\ Rows[c].correct) =>
            /\ c \in DOMAIN Rows'
            /\ \/ Rows'[c].full /\ Rows'[c].samples >= Rows[c].samples
               \/ ~ Rows'[c].correct
SettledStep ==
    \A c \in DOMAIN Rows : Settled(Rows[c]) => c \in DOMAIN Rows' /\ Settled(Rows'[c])

LEMMA SaveSound ==
    ASSUME FilesOK, SearchOK, Kept, Started, NEW rows, IsRows(rows, Candidates), SaveRows(rows),
           Sound(rows)
    PROVE  EvidenceStep /\ SettledStep
<1>1. /\ DOMAIN rows \subseteq DOMAIN Rows' /\ \A c \in DOMAIN rows : Rows'[c] = rows[c]
      /\ \A c \in DOMAIN Rows' : c \notin DOMAIN rows =>
              search.kept /\ c \in DOMAIN Rows /\ Rows'[c] = Rows[c]
      /\ search.kept => DOMAIN Rows \subseteq DOMAIN Rows'
  BY SaveFacts
<1>2. ~ search.kept => Bare(Rows)
  BY DEF Kept
<1>3. Trials \in Nat
  BY SearchAssumption
<1>4. \A c \in DOMAIN Rows : Rows[c].samples \in Nat
  BY DEF FilesOK, IsRows, RowOK, RowSet
<1>5. \A c \in DOMAIN rows : rows[c].samples \in Nat
  BY DEF IsRows, RowOK, RowSet
<1>6. ASSUME NEW c \in DOMAIN Rows, Rows[c].full, Rows[c].correct
      PROVE  /\ c \in DOMAIN Rows'
             /\ \/ Rows'[c].full /\ Rows'[c].correct /\ Rows'[c].samples >= Rows[c].samples
                \/ ~ Rows'[c].correct /\ Rows[c].samples < Trials
             /\ Rows'[c].samples \in Nat
  <2>1. search.kept
    BY <1>2, <1>6 DEF Bare
  <2>2. CASE c \in DOMAIN rows
    BY <1>1, <1>5, <1>6, <2>2 DEF Sound
  <2>3. CASE c \notin DOMAIN rows
    BY <1>1, <1>4, <1>6, <2>1, <2>3
  <2>. QED
    BY <2>2, <2>3
<1>7. EvidenceStep
  BY <1>6 DEF EvidenceStep
<1>8. SettledStep
  BY <1>3, <1>4, <1>6 DEF SettledStep, Settled
<1>. QED
  BY <1>7, <1>8

LEMMA NoSave ==
    ASSUME FilesOK, UNCHANGED journal PROVE Rows' = Rows /\ EvidenceStep /\ SettledStep
<1>1. Rows' = Rows
  BY DEF Rows
<1>2. \A c \in DOMAIN Rows : Rows[c].samples \in Nat
  BY DEF FilesOK, IsRows, RowOK, RowSet
<1>. QED
  BY <1>1, <1>2 DEF EvidenceStep, SettledStep

\* What a cell has is backed as long as settled rows stay and no row is dropped.
LEMMA BackedStays ==
    ASSUME SettledStep, DOMAIN Rows \subseteq DOMAIN Rows', NEW cell, Backed(cell)
    PROVE  Backed(cell)'
BY DEF SettledStep, Backed

LEMMA EmptyBacked ==
    ASSUME NEW cell, cell.complete => cell.order = << >>
    PROVE  Backed(cell) /\ Backed(cell)'
BY DEF Backed, Members

----------------------------------------------------------------------------
(* The steps of the search.                                                *)

FilesSame == UNCHANGED <<coverage, journal, snapshot>>

LEMMA FilesStay == ASSUME FilesOK, FilesSame PROVE FilesOK' /\ Rows' = Rows
BY DEF FilesOK, FilesSame, Rows

\* A search that ends, in whatever way, leaves the files.
LEMMA SearchEnds ==
    ASSUME SearchInv, FilesSame,
           search' = Idle \/ \E cause : search' = [pc |-> "raised", cause |-> cause]
    PROVE  SearchInv'
<1>1. FilesOK' /\ Rows' = Rows
  BY FilesStay DEF SearchInv
<1>2. "pc" \in DOMAIN search' /\ search'.pc \in {"idle", "raised"}
      /\ (search'.pc = "idle" => search' = Idle)
      /\ (search'.pc = "raised" => "cause" \in DOMAIN search')
  BY DEF Idle
<1>3. search'.pc \notin InSearch /\ search'.pc \notin InCell /\ search'.pc \notin {"save", "screen", "confirm", "close"}
  BY <1>2 DEF InSearch, InCell
<1>4. SearchOK' /\ CellNow'
  BY <1>2, <1>3 DEF SearchOK, CellNow
<1>5. Kept' /\ AuditFirst' /\ RowsKnown'
  BY <1>1, <1>3 DEF SearchInv, Kept, AuditFirst, RowsKnown, Started, FilesSame, Bare
<1>6. CellsTrue'
  <2>1. coverage # Absent => \A i \in DOMAIN coverage.cells : Backed(coverage.cells[i])
    BY DEF SearchInv, CellsTrue, AllBacked
  <2>2. ASSUME NEW cell, Backed(cell) PROVE Backed(cell)'
    BY <1>1, <2>2 DEF Backed
  <2>. QED
    BY <1>3, <2>1, <2>2 DEF CellsTrue, AllBacked, Started, FilesSame
<1>. QED
  BY <1>1, <1>4, <1>5, <1>6 DEF SearchInv

\* What a step within a cell keeps.
SameSearch ==
    /\ DOMAIN search \subseteq DOMAIN search'
    /\ search'.build = search.build /\ search'.protocol = search.protocol
    /\ search'.at = search.at /\ search'.done = search.done /\ search'.previous = search.previous

LEMMA SameOK ==
    ASSUME SearchOK, Started, SameSearch, search'.kept \in BOOLEAN, search'.pc \in InSearch
    PROVE  SearchOK' /\ Work' = Work /\ Started'
<1>1. "pc" \in DOMAIN search' /\ search'.pc \in InSearch \cup {"idle", "raised"}
      /\ search'.pc # "idle" /\ search'.pc # "raised"
  BY DEF SearchOK, SameSearch, InSearch, InCell
<1>2. Work' = Work /\ Started'
  BY DEF Work, SameSearch, Started
<1>. QED
  BY <1>1, <1>2 DEF SearchOK, SameSearch, Started

LEMMA WorkFacts ==
    ASSUME SearchOK, Started, search.at <= Len(Workloads)
    PROVE  /\ Work \in Members(Workloads)
           /\ Chosen \in Seq(Candidates) /\ Members(Chosen) \subseteq CandidateOf(Work)
           /\ Unseeded \subseteq CandidateOf(Work) /\ IsFiniteSet(Unseeded)
           /\ Requested \in Nat
<1>1. Workloads \in Seq(Members(Workloads)) /\ search.at \in 1..Len(Workloads)
  BY SearchAssumption DEF SearchOK, Started
<1>2. Work \in Members(Workloads)
  BY <1>1 DEF Work, Members
<1>3. search.protocol.seeds \in SeedSet /\ search.protocol.budget \in Nat
  BY DEF SearchOK, Started
<1>4. search.protocol.seeds[Work] \in Seq(Candidates)
      /\ Members(search.protocol.seeds[Work]) \subseteq CandidateOf(Work)
  BY <1>2, <1>3 DEF SeedSet
<1>5. Chosen \in Seq(Candidates) /\ Members(Chosen) \subseteq CandidateOf(Work)
  BY <1>4, AtFacts, SearchAssumption DEF Chosen
<1>6. Inventory[Work] \in Seq(Candidates)
  BY <1>2, SearchAssumption
<1>7. IsFiniteSet(Members(Inventory[Work])) /\ Members(Inventory[Work]) \subseteq CandidateOf(Work)
  BY <1>2, <1>6, MembersFinite, CalibrationAssumption DEF CandidateOf
<1>8. Unseeded \subseteq Members(Inventory[Work])
  BY DEF Unseeded
<1>9. IsFiniteSet(Unseeded)
  BY <1>7, <1>8, FS_Subset
<1>10. Cardinality(Unseeded) \in Nat /\ Len(Chosen) \in Nat
  BY <1>5, <1>9, FS_CardinalityType
<1>11. Requested \in Nat
  BY <1>3, <1>10 DEF Requested
<1>. QED
  BY <1>2, <1>5, <1>7, <1>8, <1>9, <1>11

\* A step that turns to the next thing to do in a cell and changes no file or row.
LEMMA TurnKeeps ==
    ASSUME SearchInv, FilesSame, search.pc \in InCell \ {"audit", "confirm"},
           SameSearch, search'.kept = search.kept,
           search'.rows = search.rows,
           search'.cell = search.cell \/ search'.cell = [search.cell EXCEPT !.stop = TRUE],
           search'.pc \in {"select", "screen", "rank", "confirm"},
           search'.pc = "screen" => "cur" \in DOMAIN search' /\ search'.cur \in CandidateOf(Work),
           search'.pc = "confirm" =>
              {"finalists", "next"} \subseteq DOMAIN search' /\ search'.next \in Nat \ {0},
           search.pc # "close"
    PROVE  SearchInv'
<1>1. FilesOK' /\ Rows' = Rows
  BY FilesStay DEF SearchInv
<1>2. search.pc \in InCell /\ search'.pc \in InCell /\ Started
      /\ search'.pc \notin {"audit", "close"} /\ search.pc \notin {"audit", "close"}
  BY DEF InCell, InSearch, Started
<1>3. SearchOK' /\ Work' = Work /\ Started'
  BY <1>2, SameOK DEF SearchInv, SearchOK, Started, InSearch
<1>4. /\ {"cell", "rows"} \subseteq DOMAIN search
      /\ search.at <= Len(Workloads)
      /\ CellOK(search.cell) /\ search.cell.work = Work /\ ~ search.cell.complete
      /\ IsRows(search.rows, CandidateOf(Work))
      /\ DOMAIN search.rows = Members(search.cell.order)
      /\ \A c \in DOMAIN search.rows : search.cell.status[c] = search.rows[c].status
  BY <1>2 DEF SearchInv, CellNow
<1>5. CellOK(search'.cell) /\ search'.cell.work = Work /\ ~ search'.cell.complete
      /\ search'.cell.order = search.cell.order /\ search'.cell.status = search.cell.status
  BY <1>4 DEF CellOK, CellSet
<1>6. CellNow'
  BY <1>3, <1>4, <1>5, <1>2 DEF CellNow, SameSearch
<1>7. Kept'
  BY <1>1, <1>2, <1>3 DEF SearchInv, Kept, FilesSame, SameSearch, Bare, Started
<1>8. AuditFirst'
  BY <1>1, <1>2, <1>5 DEF SearchInv, AuditFirst, FilesSame, Bare, Started, InSearch
<1>9. RowsKnown'
  <2>1. \A c : ~ InTrial(c)
    BY DEF InTrial, Confirming
  <2>. QED
    BY <1>1, <1>2, <2>1 DEF SearchInv, RowsKnown
<1>10. CellsTrue'
  <2>1. ASSUME NEW cell, Backed(cell) PROVE Backed(cell)'
    BY <1>1, <2>1 DEF Backed
  <2>. QED
    BY <1>2, <1>3, <2>1 DEF SearchInv, CellsTrue, AllBacked, FilesSame, SameSearch, Started
<1>. QED
  BY <1>1, <1>3, <1>6, <1>7, <1>8, <1>9, <1>10 DEF SearchInv

LEMMA CellFacts ==
    ASSUME SearchInv, search.pc \in InCell
    PROVE  /\ Started /\ {"cell", "rows"} \subseteq DOMAIN search
           /\ search.at <= Len(Workloads)
           /\ CellOK(search.cell) /\ search.cell.work = Work /\ ~ search.cell.complete
           /\ Screened \in Seq(Candidates) /\ Members(Screened) \subseteq CandidateOf(Work)
           /\ IsRows(search.rows, CandidateOf(Work)) /\ IsRows(search.rows, Candidates)
           /\ DOMAIN search.rows = Members(Screened)
           /\ \A c \in DOMAIN search.rows : search.cell.status[c] = search.rows[c].status
<1>1. /\ {"cell", "rows"} \subseteq DOMAIN search
      /\ search.at <= Len(Workloads)
      /\ CellOK(search.cell) /\ search.cell.work = Work /\ ~ search.cell.complete
      /\ IsRows(search.rows, CandidateOf(Work))
      /\ DOMAIN search.rows = Members(search.cell.order)
      /\ \A c \in DOMAIN search.rows : search.cell.status[c] = search.rows[c].status
  BY DEF SearchInv, CellNow
<1>2. CandidateOf(Work) \subseteq Candidates
  BY DEF CandidateOf
<1>3. IsRows(search.rows, Candidates)
  BY <1>1, <1>2, WiderRows
<1>4. Screened \in Seq(Candidates) /\ Members(Screened) \subseteq CandidateOf(Work)
  BY <1>1 DEF CellOK, CellSet, Screened
<1>. QED
  BY <1>1, <1>3, <1>4 DEF Screened, Started, InSearch

LEMMA EligibleFacts ==
    ASSUME SearchInv, search.pc \in InCell PROVE Eligible \subseteq CandidateOf(Work)
<1>1. /\ Started /\ search.at <= Len(Workloads)
      /\ Screened \in Seq(Candidates) /\ Members(Screened) \subseteq CandidateOf(Work)
  BY CellFacts
<1>2. /\ Chosen \in Seq(Candidates) /\ Members(Chosen) \subseteq CandidateOf(Work)
      /\ Unseeded \subseteq CandidateOf(Work)
  BY <1>1, WorkFacts DEF SearchInv
<1>3. Remaining \subseteq CandidateOf(Work)
  BY <1>2 DEF Remaining
<1>4. Sources \subseteq CandidateOf(Work)
  BY <1>1, <1>3 DEF Sources, Correct
<1>5. \A c \in CandidateOf(Work) : Neighbours[c] \subseteq CandidateOf(Work)
  BY SearchAssumption, CalibrationAssumption DEF CandidateOf
<1>6. Proposals \subseteq CandidateOf(Work)
  BY <1>3, <1>4, <1>5 DEF Proposals
<1>7. ASSUME IsSeed PROVE Chosen[Len(Screened) + 1] \in CandidateOf(Work)
  <2>1. Len(Screened) \in Nat /\ Len(Chosen) \in Nat /\ DOMAIN Chosen = 1..Len(Chosen)
    BY <1>1, <1>2
  <2>2. Len(Screened) + 1 \in DOMAIN Chosen
    BY <1>7, <2>1 DEF IsSeed
  <2>. QED
    BY <1>2, <2>2 DEF Members
<1>. QED
  BY <1>3, <1>6, <1>7 DEF Eligible

LEMMA SelectKeeps == ASSUME SearchInv, Select PROVE SearchInv'
<1>1. PICK c \in Eligible : search' = [cur |-> c] ++ [search EXCEPT !.pc = "screen"]
  BY DEF Select
<1>2. search.pc = "select" /\ search.pc \in InCell /\ Started /\ FilesSame
  BY DEF Select, FilesSame, InCell, Started, InSearch
<1>3. "pc" \in DOMAIN search /\ SearchFields \subseteq DOMAIN search
      /\ {"cell", "rows"} \subseteq DOMAIN search
  BY <1>2, CellFacts DEF SearchInv, SearchOK
<1>4. c \in CandidateOf(Work)
  BY <1>2, EligibleFacts
<1>5. /\ DOMAIN search' = DOMAIN search \cup {"cur"} /\ search'.cur = c /\ search'.pc = "screen"
      /\ \A f \in DOMAIN search \ {"pc", "cur"} : search'[f] = search[f]
  BY <1>1, <1>3 DEF ++
<1>6. SameSearch /\ search'.kept = search.kept /\ search'.rows = search.rows
      /\ search'.cell = search.cell
  BY <1>3, <1>5 DEF SameSearch, SearchFields
<1>. QED
  BY <1>2, <1>4, <1>5, <1>6, TurnKeeps

LEMMA StopKeeps == ASSUME SearchInv, StopScreening PROVE SearchInv'
<1>1. search.pc = "select" /\ search.pc \in InCell /\ Started /\ FilesSame
      /\ search' = [search EXCEPT !.cell.stop = TRUE, !.pc = "rank"]
  BY DEF StopScreening, FilesSame, InCell, Started, InSearch
<1>2. "pc" \in DOMAIN search /\ SearchFields \subseteq DOMAIN search
      /\ {"cell", "rows"} \subseteq DOMAIN search
  BY <1>1, CellFacts DEF SearchInv, SearchOK
<1>3. /\ DOMAIN search' = DOMAIN search /\ search'.pc = "rank"
      /\ search'.cell = [search.cell EXCEPT !.stop = TRUE]
      /\ \A f \in DOMAIN search \ {"pc", "cell"} : search'[f] = search[f]
  BY <1>1, <1>2
<1>4. SameSearch /\ search'.kept = search.kept /\ search'.rows = search.rows
  BY <1>2, <1>3 DEF SameSearch, SearchFields
<1>. QED
  BY <1>1, <1>3, <1>4, TurnKeeps

LEMMA RankKeeps == ASSUME SearchInv, Rank PROVE SearchInv'
<1>1. search.pc \in {"rank", "select"} /\ search.pc \in InCell /\ Started /\ FilesSame
      /\ search' = [finalists |-> FinalistSet, next |-> 1] ++ [search EXCEPT !.pc = "confirm"]
  BY DEF Rank, FilesSame, InCell, Started, InSearch
<1>2. "pc" \in DOMAIN search /\ SearchFields \subseteq DOMAIN search
      /\ {"cell", "rows"} \subseteq DOMAIN search
  BY <1>1, CellFacts DEF SearchInv, SearchOK
<1>3. /\ DOMAIN search' = DOMAIN search \cup {"finalists", "next"}
      /\ search'.next = 1 /\ search'.pc = "confirm"
      /\ \A f \in DOMAIN search \ {"pc", "finalists", "next"} : search'[f] = search[f]
  BY <1>1, <1>2 DEF ++
<1>4. SameSearch /\ search'.kept = search.kept /\ search'.rows = search.rows
      /\ search'.cell = search.cell
  BY <1>2, <1>3 DEF SameSearch, SearchFields
<1>. QED
  BY <1>1, <1>3, <1>4, TurnKeeps

\* What is noted of a candidate that was screened.
Noted(row) ==
    /\ SameSearch /\ search'.pc = "audit" /\ search'.kept \in BOOLEAN
    /\ search'.rows = Entry(search.cur, row) ++ search.rows
    /\ search'.cell.order = Append(Screened, search.cur)
    /\ CellOK(search'.cell) /\ search'.cell.work = Work /\ ~ search'.cell.complete
    /\ search'.cell.status = Entry(search.cur, row.status) ++ search.cell.status

LEMMA NoteFacts ==
    ASSUME SearchInv, search.pc = "screen", NEW row, RowOK(row),
           \/ search' = Note(search.cur, row)
           \/ search' = [Note(search.cur, row) EXCEPT !.kept = TRUE]
    PROVE  /\ Noted(row)
           /\ search' = Note(search.cur, row) => search'.kept = search.kept
           /\ search' # Note(search.cur, row) => search'.kept = TRUE
<1>1. /\ search.pc \in InCell /\ "pc" \in DOMAIN search /\ SearchFields \subseteq DOMAIN search
      /\ search.kept \in BOOLEAN /\ search.cur \in CandidateOf(Work)
  BY DEF SearchInv, SearchOK, CellNow, InCell, InSearch
<1>2. /\ {"cell", "rows"} \subseteq DOMAIN search
      /\ CellOK(search.cell) /\ search.cell.work = Work /\ ~ search.cell.complete
      /\ Screened \in Seq(Candidates) /\ Members(Screened) \subseteq CandidateOf(Work)
      /\ search.cell.order = Screened
  BY <1>1, CellFacts DEF Screened
<1>. DEFINE c == search.cur
            cell == [search.cell EXCEPT !.order = Append(search.cell.order, c),
                        !.screened = Len(Screened) + 1,
                        !.status = Entry(c, row.status) ++ search.cell.status]
<1>. DEFINE note == Note(search.cur, row)
<1>10. {"order", "screened", "status", "complete", "work", "requested", "stop"} = DOMAIN search.cell
  BY <1>2 DEF CellOK, CellSet
<1>11. /\ DOMAIN note = DOMAIN search
       /\ note.pc = "audit" /\ note.rows = Entry(c, row) ++ search.rows
       /\ \A f \in DOMAIN search \ {"pc", "rows", "cell"} : note[f] = search[f]
  BY <1>1, <1>2 DEF Note, SearchFields
<1>12. note.cell = cell
  BY <1>1, <1>2, <1>10 DEF Note, SearchFields, Screened
<1>. HIDE DEF note, cell
<1>3. /\ DOMAIN search' = DOMAIN search
      /\ search'.pc = "audit" /\ search'.rows = Entry(c, row) ++ search.rows
      /\ search'.cell = cell
      /\ \A f \in SearchFields \ {"kept"} : search'[f] = search[f]
      /\ search'.kept \in {search.kept, TRUE}
      /\ search' = note => search'.kept = search.kept
      /\ search' # note => search'.kept = TRUE
  <2>1. CASE search' = note
    BY <1>1, <1>2, <1>11, <1>12, <2>1 DEF SearchFields
  <2>2. CASE search' = [note EXCEPT !.kept = TRUE]
    <3>1. /\ DOMAIN search' = DOMAIN note
          /\ \A f \in DOMAIN note \ {"kept"} : search'[f] = note[f]
          /\ search'.kept = TRUE
      BY <1>1, <1>11, <2>2 DEF SearchFields
    <3>2. search' = note => search'.kept = search.kept
      BY <1>1, <1>11 DEF SearchFields
    <3>. QED
      BY <1>1, <1>2, <1>11, <1>12, <3>1, <3>2 DEF SearchFields
  <2>. QED
    BY <2>1, <2>2 DEF note
<1>4. c \in Candidates /\ row.status \in Status /\ search.cell.status \in Statuses
      /\ Len(Screened) + 1 \in Nat
  BY <1>1, <1>2 DEF CandidateOf, RowOK, RowSet, CellOK, CellSet
<1>5. /\ Append(Screened, c) \in Seq(Candidates)
      /\ Members(Append(Screened, c)) = Members(Screened) \cup {c}
  BY <1>2, <1>4, AppendFacts
<1>6. /\ Entry(c, row.status) ++ search.cell.status \in Statuses
      /\ DOMAIN (Entry(c, row.status) ++ search.cell.status) = {c} \cup DOMAIN search.cell.status
  BY <1>4, StatusEntry
<1>7. /\ cell.order = Append(Screened, c) /\ cell.work = Work /\ ~ cell.complete
      /\ cell.status = Entry(c, row.status) ++ search.cell.status
      /\ cell \in CellSet
  BY <1>2, <1>4, <1>5, <1>6 DEF CellOK, CellSet, cell
<1>8. CellOK(cell)
  BY <1>1, <1>2, <1>5, <1>6, <1>7 DEF CellOK
<1>9. SameSearch
  BY <1>3 DEF SameSearch, SearchFields
<1>. QED
  BY <1>1, <1>3, <1>7, <1>8, <1>9 DEF Noted, note

LEMMA NotedCell ==
    ASSUME SearchInv, search.pc = "screen", NEW row, RowOK(row), Noted(row)
    PROVE  /\ SearchOK' /\ CellNow' /\ Work' = Work /\ Started'
           /\ DOMAIN search'.rows = DOMAIN search.rows \cup {search.cur}
           /\ search'.rows[search.cur] = row
           /\ \A c \in DOMAIN search.rows \ {search.cur} : search'.rows[c] = search.rows[c]
<1>1. search.pc \in InCell /\ search.cur \in CandidateOf(Work) /\ search.cur \in Candidates
  BY DEF SearchInv, CellNow, InCell, CandidateOf
<1>2. /\ Started /\ search.at <= Len(Workloads)
      /\ Screened \in Seq(Candidates)
      /\ IsRows(search.rows, CandidateOf(Work)) /\ DOMAIN search.rows = Members(Screened)
      /\ {"cell", "rows"} \subseteq DOMAIN search
      /\ \A c \in DOMAIN search.rows : search.cell.status[c] = search.rows[c].status
      /\ DOMAIN search.cell.status = Members(Screened)
  BY <1>1, CellFacts DEF CellOK, Screened
<1>3. SearchOK' /\ Work' = Work /\ Started'
  BY <1>2, SameOK DEF SearchInv, Noted, InSearch, InCell
<1>4. /\ DOMAIN search'.rows = DOMAIN search.rows \cup {search.cur}
      /\ search'.rows[search.cur] = row
      /\ \A c \in DOMAIN search.rows \ {search.cur} : search'.rows[c] = search.rows[c]
  BY DEF Noted, ++, Entry
<1>5. /\ search'.cell.status[search.cur] = row.status
      /\ \A c \in DOMAIN search.cell.status \ {search.cur} :
            search'.cell.status[c] = search.cell.status[c]
  BY DEF Noted, ++, Entry
<1>6. Members(search'.cell.order) = DOMAIN search'.rows
  BY <1>1, <1>2, <1>4, AppendFacts DEF Noted
<1>7. \A c \in DOMAIN search'.rows : search'.cell.status[c] = search'.rows[c].status
  BY <1>2, <1>4, <1>5
<1>8. IsRows(search'.rows, CandidateOf(Work))
  BY <1>1, <1>2, EntryRows, OverRows DEF Noted
<1>9. CellNow'
  BY <1>2, <1>3, <1>6, <1>7, <1>8 DEF CellNow, Noted, SameSearch
<1>. QED
  BY <1>3, <1>4, <1>9

\* A row that is only noted.
LEMMA NoteKeeps ==
    ASSUME SearchInv, search.pc = "screen", NEW row, RowOK(row), Noted(row),
           FilesSame, search'.kept = search.kept,
           search.cur \in DOMAIN Rows => ((Rows[search.cur].full /\ Rows[search.cur].correct) =>
               row.full /\ row.correct /\ row.samples >= Rows[search.cur].samples),
           row.full => search.kept /\ coverage # Absent
    PROVE  SearchInv'
<1>1. FilesOK' /\ Rows' = Rows
  BY FilesStay DEF SearchInv
<1>2. /\ SearchOK' /\ CellNow' /\ Work' = Work /\ Started'
      /\ DOMAIN search'.rows = DOMAIN search.rows \cup {search.cur}
      /\ search'.rows[search.cur] = row
      /\ \A c \in DOMAIN search.rows \ {search.cur} : search'.rows[c] = search.rows[c]
  BY NotedCell
<1>3. search.pc \in InCell /\ search'.pc = "audit" /\ Started /\ "audit" \in InCell
  BY DEF InCell, InSearch, Started, Noted
<1>4. Bare(search.rows) /\ ~ row.full => Bare(search'.rows)
  BY <1>2 DEF Bare
<1>5. Kept'
  BY <1>1, <1>2, <1>3, <1>4 DEF SearchInv, Kept, FilesSame, Noted, SameSearch
<1>6. AuditFirst'
  BY <1>1, <1>3, <1>4 DEF SearchInv, AuditFirst, FilesSame
<1>7. RowsKnown'
  <2>1. \A c : ~ InTrial(c)
    BY DEF InTrial, Confirming
  <2>. QED
    BY <1>1, <1>2, <1>3, <2>1 DEF SearchInv, RowsKnown
<1>8. CellsTrue'
  <2>1. ASSUME NEW cell, Backed(cell) PROVE Backed(cell)'
    BY <1>1, <2>1 DEF Backed
  <2>. QED
    BY <1>2, <1>3, <2>1 DEF SearchInv, CellsTrue, AllBacked, FilesSame, Noted, SameSearch
<1>. QED
  BY <1>1, <1>2, <1>5, <1>6, <1>7, <1>8 DEF SearchInv

LEMMA CachedFacts ==
    ASSUME SearchInv, Started, NEW c
    PROVE  /\ Cached(c) => search.kept /\ c \in DOMAIN Rows /\ Retained[c] = Rows[c]
           /\ Cached(c) => RowOK(Rows[c]) /\ Rows[c].correct
           /\ (c \in DOMAIN Rows /\ Rows[c].full /\ Rows[c].correct) => Cached(c)
<1>1. /\ \A d \in DOMAIN Retained : search.kept /\ d \in DOMAIN Rows /\ Retained[d] = Rows[d]
      /\ search.kept => Retained = Rows
  BY RetainedFacts DEF SearchInv
<1>2. ~ search.kept => Bare(Rows)
  BY DEF SearchInv, Kept
<1>3. IsRows(Rows, Candidates)
  BY DEF SearchInv, FilesOK
<1>4. Cached(c) => search.kept /\ c \in DOMAIN Rows /\ Retained[c] = Rows[c]
  BY <1>1 DEF Cached
<1>5. Cached(c) => Rows[c].correct
  BY <1>4 DEF Cached
<1>6. Cached(c) => RowOK(Rows[c])
  BY <1>3, <1>4 DEF IsRows
<1>7. ASSUME c \in DOMAIN Rows, Rows[c].full, Rows[c].correct PROVE Cached(c)
  <2>1. search.kept
    BY <1>2, <1>7 DEF Bare
  <2>. QED
    BY <1>1, <1>7, <2>1 DEF Cached
<1>. QED
  BY <1>4, <1>5, <1>6, <1>7

LEMMA ScreenCachedKeeps == ASSUME SearchInv, ScreenCached PROVE SearchInv'
<1>1. search.pc = "screen" /\ Cached(search.cur) /\ FilesSame /\ Started
      /\ search' = Note(search.cur, [Retained[search.cur] EXCEPT !.status = "screened"])
  BY DEF ScreenCached, FilesSame, Started, InSearch, InCell
<1>2. /\ search.kept /\ search.cur \in DOMAIN Rows /\ Retained[search.cur] = Rows[search.cur]
      /\ RowOK(Rows[search.cur]) /\ Rows[search.cur].correct
  BY <1>1, CachedFacts
<1>3. coverage # Absent
  BY <1>1, <1>2 DEF SearchInv, AuditFirst
<1>. DEFINE old == Rows[search.cur]
            row == [old EXCEPT !.status = "screened"]
<1>4. search' = Note(search.cur, row)
  BY <1>1, <1>2
<1>5. old.samples \in Nat
  BY <1>2 DEF RowOK, RowSet
<1>. HIDE DEF old
<1>6. RowOK(old)
  BY <1>2 DEF old
<1>7. /\ RowOK(row)
      /\ row.full = old.full /\ row.correct = old.correct /\ row.samples = old.samples
  BY <1>6, RowStatus
<1>. HIDE DEF row
<1>8. Noted(row) /\ search'.kept = search.kept
  BY <1>1, <1>4, <1>7, NoteFacts
<1>9. (old.full /\ old.correct) => row.full /\ row.correct /\ row.samples >= old.samples
  BY <1>5, <1>7
<1>. QED
  BY <1>1, <1>2, <1>3, <1>7, <1>8, <1>9, NoteKeeps DEF old

LEMMA ScreenFailedKeeps ==
    ASSUME SearchInv, search.pc = "screen", ~ Cached(search.cur), FilesSame,
           search' = Note(search.cur, Row(FALSE, 0, FALSE, "failed"))
    PROVE  SearchInv'
<1>. DEFINE row == Row(FALSE, 0, FALSE, "failed")
<1>1. RowOK(row) /\ row.full = FALSE
  BY NewRow
<1>. HIDE DEF row
<1>2. Noted(row) /\ search'.kept = search.kept
  BY <1>1, NoteFacts DEF row
<1>3. Started
  BY DEF Started, InSearch, InCell
<1>4. search.cur \in DOMAIN Rows => ~ (Rows[search.cur].full /\ Rows[search.cur].correct)
  BY <1>3, CachedFacts
<1>. QED
  BY <1>1, <1>2, <1>4, NoteKeeps

\* A save within a cell leaves the files and what is backed in order.
LEMMA SaveKeeps ==
    ASSUME SearchInv, Started, SameSearch, NEW rows, IsRows(rows, Candidates), SaveRows(rows),
           Sound(rows), UNCHANGED <<coverage, snapshot>>
    PROVE  /\ FilesOK' /\ EvidenceStep
           /\ coverage' # Absent => AllBacked(coverage.cells)'
           /\ AllBacked(search.done)' /\ AllBacked(search.previous)'
           /\ journal' # Absent /\ Rows' = journal'
           /\ DOMAIN rows \subseteq DOMAIN Rows' /\ \A c \in DOMAIN rows : Rows'[c] = rows[c]
           /\ \A c \in DOMAIN Rows' : c \notin DOMAIN rows => c \in DOMAIN Rows /\ Rows'[c] = Rows[c]
<1>1. FilesOK /\ SearchOK /\ Kept /\ CellsTrue
  BY DEF SearchInv
<1>2. /\ journal' # Absent /\ Rows' = journal' /\ IsRows(Rows', Candidates)
      /\ DOMAIN rows \subseteq DOMAIN Rows' /\ \A c \in DOMAIN rows : Rows'[c] = rows[c]
      /\ \A c \in DOMAIN Rows' : c \notin DOMAIN rows =>
             search.kept /\ c \in DOMAIN Rows /\ Rows'[c] = Rows[c]
      /\ search.kept => DOMAIN Rows \subseteq DOMAIN Rows'
  BY <1>1, SaveFacts
<1>3. EvidenceStep /\ SettledStep
  BY <1>1, SaveSound
<1>4. FilesOK'
  BY <1>1, <1>2 DEF FilesOK
<1>5. /\ coverage # Absent => AllBacked(coverage.cells)
      /\ AllBacked(search.done) /\ AllBacked(search.previous)
  BY <1>1 DEF CellsTrue
<1>6. search.kept \in BOOLEAN
  BY <1>1 DEF SearchOK, Started
<1>7. CASE search.kept
  <2>1. \A cell : Backed(cell) => Backed(cell)'
    BY <1>2, <1>3, <1>7, BackedStays
  <2>. QED
    BY <1>2, <1>3, <1>4, <1>5, <2>1 DEF AllBacked, SameSearch
<1>8. CASE ~ search.kept
  <2>1. /\ search.previous = << >> /\ search.done = << >>
        /\ coverage # Absent =>
              \A i \in DOMAIN coverage.cells :
                 coverage.cells[i].complete => coverage.cells[i].order = << >>
    BY <1>1, <1>8 DEF Kept
  <2>2. coverage' # Absent => AllBacked(coverage.cells)'
    BY <2>1, EmptyBacked DEF AllBacked
  <2>3. AllBacked(search.done)' /\ AllBacked(search.previous)'
    BY <2>1 DEF AllBacked, SameSearch
  <2>. QED
    BY <1>2, <1>3, <1>4, <2>2, <2>3
<1>. QED
  BY <1>6, <1>7, <1>8

LEMMA ScreenCorrectKeeps ==
    ASSUME SearchInv, search.pc = "screen", ~ Cached(search.cur), UNCHANGED <<coverage, snapshot>>,
           NEW row, row = Row(FALSE, 1, TRUE, "screened"), SaveRows(Entry(search.cur, row)),
           search' = [Note(search.cur, row) EXCEPT !.kept = TRUE]
    PROVE  SearchInv' /\ EvidenceStep
<1>1. RowOK(row) /\ row.full = FALSE
  <2>1. /\ RowOK(Row(FALSE, 1, TRUE, "screened"))
        /\ Row(FALSE, 1, TRUE, "screened").full = FALSE
    BY DEF Row, RowOK, RowSet
  <2>. QED
    BY <2>1
<1>2. Started /\ search.cur \in Candidates
  BY DEF SearchInv, CellNow, CandidateOf, Started, InSearch, InCell
<1>3. Noted(row)
  BY <1>1, NoteFacts
<1>4. search'.kept = TRUE
  <2>1. "kept" \in DOMAIN Note(search.cur, row)
    BY <1>2 DEF SearchInv, SearchOK, SearchFields, Started, Note
  <2>. QED
    BY <2>1
<1>5. IsRows(Entry(search.cur, row), Candidates)
  BY <1>1, <1>2, EntryRows
<1>6. search.cur \in DOMAIN Rows => ~ (Rows[search.cur].full /\ Rows[search.cur].correct)
  BY <1>2, CachedFacts
<1>7. DOMAIN Entry(search.cur, row) = {search.cur} /\ Entry(search.cur, row)[search.cur] = row
  BY EntryFacts
<1>8. Sound(Entry(search.cur, row))
  BY <1>6, <1>7 DEF Sound
<1>9. SameSearch
  BY <1>3 DEF Noted
<1>10. /\ FilesOK' /\ EvidenceStep
       /\ coverage' # Absent => AllBacked(coverage.cells)'
       /\ AllBacked(search.done)' /\ AllBacked(search.previous)'
       /\ journal' # Absent
       /\ search.cur \in DOMAIN Rows' /\ Rows'[search.cur] = row
       /\ \A c \in DOMAIN Rows' : c # search.cur => c \in DOMAIN Rows /\ Rows'[c] = Rows[c]
  BY <1>2, <1>5, <1>7, <1>8, <1>9, SaveKeeps
<1>11. /\ SearchOK' /\ CellNow' /\ Work' = Work /\ Started'
       /\ DOMAIN search'.rows = DOMAIN search.rows \cup {search.cur}
       /\ search'.rows[search.cur] = row
       /\ \A c \in DOMAIN search.rows \ {search.cur} : search'.rows[c] = search.rows[c]
  BY <1>1, <1>3, NotedCell
<1>12. search'.pc = "audit" /\ search.pc \in InCell /\ search'.pc \in InCell
  BY <1>3 DEF InCell, Noted
<1>13. Kept'
  BY <1>4, <1>10, <1>12 DEF Kept
<1>14. AuditFirst'
  <2>1. ASSUME coverage = Absent PROVE Bare(Rows)' /\ Bare(search.rows)'
    <3>1. Bare(Rows) /\ Bare(search.rows)
      BY <1>12, <2>1 DEF SearchInv, AuditFirst
    <3>2. Bare(Rows)'
      BY <1>1, <1>10, <3>1 DEF Bare
    <3>3. Bare(search.rows)'
      BY <1>1, <1>11, <3>1 DEF Bare
    <3>. QED
      BY <3>2, <3>3
  <2>. QED
    BY <1>12, <2>1 DEF AuditFirst
<1>15. RowsKnown'
  <2>1. \A c : ~ InTrial(c)
    BY DEF InTrial, Confirming
  <2>2. \A c \in DOMAIN search.rows \cap DOMAIN Rows :
            (Rows[c].full /\ Rows[c].correct) =>
                /\ search.rows[c].full /\ search.rows[c].correct
                /\ search.rows[c].samples >= Rows[c].samples
    BY <1>12, <2>1 DEF SearchInv, RowsKnown
  <2>. QED
    BY <1>1, <1>10, <1>11, <2>2 DEF RowsKnown
<1>16. CellsTrue'
  BY <1>10, <1>12 DEF CellsTrue
<1>. QED
  BY <1>10, <1>11, <1>13, <1>14, <1>15, <1>16 DEF SearchInv

LEMMA ScreenRunKeeps == ASSUME SearchInv, ScreenRun PROVE SearchInv' /\ EvidenceStep
<1>1. search.pc = "screen" /\ ~ Cached(search.cur) /\ UNCHANGED <<coverage, snapshot>>
  BY DEF ScreenRun
<1>2. CASE /\ SaveRows(Entry(search.cur, Row(FALSE, 1, TRUE, "screened")))
           /\ search' = [Note(search.cur, Row(FALSE, 1, TRUE, "screened")) EXCEPT !.kept = TRUE]
  BY <1>1, <1>2, ScreenCorrectKeeps
<1>3. CASE search' = Note(search.cur, Row(FALSE, 0, FALSE, "failed")) /\ UNCHANGED journal
  <2>1. FilesSame
    BY <1>1, <1>3 DEF FilesSame
  <2>2. SearchInv'
    BY <1>1, <1>3, <2>1, ScreenFailedKeeps
  <2>. QED
    BY <1>3, <2>2, NoSave DEF SearchInv
<1>. QED
  BY <1>2, <1>3 DEF ScreenRun

LEMMA CellsAppend ==
    ASSUME NEW cells, CellsOK(cells), NEW cell, CellOK(cell)
    PROVE  /\ CellsOK(Append(cells, cell))
           /\ \A i \in DOMAIN Append(cells, cell) :
                 Append(cells, cell)[i] = cell
                   \/ \E j \in DOMAIN cells : Append(cells, cell)[i] = cells[j]
           /\ cells = << >> => \A i \in DOMAIN Append(cells, cell) : Append(cells, cell)[i] = cell
<1>1. cells \in Seq(CellSet) /\ cell \in CellSet
  BY DEF CellsOK, CellOK
<1>. DEFINE new == Append(cells, cell)
<1>2. /\ new \in Seq(CellSet) /\ DOMAIN new = DOMAIN cells \cup {Len(cells) + 1}
      /\ \A i \in DOMAIN cells : new[i] = cells[i]
      /\ new[Len(cells) + 1] = cell
  BY <1>1, AppendFacts
<1>. HIDE DEF new
<1>3. ASSUME NEW i \in DOMAIN new PROVE new[i] = cell \/ \E j \in DOMAIN cells : new[i] = cells[j]
  BY <1>2
<1>4. \A i \in DOMAIN new : CellOK(new[i])
  BY <1>2, <1>3 DEF CellsOK
<1>5. cells = << >> => \A i \in DOMAIN new : new[i] = cell
  BY <1>3
<1>. QED
  BY <1>2, <1>3, <1>4, <1>5 DEF CellsOK, new

LEMMA AuditFacts ==
    ASSUME NEW cells
    PROVE  /\ Audit(cells) # Absent
           /\ {"build", "protocol", "cells"} \subseteq DOMAIN Audit(cells)
           /\ Audit(cells).cells = cells
BY DEF Audit, Absent

LEMMA WriteAuditKeeps == ASSUME SearchInv, WriteAudit PROVE SearchInv'
<1>1. /\ search.pc = "audit" /\ coverage' = Audit(Append(search.done, search.cell))
      /\ search' = [search EXCEPT !.pc = "save"] /\ journal' = journal /\ snapshot' = snapshot
      /\ search.pc \in InCell /\ Started
  BY DEF WriteAudit, InCell, InSearch, Started
<1>2. Rows' = Rows
  BY <1>1 DEF Rows
<1>3. "pc" \in DOMAIN search /\ SearchFields \subseteq DOMAIN search
      /\ {"cell", "rows"} \subseteq DOMAIN search /\ search.kept \in BOOLEAN
  BY <1>1, CellFacts DEF SearchInv, SearchOK
<1>4. /\ DOMAIN search' = DOMAIN search /\ search'.pc = "save"
      /\ \A f \in DOMAIN search \ {"pc"} : search'[f] = search[f]
  BY <1>1, <1>3
<1>5. /\ SameSearch /\ search'.kept = search.kept /\ search'.rows = search.rows
      /\ search'.cell = search.cell
  BY <1>3, <1>4 DEF SameSearch, SearchFields
<1>6. SearchOK' /\ Work' = Work /\ Started'
  BY <1>1, <1>3, <1>4, <1>5, SameOK DEF SearchInv, InSearch, InCell
<1>7. CellNow'
  BY <1>1, <1>3, <1>4, <1>5, <1>6 DEF SearchInv, CellNow
<1>8. CellOK(search.cell) /\ ~ search.cell.complete /\ CellsOK(search.done)
  BY <1>1, CellFacts DEF SearchInv, SearchOK
<1>. DEFINE cells == Append(search.done, search.cell)
<1>9. /\ CellsOK(cells)
      /\ \A i \in DOMAIN cells :
            cells[i] = search.cell \/ \E j \in DOMAIN search.done : cells[i] = search.done[j]
      /\ search.done = << >> => \A i \in DOMAIN cells : cells[i] = search.cell
  BY <1>8, CellsAppend
<1>10. /\ coverage' = Audit(cells) /\ coverage' # Absent
       /\ {"build", "protocol", "cells"} \subseteq DOMAIN coverage' /\ coverage'.cells = cells
  BY <1>1, AuditFacts
<1>. HIDE DEF cells
<1>11. FilesOK'
  BY <1>1, <1>2, <1>9, <1>10 DEF SearchInv, FilesOK
<1>12. search'.pc \in InCell /\ search'.pc \in InSearch
  BY <1>4 DEF InCell, InSearch
<1>13. Kept'
  <2>1. ASSUME ~ search'.kept
        PROVE  /\ search'.previous = << >> /\ search'.done = << >>
               /\ Bare(Rows)' /\ Bare(search.rows)'
               /\ \A i \in DOMAIN coverage'.cells :
                     coverage'.cells[i].complete => coverage'.cells[i].order = << >>
    <3>1. /\ search.previous = << >> /\ search.done = << >> /\ Bare(Rows) /\ Bare(search.rows)
      BY <1>1, <1>5, <2>1 DEF SearchInv, Kept
    <3>2. Bare(Rows)' /\ Bare(search.rows)'
      BY <1>2, <1>5, <3>1 DEF Bare
    <3>. QED
      BY <1>5, <1>8, <1>9, <1>10, <3>1, <3>2 DEF SameSearch
  <2>2. search'.kept => journal' # Absent
    BY <1>1, <1>5 DEF SearchInv, Kept
  <2>. QED
    BY <1>4, <2>1, <2>2 DEF Kept
<1>14. AuditFirst'
  BY <1>10 DEF AuditFirst
<1>15. RowsKnown'
  <2>1. \A c : ~ InTrial(c)
    BY <1>1 DEF InTrial, Confirming
  <2>. QED
    BY <1>1, <1>2, <1>5, <2>1 DEF SearchInv, RowsKnown
<1>16. CellsTrue'
  <2>1. ASSUME NEW cell, Backed(cell) PROVE Backed(cell)'
    BY <1>2, <2>1 DEF Backed
  <2>2. AllBacked(search.done) /\ AllBacked(search.previous)
    BY <1>1 DEF SearchInv, CellsTrue
  <2>3. Backed(search.cell)
    BY <1>8 DEF Backed
  <2>4. \A i \in DOMAIN cells : Backed(cells[i])
    BY <1>9, <2>2, <2>3 DEF AllBacked
  <2>5. AllBacked(coverage.cells)'
    BY <1>10, <2>1, <2>4 DEF AllBacked
  <2>6. AllBacked(search.done)' /\ AllBacked(search.previous)'
    BY <1>5, <2>1, <2>2 DEF AllBacked, SameSearch
  <2>. QED
    BY <1>4, <2>5, <2>6 DEF CellsTrue
<1>. QED
  BY <1>6, <1>7, <1>11, <1>13, <1>14, <1>15, <1>16 DEF SearchInv

\* A row that is settled with those behind it: on all of them journal and search agree.
LEMMA TogetherKnown ==
    ASSUME FilesOK', \A c \in DOMAIN search'.rows : c \in DOMAIN Rows' /\ Rows'[c] = search'.rows[c]
    PROVE  RowsKnown'
<1>1. \A c \in DOMAIN Rows' : Rows'[c].samples \in Nat
  BY DEF FilesOK, IsRows, RowOK, RowSet
<1>. QED
  BY <1>1 DEF RowsKnown

LEMMA WriteRowsKeeps == ASSUME SearchInv, WriteRows PROVE SearchInv' /\ EvidenceStep
<1>1. /\ search.pc = "save" /\ SaveRows(search.rows) /\ UNCHANGED <<coverage, snapshot>>
      /\ search' = [search EXCEPT !.pc = "select", !.kept = TRUE]
      /\ search.pc \in InCell /\ Started
  BY DEF WriteRows, InCell, InSearch, Started
<1>2. "pc" \in DOMAIN search /\ SearchFields \subseteq DOMAIN search
      /\ {"cell", "rows"} \subseteq DOMAIN search /\ IsRows(search.rows, Candidates)
  BY <1>1, CellFacts DEF SearchInv, SearchOK
<1>3. /\ DOMAIN search' = DOMAIN search /\ search'.pc = "select" /\ search'.kept = TRUE
      /\ \A f \in DOMAIN search \ {"pc", "kept"} : search'[f] = search[f]
  BY <1>1, <1>2 DEF SearchFields
<1>4. SameSearch /\ search'.rows = search.rows /\ search'.cell = search.cell
  BY <1>2, <1>3 DEF SameSearch, SearchFields
<1>5. SearchOK' /\ Work' = Work /\ Started'
  BY <1>1, <1>3, <1>4, SameOK DEF SearchInv, InSearch, InCell
<1>6. CellNow'
  BY <1>1, <1>2, <1>3, <1>4, <1>5 DEF SearchInv, CellNow, SameSearch
<1>7. Sound(search.rows)
  <2>1. \A c : ~ InTrial(c)
    BY <1>1 DEF InTrial, Confirming
  <2>. QED
    BY <1>1, <2>1 DEF SearchInv, RowsKnown, Sound
<1>8. /\ FilesOK' /\ EvidenceStep
      /\ coverage' # Absent => AllBacked(coverage.cells)'
      /\ AllBacked(search.done)' /\ AllBacked(search.previous)'
      /\ journal' # Absent
      /\ \A c \in DOMAIN search.rows : c \in DOMAIN Rows' /\ Rows'[c] = search.rows[c]
  BY <1>1, <1>2, <1>4, <1>7, SaveKeeps
<1>9. Kept'
  BY <1>3, <1>8 DEF Kept
<1>10. AuditFirst'
  BY <1>1 DEF SearchInv, AuditFirst
<1>11. RowsKnown'
  BY <1>4, <1>8, TogetherKnown
<1>12. CellsTrue'
  BY <1>3, <1>8 DEF CellsTrue
<1>. QED
  BY <1>5, <1>6, <1>8, <1>9, <1>10, <1>11, <1>12 DEF SearchInv

LEMMA ConfirmingFacts ==
    ASSUME SearchInv, Confirming
    PROVE  /\ search.pc = "confirm" /\ search.pc \in InCell /\ Started
           /\ Candidate \in Members(Screened) /\ Candidate \in Candidates
           /\ Candidate \in CandidateOf(Work) /\ Candidate \in DOMAIN search.rows
           /\ RowOK(search.rows[Candidate])
           /\ {"finalists", "next"} \subseteq DOMAIN search /\ search.next \in Nat \ {0}
           /\ coverage # Absent
<1>1. search.pc = "confirm" /\ search.pc \in InCell /\ Started
  BY DEF Confirming, InCell, InSearch, Started
<1>2. {"finalists", "next"} \subseteq DOMAIN search /\ search.next \in Nat \ {0}
  BY <1>1 DEF SearchInv, CellNow
<1>3. /\ Screened \in Seq(Candidates) /\ Members(Screened) \subseteq CandidateOf(Work)
      /\ IsRows(search.rows, Candidates) /\ DOMAIN search.rows = Members(Screened)
  BY <1>1, CellFacts
<1>4. search.next \in DOMAIN Screened
  BY <1>2, <1>3 DEF Confirming
<1>5. Candidate \in Members(Screened)
  BY <1>4 DEF Members, Candidate
<1>6. Screened # << >>
  BY <1>4
<1>7. coverage # Absent
  BY <1>1, <1>6 DEF SearchInv, AuditFirst, Screened
<1>8. RowOK(search.rows[Candidate])
  BY <1>3, <1>5 DEF IsRows
<1>. QED
  BY <1>1, <1>2, <1>3, <1>5, <1>7, <1>8 DEF CandidateOf

LEMMA SettleKeeps ==
    ASSUME SearchInv, Confirming, NEW row, RowOK(row), Settle(Candidate, row),
           UNCHANGED <<coverage, snapshot>>,
           Candidate \in DOMAIN Rows =>
               ((Rows[Candidate].full /\ Rows[Candidate].correct) =>
                   \/ row.full /\ row.correct /\ row.samples >= Rows[Candidate].samples
                   \/ ~ row.correct /\ Rows[Candidate].samples < Trials)
    PROVE  SearchInv' /\ EvidenceStep
<1>. DEFINE c == Candidate
            rows == Entry(c, row) ++ search.rows
<1>1. /\ search.pc = "confirm" /\ search.pc \in InCell /\ Started
      /\ c \in Members(Screened) /\ c \in Candidates /\ c \in CandidateOf(Work)
      /\ c \in DOMAIN search.rows
      /\ {"finalists", "next"} \subseteq DOMAIN search /\ search.next \in Nat \ {0}
      /\ coverage # Absent
  BY ConfirmingFacts
<1>2. /\ "pc" \in DOMAIN search /\ SearchFields \subseteq DOMAIN search
      /\ {"cell", "rows"} \subseteq DOMAIN search
      /\ IsRows(search.rows, CandidateOf(Work)) /\ DOMAIN search.rows = Members(Screened)
      /\ search.at <= Len(Workloads) /\ CellOK(search.cell) /\ search.cell.work = Work
      /\ ~ search.cell.complete
      /\ \A d \in DOMAIN search.rows : search.cell.status[d] = search.rows[d].status
  BY <1>1, CellFacts DEF SearchInv, SearchOK
<1>3. {"order", "status", "complete", "work"} \subseteq DOMAIN search.cell
      /\ search.cell.status \in Statuses /\ DOMAIN search.cell.status = Members(Screened)
      /\ search.cell \in CellSet
  BY <1>2 DEF CellOK, CellSet, Screened
<1>. DEFINE status == Entry(c, row.status) ++ search.cell.status
            cell == [search.cell EXCEPT !.status = status]
<1>4. /\ SaveRows(rows)
      /\ search' = [search EXCEPT !.rows = rows, !.cell.status = status, !.next = search.next + 1,
                        !.kept = TRUE]
  BY DEF Settle
<1>5. /\ DOMAIN rows = DOMAIN search.rows
      /\ rows[c] = row /\ \A d \in DOMAIN search.rows \ {c} : rows[d] = search.rows[d]
      /\ IsRows(rows, CandidateOf(Work))
  <2>1. /\ DOMAIN Entry(c, row) = {c} /\ Entry(c, row)[c] = row
        /\ DOMAIN rows = DOMAIN Entry(c, row) \cup DOMAIN search.rows
        /\ \A x \in DOMAIN Entry(c, row) : rows[x] = Entry(c, row)[x]
        /\ \A x \in DOMAIN search.rows : x \notin DOMAIN Entry(c, row) => rows[x] = search.rows[x]
    BY DEF ++, Entry
  <2>2. IsRows(rows, CandidateOf(Work))
    BY <1>1, <1>2, EntryRows, OverRows
  <2>. HIDE DEF rows
  <2>. QED
    BY <1>1, <2>1, <2>2
<1>6. /\ status \in Statuses /\ DOMAIN status = Members(Screened)
      /\ status[c] = row.status
      /\ \A d \in Members(Screened) \ {c} : status[d] = search.cell.status[d]
  <2>1. row.status \in Status
    BY DEF RowOK, RowSet
  <2>2. status \in Statuses /\ DOMAIN status = {c} \cup DOMAIN search.cell.status
    BY <1>1, <1>3, <2>1, StatusEntry
  <2>3. /\ status[c] = row.status
        /\ \A d \in DOMAIN search.cell.status : d # c => status[d] = search.cell.status[d]
    BY DEF ++, Entry
  <2>. HIDE DEF status
  <2>. QED
    BY <1>1, <1>3, <2>2, <2>3
<1>. HIDE DEF rows, status
<1>7. /\ cell \in CellSet /\ cell.work = search.cell.work /\ cell.order = Screened
      /\ cell.complete = search.cell.complete /\ cell.status = status
  BY <1>3, <1>6 DEF CellSet, Screened
<1>8. /\ DOMAIN search' = DOMAIN search /\ search'.rows = rows /\ search'.cell = cell
      /\ search'.next = search.next + 1 /\ search'.kept = TRUE /\ search'.pc = "confirm"
      /\ \A f \in SearchFields \ {"kept"} : search'[f] = search[f]
  BY <1>1, <1>2, <1>3, <1>4 DEF SearchFields
<1>. HIDE DEF cell
<1>9. SameSearch
  BY <1>8 DEF SameSearch, SearchFields
<1>10. SearchOK' /\ Work' = Work /\ Started'
  BY <1>1, <1>8, <1>9, SameOK DEF SearchInv, InSearch, InCell
<1>11. CellOK(cell)
  BY <1>2, <1>6, <1>7 DEF CellOK, Screened
<1>12. CellNow'
  <2>1. \A d \in DOMAIN rows : cell.status[d] = rows[d].status
    BY <1>1, <1>2, <1>5, <1>6, <1>7
  <2>2. IsRows(rows, CandidateOf(Work)) /\ DOMAIN rows = Members(cell.order)
    BY <1>2, <1>5, <1>7
  <2>. QED
    BY <1>1, <1>2, <1>7, <1>8, <1>9, <1>10, <1>11, <2>1, <2>2 DEF CellNow, SameSearch
<1>13. IsRows(rows, Candidates)
  BY <1>5, WiderRows DEF CandidateOf
<1>14. Sound(rows)
  <2>1. \A d : d # c => ~ InTrial(d)
    BY DEF InTrial
  <2>2. \A d \in DOMAIN search.rows \cap DOMAIN Rows :
            (d # c /\ Rows[d].full /\ Rows[d].correct) =>
                /\ search.rows[d].full /\ search.rows[d].correct
                /\ search.rows[d].samples >= Rows[d].samples
    BY <1>1, <2>1 DEF SearchInv, RowsKnown
  <2>. QED
    BY <1>5, <2>2 DEF Sound
<1>15. /\ FilesOK' /\ EvidenceStep
       /\ coverage' # Absent => AllBacked(coverage.cells)'
       /\ AllBacked(search.done)' /\ AllBacked(search.previous)'
       /\ journal' # Absent
       /\ \A d \in DOMAIN rows : d \in DOMAIN Rows' /\ Rows'[d] = rows[d]
  BY <1>1, <1>4, <1>9, <1>13, <1>14, SaveKeeps
<1>16. Kept'
  BY <1>8, <1>15 DEF Kept
<1>17. AuditFirst'
  BY <1>1 DEF AuditFirst
<1>18. RowsKnown'
  BY <1>8, <1>15, TogetherKnown
<1>19. CellsTrue'
  BY <1>8, <1>15 DEF CellsTrue
<1>. QED
  BY <1>10, <1>12, <1>15, <1>16, <1>17, <1>18, <1>19 DEF SearchInv

LEMMA KeepScreenedKeeps == ASSUME SearchInv, KeepScreened PROVE SearchInv' /\ EvidenceStep
<1>. DEFINE old == search.rows[Candidate]
            row == IF old.correct THEN [old EXCEPT !.status = "screened"] ELSE old
<1>1. Confirming /\ ~ Finalist /\ Settle(Candidate, row) /\ UNCHANGED <<coverage, snapshot>>
  BY DEF KeepScreened
<1>2. RowOK(old) /\ search.pc \in InCell /\ Candidate \in DOMAIN search.rows
  BY <1>1, ConfirmingFacts
<1>3. ~ InTrial(Candidate)
  BY <1>1 DEF InTrial
<1>4. Candidate \in DOMAIN Rows =>
        ((Rows[Candidate].full /\ Rows[Candidate].correct) =>
            old.full /\ old.correct /\ old.samples >= Rows[Candidate].samples)
  BY <1>2, <1>3 DEF SearchInv, RowsKnown
<1>. HIDE DEF old
<1>5. /\ RowOK(row) /\ row.full = old.full /\ row.correct = old.correct
      /\ row.samples = old.samples
  BY <1>2, RowStatus
<1>. HIDE DEF row
<1>. QED
  BY <1>1, <1>4, <1>5, SettleKeeps

LEMMA ConfirmedKeeps == ASSUME SearchInv, Confirmed PROVE SearchInv' /\ EvidenceStep
<1>1. Confirming /\ Samples(Candidate) >= Trials /\ UNCHANGED <<coverage, snapshot>>
      /\ Settle(Candidate, [Retained[Candidate] EXCEPT !.status = "measured"])
  BY DEF Confirmed
<1>2. Trials \in Nat \ {0} /\ Started
  BY <1>1, ConfirmingFacts, SearchAssumption
<1>3. Cached(Candidate) /\ Retained[Candidate].full /\ Retained[Candidate].samples >= Trials
  BY <1>1, <1>2 DEF Samples
<1>. DEFINE old == Rows[Candidate]
            row == [old EXCEPT !.status = "measured"]
<1>4. Candidate \in DOMAIN Rows /\ Retained[Candidate] = old /\ RowOK(old) /\ old.correct
  BY <1>2, <1>3, CachedFacts
<1>5. Settle(Candidate, row) /\ Settled(old)
  BY <1>1, <1>3, <1>4 DEF Settled
<1>. HIDE DEF old
<1>6. /\ RowOK(row) /\ row.full = old.full /\ row.correct = old.correct
      /\ row.samples = old.samples /\ old.samples \in Nat
  BY <1>4, <1>5 DEF RowOK, RowSet, Settled
<1>. HIDE DEF row
<1>7. (old.full /\ old.correct) => row.full /\ row.correct /\ row.samples >= old.samples
  BY <1>6
<1>. QED
  BY <1>1, <1>5, <1>6, <1>7, SettleKeeps DEF old

LEMMA SamplesFacts ==
    ASSUME SearchInv, Confirming
    PROVE  /\ Samples(Candidate) \in Nat
           /\ Candidate \in DOMAIN Rows =>
                 ((Rows[Candidate].full /\ Rows[Candidate].correct) =>
                     Samples(Candidate) = Rows[Candidate].samples)
<1>1. /\ Cached(Candidate) => Candidate \in DOMAIN Rows /\ Retained[Candidate] = Rows[Candidate]
      /\ Cached(Candidate) => RowOK(Rows[Candidate])
      /\ (Candidate \in DOMAIN Rows /\ Rows[Candidate].full /\ Rows[Candidate].correct)
            => Cached(Candidate)
  BY ConfirmingFacts, CachedFacts
<1>2. Samples(Candidate) \in Nat
  BY <1>1 DEF Samples, RowOK, RowSet
<1>. QED
  BY <1>1, <1>2 DEF Samples

LEMMA TrialFailsKeeps ==
    ASSUME SearchInv, Confirming, Samples(Candidate) < Trials, UNCHANGED <<coverage, snapshot>>,
           Settle(Candidate, Row(TRUE, Samples(Candidate), FALSE, "failed"))
    PROVE  SearchInv' /\ EvidenceStep
<1>. DEFINE n == Samples(Candidate)
            row == Row(TRUE, n, FALSE, "failed")
<1>1. /\ n \in Nat
      /\ Candidate \in DOMAIN Rows =>
            ((Rows[Candidate].full /\ Rows[Candidate].correct) => n = Rows[Candidate].samples)
  BY SamplesFacts
<1>2. Settle(Candidate, row) /\ n < Trials
  OBVIOUS
<1>. HIDE DEF n
<1>3. RowOK(row) /\ row.correct = FALSE
  BY <1>1, NewRow
<1>. HIDE DEF row
<1>. QED
  BY <1>1, <1>2, <1>3, SettleKeeps

LEMMA TrialKeeps ==
    ASSUME SearchInv, Confirming, Finalist, UNCHANGED <<coverage, snapshot>>,
           SaveRows(Entry(Candidate, Row(TRUE, Samples(Candidate) + 1, TRUE, "screened"))),
           search' = [search EXCEPT !.kept = TRUE]
    PROVE  SearchInv' /\ EvidenceStep
<1>. DEFINE n == Samples(Candidate)
            row == Row(TRUE, n + 1, TRUE, "screened")
            rows == Entry(Candidate, row)
<1>1. /\ n \in Nat
      /\ Candidate \in DOMAIN Rows =>
            ((Rows[Candidate].full /\ Rows[Candidate].correct) => n = Rows[Candidate].samples)
  BY SamplesFacts
<1>2. SaveRows(rows)
  OBVIOUS
<1>. HIDE DEF n
<1>3. RowOK(row) /\ row.full = TRUE /\ row.correct = TRUE /\ row.samples = n + 1
  BY <1>1 DEF Row, RowOK, RowSet
<1>. HIDE DEF row
<1>4. DOMAIN rows = {Candidate} /\ rows[Candidate] = row
  BY EntryFacts
<1>5. /\ search.pc = "confirm" /\ search.pc \in InCell /\ Started
      /\ Candidate \in Candidates /\ coverage # Absent
      /\ {"finalists", "next"} \subseteq DOMAIN search /\ search.next \in Nat \ {0}
  BY ConfirmingFacts
<1>6. IsRows(rows, Candidates)
  BY <1>3, <1>5, EntryRows
<1>. HIDE DEF rows
<1>7. Sound(rows)
  BY <1>1, <1>3, <1>4 DEF Sound
<1>8. "pc" \in DOMAIN search /\ SearchFields \subseteq DOMAIN search
      /\ {"cell", "rows"} \subseteq DOMAIN search
  BY <1>5, CellFacts DEF SearchInv, SearchOK
<1>9. /\ DOMAIN search' = DOMAIN search /\ search'.kept = TRUE
      /\ \A f \in DOMAIN search \ {"kept"} : search'[f] = search[f]
  BY <1>8 DEF SearchFields
<1>10. /\ SameSearch /\ search'.rows = search.rows /\ search'.cell = search.cell
       /\ search'.pc = search.pc
  BY <1>8, <1>9 DEF SameSearch, SearchFields
<1>11. search'.finalists = search.finalists /\ search'.next = search.next
  BY <1>5, <1>9
<1>12. SearchOK' /\ Work' = Work /\ Started'
  BY <1>5, <1>9, <1>10, SameOK DEF SearchInv, InSearch, InCell
<1>13. CellNow'
  BY <1>5, <1>8, <1>9, <1>10, <1>11, <1>12 DEF SearchInv, CellNow, SameSearch
<1>14. /\ FilesOK' /\ EvidenceStep
       /\ coverage' # Absent => AllBacked(coverage.cells)'
       /\ AllBacked(search.done)' /\ AllBacked(search.previous)'
       /\ journal' # Absent
       /\ \A c \in DOMAIN Rows' : c \notin DOMAIN rows => c \in DOMAIN Rows /\ Rows'[c] = Rows[c]
  BY <1>2, <1>5, <1>6, <1>7, <1>10, SaveKeeps
<1>15. Kept'
  BY <1>9, <1>14 DEF Kept
<1>16. AuditFirst'
  BY <1>5 DEF AuditFirst
<1>17. RowsKnown'
  <2>1. Screened' = Screened
    BY <1>10 DEF Screened
  <2>2. Confirming' /\ Candidate' = Candidate
    BY <1>10, <1>11, <2>1 DEF Confirming, Candidate
  <2>3. InTrial(Candidate)'
    BY <1>11, <2>2 DEF InTrial, Finalist
  <2>4. \A c : InTrial(c) => c = Candidate
    BY DEF InTrial
  <2>5. \A c \in DOMAIN search.rows \cap DOMAIN Rows :
            (c # Candidate /\ Rows[c].full /\ Rows[c].correct) =>
                /\ search.rows[c].full /\ search.rows[c].correct
                /\ search.rows[c].samples >= Rows[c].samples
    BY <1>5, <2>4 DEF SearchInv, RowsKnown
  <2>6. \A c : c = Candidate => InTrial(c)'
    BY <1>11, <2>2 DEF InTrial, Finalist
  <2>. QED
    BY <1>4, <1>10, <1>14, <2>5, <2>6 DEF RowsKnown
<1>18. CellsTrue'
  BY <1>5, <1>10, <1>14 DEF CellsTrue
<1>. QED
  BY <1>12, <1>13, <1>14, <1>15, <1>16, <1>17, <1>18 DEF SearchInv

LEMMA ConfirmRunKeeps == ASSUME SearchInv, ConfirmRun PROVE SearchInv' /\ EvidenceStep
<1>1. Confirming /\ Finalist /\ Samples(Candidate) < Trials /\ UNCHANGED <<coverage, snapshot>>
  BY DEF ConfirmRun
<1>2. CASE /\ SaveRows(Entry(Candidate, Row(TRUE, Samples(Candidate) + 1, TRUE, "screened")))
           /\ search' = [search EXCEPT !.kept = TRUE]
  BY <1>1, <1>2, TrialKeeps
<1>3. CASE Settle(Candidate, Row(TRUE, Samples(Candidate), FALSE, "failed"))
  BY <1>1, <1>3, TrialFailsKeeps
<1>. QED
  BY <1>2, <1>3 DEF ConfirmRun

LEMMA RunRaisesKeeps == ASSUME SearchInv, RunRaises PROVE SearchInv'
<1>1. FilesSame /\ \E cause : search' = [pc |-> "raised", cause |-> cause]
  BY DEF RunRaises, FilesSame
<1>. QED
  BY <1>1, SearchEnds

LEMMA SaveCellKeeps == ASSUME SearchInv, SaveCell PROVE SearchInv' /\ EvidenceStep
<1>1. /\ search.pc = "confirm" /\ search.next > Len(Screened) /\ SaveRows(search.rows)
      /\ UNCHANGED <<coverage, snapshot>>
      /\ search' = [search EXCEPT !.pc = "close", !.kept = TRUE]
      /\ search.pc \in InCell /\ Started
  BY DEF SaveCell, InCell, InSearch, Started
<1>2. "pc" \in DOMAIN search /\ SearchFields \subseteq DOMAIN search
      /\ {"cell", "rows"} \subseteq DOMAIN search /\ IsRows(search.rows, Candidates)
      /\ DOMAIN search.rows = Members(Screened) /\ Screened \in Seq(Candidates)
      /\ search.next \in Nat
  BY <1>1, CellFacts DEF SearchInv, SearchOK, CellNow
<1>3. /\ DOMAIN search' = DOMAIN search /\ search'.pc = "close" /\ search'.kept = TRUE
      /\ \A f \in DOMAIN search \ {"pc", "kept"} : search'[f] = search[f]
  BY <1>1, <1>2 DEF SearchFields
<1>4. SameSearch /\ search'.rows = search.rows /\ search'.cell = search.cell
  BY <1>2, <1>3 DEF SameSearch, SearchFields
<1>5. SearchOK' /\ Work' = Work /\ Started'
  BY <1>1, <1>3, <1>4, SameOK DEF SearchInv, InSearch, InCell
<1>6. CellNow'
  BY <1>1, <1>2, <1>3, <1>4, <1>5 DEF SearchInv, CellNow, SameSearch
<1>7. ~ Confirming
  BY <1>1, <1>2 DEF Confirming
<1>8. Sound(search.rows)
  BY <1>1, <1>7 DEF SearchInv, RowsKnown, Sound, InTrial
<1>9. /\ FilesOK' /\ EvidenceStep
      /\ coverage' # Absent => AllBacked(coverage.cells)'
      /\ AllBacked(search.done)' /\ AllBacked(search.previous)'
      /\ journal' # Absent
      /\ \A c \in DOMAIN search.rows : c \in DOMAIN Rows' /\ Rows'[c] = search.rows[c]
      /\ \A c \in DOMAIN Rows' : c \notin DOMAIN search.rows => c \in DOMAIN Rows /\ Rows'[c] = Rows[c]
  BY <1>1, <1>2, <1>4, <1>8, SaveKeeps
<1>10. Kept'
  BY <1>3, <1>9 DEF Kept
<1>11. AuditFirst'
  <2>1. ASSUME coverage = Absent
        PROVE  Bare(Rows)' /\ Bare(search.rows)' /\ search'.cell.order = << >>
    <3>1. Bare(Rows) /\ Bare(search.rows) /\ search.cell.order = << >>
      BY <1>1, <2>1 DEF SearchInv, AuditFirst
    <3>. QED
      BY <1>4, <1>9, <3>1 DEF Bare
  <2>. QED
    BY <1>1, <1>3, <2>1 DEF AuditFirst
<1>12. RowsKnown'
  BY <1>4, <1>9, TogetherKnown
<1>13. CellsTrue'
  BY <1>2, <1>4, <1>9 DEF CellsTrue, Screened
<1>. QED
  BY <1>5, <1>6, <1>9, <1>10, <1>11, <1>12, <1>13 DEF SearchInv

\* A cell that is closed has in the journal what it has in the search.
LEMMA CloseBacked ==
    ASSUME SearchInv, search.pc = "close"
    PROVE  /\ CellOK([search.cell EXCEPT !.complete = TRUE])
           /\ Backed([search.cell EXCEPT !.complete = TRUE])
<1>1. search.pc \in InCell
  BY DEF InCell
<1>2. /\ CellOK(search.cell) /\ IsRows(search.rows, Candidates)
      /\ DOMAIN search.rows = Members(search.cell.order)
      /\ \A c \in DOMAIN search.rows : search.cell.status[c] = search.rows[c].status
  BY <1>1, CellFacts DEF Screened
<1>. DEFINE cell == [search.cell EXCEPT !.complete = TRUE]
<1>3. /\ cell \in CellSet /\ cell.order = search.cell.order /\ cell.status = search.cell.status
      /\ cell.work = search.cell.work
  BY <1>2 DEF CellOK, CellSet
<1>. HIDE DEF cell
<1>4. \A c \in Members(search.cell.order) : c \in DOMAIN Rows /\ Rows[c] = search.rows[c]
  BY DEF SearchInv, CellsTrue
<1>5. \A c \in DOMAIN search.rows : search.rows[c].status = "measured" => Settled(search.rows[c])
  BY <1>2 DEF IsRows, RowOK
<1>6. Backed(cell)
  BY <1>2, <1>3, <1>4, <1>5 DEF Backed
<1>7. CellOK(cell)
  BY <1>2, <1>3 DEF CellOK
<1>. QED
  BY <1>6, <1>7 DEF cell

\* A search between two cells, with another cell behind it.
LEMMA BetweenKeeps ==
    ASSUME SearchInv, Started, UNCHANGED <<journal, snapshot>>, NEW cell, CellOK(cell), Backed(cell),
           SearchFields \subseteq DOMAIN search', "pc" \in DOMAIN search', search'.pc = "cells",
           search'.protocol = search.protocol, search'.at = search.at + 1,
           search'.done = Append(search.done, cell), search'.previous = search.previous,
           search.kept, search'.kept = TRUE,
           coverage' = coverage \/ coverage' = Audit(search'.done),
           coverage' # Absent
    PROVE  SearchInv'
<1>1. Rows' = Rows
  BY DEF Rows
<1>2. /\ SearchOK /\ CellsOK(search.done) /\ search.at \in Nat \ {0}
      /\ AllBacked(search.done) /\ AllBacked(search.previous)
      /\ coverage # Absent => AllBacked(coverage.cells)
  BY DEF SearchInv, SearchOK, Started, CellsTrue
<1>4. PICK cells : cells = Append(search.done, cell) /\ search'.done = cells
  OBVIOUS
<1>3. /\ CellsOK(cells)
      /\ \A i \in DOMAIN cells :
            cells[i] = cell \/ \E j \in DOMAIN search.done : cells[i] = search.done[j]
  BY <1>2, <1>4, CellsAppend
<1>5. search'.pc \in InSearch /\ search'.pc \notin InCell /\ Started'
      /\ search'.pc \notin {"idle", "raised", "save", "close", "screen", "confirm"}
  BY DEF InSearch, InCell, Started
<1>6. SearchOK'
  <2>1. /\ {"budget", "seeds"} \subseteq DOMAIN search.protocol /\ search.protocol.budget \in Nat
        /\ search.protocol.seeds \in SeedSet /\ CellsOK(search.previous)
    BY <1>2 DEF SearchOK, Started
  <2>2. search'.at \in Nat \ {0}
    BY <1>2
  <2>. QED
    BY <1>3, <1>4, <1>5, <2>1, <2>2 DEF SearchOK
<1>7. CellNow' /\ RowsKnown' /\ AuditFirst'
  BY <1>5 DEF CellNow, RowsKnown, AuditFirst
<1>8. Kept'
  BY <1>5 DEF SearchInv, Kept
<1>9. coverage' = coverage \/
        (/\ {"build", "protocol", "cells"} \subseteq DOMAIN coverage'
         /\ coverage'.cells = cells)
  BY <1>4, AuditFacts DEF Audit
<1>10. FilesOK'
  BY <1>1, <1>3, <1>9 DEF SearchInv, FilesOK
<1>11. CellsTrue'
  <2>1. ASSUME NEW c, Backed(c) PROVE Backed(c)'
    BY <1>1, <2>1 DEF Backed
  <2>2. \A i \in DOMAIN cells : Backed(cells[i])
    BY <1>2, <1>3 DEF AllBacked
  <2>3. AllBacked(cells)'
    BY <2>1, <2>2 DEF AllBacked
  <2>4. AllBacked(search.done)' /\ AllBacked(search.previous)'
    BY <1>2, <1>4, <2>1, <2>2 DEF AllBacked
  <2>5. AllBacked(coverage.cells)'
    BY <1>2, <1>9, <2>1, <2>2 DEF AllBacked
  <2>. QED
    BY <1>5, <2>4, <2>5 DEF CellsTrue
<1>. QED
  BY <1>6, <1>7, <1>8, <1>10, <1>11 DEF SearchInv

LEMMA CloseCellKeeps == ASSUME SearchInv, CloseCell PROVE SearchInv'
<1>. DEFINE cell == [search.cell EXCEPT !.complete = TRUE]
<1>1. CellOK(cell) /\ Backed(cell)
  BY CloseBacked DEF CloseCell
<1>2. /\ coverage' = Audit(Append(search.done, cell)) /\ UNCHANGED <<journal, snapshot>>
      /\ search' = [pc |-> "cells", build |-> search.build, protocol |-> search.protocol,
                    at |-> search.at + 1, done |-> Append(search.done, cell),
                    previous |-> search.previous, kept |-> TRUE]
  BY DEF CloseCell
<1>. HIDE DEF cell
<1>3. search.kept /\ Started
  BY DEF SearchInv, Kept, CloseCell, Started, InSearch, InCell
<1>4. /\ coverage' = Audit(search'.done) /\ coverage' # Absent
      /\ SearchFields \subseteq DOMAIN search' /\ "pc" \in DOMAIN search' /\ search'.pc = "cells"
      /\ search'.protocol = search.protocol /\ search'.at = search.at + 1
      /\ search'.done = Append(search.done, cell) /\ search'.previous = search.previous
      /\ search'.kept = TRUE
  BY <1>2, AuditFacts DEF SearchFields
<1>. QED
  BY <1>1, <1>2, <1>3, <1>4, BetweenKeeps

LEMMA PreviousFacts ==
    ASSUME SearchInv, Started, Previous # {}
    PROVE  /\ CellOK(PreviousCell) /\ Backed(PreviousCell) /\ PreviousCell.work = Work
           /\ search.kept
           /\ coverage # Absent \/ search.pc = "close" \/ search.pc = "audit"
<1>1. PICK i \in Previous : PreviousCell = search.previous[i]
  BY DEF PreviousCell
<1>2. i \in DOMAIN search.previous /\ search.previous[i].work = Work
  BY <1>1 DEF Previous
<1>3. CellsOK(search.previous) /\ AllBacked(search.previous) /\ search.kept \in BOOLEAN
  BY DEF SearchInv, SearchOK, CellsTrue, Started
<1>4. search.kept
  BY <1>2, <1>3 DEF SearchInv, Kept
<1>5. coverage # Absent \/ search.pc = "close" \/ search.pc = "audit"
  BY <1>4 DEF SearchInv, AuditFirst
<1>6. CellOK(PreviousCell)
  BY <1>1, <1>2, <1>3 DEF CellsOK
<1>7. Backed(PreviousCell)
  BY <1>1, <1>2, <1>3 DEF AllBacked
<1>. QED
  BY <1>1, <1>2, <1>4, <1>5, <1>6, <1>7

LEMMA SkipCellKeeps == ASSUME SearchInv, SkipCell PROVE SearchInv'
<1>1. /\ search.pc = "cells" /\ Previous # {} /\ UNCHANGED <<coverage, journal, snapshot>>
      /\ search' = [search EXCEPT !.done = Append(search.done, PreviousCell), !.at = search.at + 1]
      /\ Started
  BY DEF SkipCell, AtCell, Completed, Started, InSearch
<1>. DEFINE cell == PreviousCell
<1>2. CellOK(cell) /\ Backed(cell) /\ search.kept /\ coverage # Absent
  BY <1>1, PreviousFacts
<1>. HIDE DEF cell
<1>3. "pc" \in DOMAIN search /\ SearchFields \subseteq DOMAIN search /\ search.kept \in BOOLEAN
  BY <1>1 DEF SearchInv, SearchOK, Started
<1>4. /\ DOMAIN search' = DOMAIN search
      /\ search'.done = Append(search.done, cell) /\ search'.at = search.at + 1
      /\ \A f \in DOMAIN search \ {"done", "at"} : search'[f] = search[f]
  BY <1>1, <1>3 DEF cell, SearchFields
<1>5. /\ search'.pc = "cells" /\ search'.protocol = search.protocol
      /\ search'.previous = search.previous /\ search'.kept = TRUE
  BY <1>1, <1>2, <1>3, <1>4 DEF SearchFields
<1>. QED
  BY <1>1, <1>2, <1>3, <1>4, <1>5, BetweenKeeps

LEMMA FinishKeeps == ASSUME SearchInv, FinishSearch PROVE SearchInv'
<1>1. /\ search.pc = "cells" /\ coverage' = Audit(search.done)
      /\ search' = [search EXCEPT !.pc = "done"] /\ UNCHANGED <<journal, snapshot>> /\ Started
  BY DEF FinishSearch, Started, InSearch
<1>2. Rows' = Rows
  BY <1>1 DEF Rows
<1>3. "pc" \in DOMAIN search /\ SearchFields \subseteq DOMAIN search
  BY <1>1 DEF SearchInv, SearchOK, Started
<1>4. /\ DOMAIN search' = DOMAIN search /\ search'.pc = "done"
      /\ \A f \in DOMAIN search \ {"pc"} : search'[f] = search[f]
  BY <1>1, <1>3
<1>5. SameSearch /\ search'.kept = search.kept
  BY <1>3, <1>4 DEF SameSearch, SearchFields
<1>6. search'.pc \in InSearch /\ search'.pc \notin InCell
      /\ search'.pc \notin {"idle", "raised", "save", "close", "screen", "confirm"}
  BY <1>4 DEF InSearch, InCell
<1>7. SearchOK' /\ Started'
  BY <1>1, <1>3, <1>5, <1>6, SameOK DEF SearchInv, SearchOK, Started
<1>8. CellNow' /\ RowsKnown'
  BY <1>6 DEF CellNow, RowsKnown
<1>9. /\ coverage' # Absent /\ coverage'.cells = search.done
      /\ {"build", "protocol", "cells"} \subseteq DOMAIN coverage'
  BY <1>1, AuditFacts
<1>10. AuditFirst'
  BY <1>9 DEF AuditFirst
<1>11. CellsOK(search.done) /\ AllBacked(search.done) /\ AllBacked(search.previous)
  BY <1>1 DEF SearchInv, SearchOK, CellsTrue, Started
<1>12. FilesOK'
  BY <1>1, <1>2, <1>9, <1>11 DEF SearchInv, FilesOK
<1>13. Kept'
  BY <1>1, <1>2, <1>5, <1>6, <1>9 DEF SearchInv, Kept, SameSearch, Bare, Started
<1>14. CellsTrue'
  <2>1. ASSUME NEW c, Backed(c) PROVE Backed(c)'
    BY <1>2, <2>1 DEF Backed
  <2>. QED
    BY <1>5, <1>6, <1>9, <1>11, <2>1 DEF CellsTrue, AllBacked, SameSearch
<1>. QED
  BY <1>7, <1>8, <1>10, <1>12, <1>13, <1>14 DEF SearchInv

LEMMA FreshFacts ==
    ASSUME SearchInv, search.pc = "cells", search.at <= Len(Workloads)
    PROVE  /\ CellOK(FreshCell) /\ FreshCell.work = Work /\ ~ FreshCell.complete
           /\ FreshCell.order = << >> /\ Members(FreshCell.order) = {}
<1>1. Started
  BY DEF Started, InSearch
<1>2. Work \in Members(Workloads) /\ Requested \in Nat
  BY <1>1, WorkFacts DEF SearchInv
<1>3. Empty \in Statuses /\ DOMAIN Empty = {}
  <2>1. Empty \in [{} -> Status]
    BY DEF Empty
  <2>. QED
    BY <2>1 DEF Statuses, Empty
<1>4. << >> \in Seq(Candidates) /\ Members(<< >>) = {}
  BY DEF Members
<1>5. FreshCell \in CellSet
  BY <1>2, <1>3, <1>4 DEF FreshCell, CellSet
<1>. QED
  BY <1>3, <1>4, <1>5 DEF FreshCell, CellOK

LEMMA ResumedFacts ==
    ASSUME SearchInv, search.pc = "cells", search.at <= Len(Workloads), ResumeFast
    PROVE  /\ CellOK(ResumedCell) /\ ResumedCell.work = Work /\ ~ ResumedCell.complete
           /\ \A c \in Members(ResumedCell.order) : c \in DOMAIN Retained
           /\ \A c \in Members(ResumedCell.order) :
                 ResumedCell.status[c] = Retained[c].status
           /\ search.kept
<1>1. Started
  BY DEF Started, InSearch
<1>2. CellOK(PreviousCell) /\ PreviousCell.work = Work /\ search.kept
  BY <1>1, PreviousFacts DEF ResumeFast, PrefixPersisted
<1>3. /\ PreviousCell.order \in Seq(Candidates) /\ PreviousCell.screened \in Nat
      /\ Members(PreviousCell.order) \subseteq CandidateOf(Work)
  BY <1>2 DEF CellOK, CellSet
<1>4. Work \in Members(Workloads) /\ Requested \in Nat
  BY <1>1, WorkFacts DEF SearchInv
<1>. DEFINE order == At(PreviousCell.order, PreviousCell.screened)
            status == [c \in Members(order) |-> Retained[c].status]
<1>5. /\ order \in Seq(Candidates) /\ Members(order) \subseteq Members(PreviousCell.order)
      /\ \A c \in Members(order) :
            \E i \in 1..PreviousCell.screened : i <= Len(PreviousCell.order) /\ PreviousCell.order[i] = c
  BY <1>3, AtFacts
<1>6. \A c \in Members(order) : c \in DOMAIN Retained
  BY <1>5 DEF ResumeFast, PrefixPersisted
<1>. HIDE DEF order
<1>7. IsRows(Retained, Candidates)
  BY <1>1, RetainedFacts DEF SearchInv
<1>8. \A c \in Members(order) : Retained[c].status \in Status
  BY <1>6, <1>7 DEF IsRows, RowOK, RowSet
<1>9. Members(order) \in SUBSET Candidates
  BY <1>3, <1>5 DEF CandidateOf
<1>10. status \in Statuses /\ DOMAIN status = Members(order)
  BY <1>8, <1>9, StatusRows
<1>11. \A c \in Members(order) : status[c] = Retained[c].status
  OBVIOUS
<1>12. Len(order) \in Nat
  BY <1>5
<1>. HIDE DEF status
<1>. DEFINE fresh == FreshCell
<1>13. /\ ResumedCell = [fresh EXCEPT !.order = order, !.screened = Len(order), !.status = status]
       /\ CellOK(fresh) /\ fresh.work = Work /\ ~ fresh.complete
  BY FreshFacts DEF ResumedCell, order, status
<1>. HIDE DEF fresh
<1>14. /\ ResumedCell \in CellSet /\ ResumedCell.work = Work /\ ~ ResumedCell.complete
       /\ ResumedCell.order = order /\ ResumedCell.status = status
  BY <1>5, <1>10, <1>12, <1>13 DEF CellOK, CellSet
<1>15. CellOK(ResumedCell)
  BY <1>3, <1>5, <1>10, <1>14 DEF CellOK
<1>. QED
  BY <1>2, <1>6, <1>11, <1>14, <1>15

LEMMA OpenCellKeeps == ASSUME SearchInv, OpenCell PROVE SearchInv'
<1>. DEFINE cell == IF ResumeFast THEN ResumedCell ELSE FreshCell
            rows == [c \in Members(cell.order) |-> Retained[c]]
<1>1. /\ search.pc = "cells" /\ search.at <= Len(Workloads) /\ FilesSame /\ Started
      /\ search' = [cell |-> cell, rows |-> rows] ++ [search EXCEPT !.pc = "select"]
  BY DEF OpenCell, AtCell, FilesSame, Started, InSearch
<1>2. /\ CellOK(cell) /\ cell.work = Work /\ ~ cell.complete
      /\ \A c \in Members(cell.order) : c \in DOMAIN Retained
      /\ \A c \in Members(cell.order) : cell.status[c] = Retained[c].status
      /\ ~ search.kept => cell.order = << >>
  BY <1>1, ResumedFacts, FreshFacts
<1>. HIDE DEF cell
<1>3. DOMAIN rows = Members(cell.order) /\ \A c \in Members(cell.order) : rows[c] = Retained[c]
  OBVIOUS
<1>. HIDE DEF rows
<1>4. FilesOK' /\ Rows' = Rows
  BY <1>1, FilesStay DEF SearchInv
<1>5. /\ IsRows(Retained, Candidates)
      /\ \A c \in DOMAIN Retained : search.kept /\ c \in DOMAIN Rows /\ Retained[c] = Rows[c]
  BY <1>1, RetainedFacts DEF SearchInv
<1>6. "pc" \in DOMAIN search /\ SearchFields \subseteq DOMAIN search /\ search.kept \in BOOLEAN
  BY <1>1 DEF SearchInv, SearchOK, Started
<1>7. /\ DOMAIN search' = DOMAIN search \cup {"cell", "rows"}
      /\ search'.cell = cell /\ search'.rows = rows /\ search'.pc = "select"
      /\ \A f \in DOMAIN search \ {"pc", "cell", "rows"} : search'[f] = search[f]
  BY <1>1, <1>6 DEF ++
<1>8. SameSearch /\ search'.kept = search.kept
  BY <1>6, <1>7 DEF SameSearch, SearchFields
<1>9. SearchOK' /\ Work' = Work /\ Started'
  BY <1>1, <1>6, <1>7, <1>8, SameOK DEF SearchInv, InSearch, InCell
<1>10. \A c \in DOMAIN rows : c \in DOMAIN Rows /\ rows[c] = Rows[c]
  BY <1>2, <1>3, <1>5
<1>11. IsRows(rows, CandidateOf(Work))
  <2>1. DOMAIN rows \subseteq CandidateOf(Work)
    BY <1>2, <1>3 DEF CellOK
  <2>2. \A c \in DOMAIN rows : RowOK(Rows[c])
    BY <1>10 DEF SearchInv, FilesOK, IsRows
  <2>3. \A c \in DOMAIN rows : RowOK(rows[c])
    BY <1>10, <2>2
  <2>. QED
    BY <2>1, <2>3 DEF IsRows
<1>12. CellNow'
  BY <1>1, <1>2, <1>3, <1>7, <1>8, <1>9, <1>11 DEF CellNow, SameSearch
<1>13. search'.pc \in InCell /\ search'.pc \notin {"audit", "close", "save"}
  BY <1>7 DEF InCell
<1>14. Kept'
  <2>1. ASSUME ~ search.kept
        PROVE  /\ search'.previous = << >> /\ search'.done = << >>
               /\ Bare(Rows)' /\ Bare(search.rows)'
               /\ coverage' # Absent => \A i \in DOMAIN coverage'.cells :
                     coverage'.cells[i].complete => coverage'.cells[i].order = << >>
    <3>1. /\ search.previous = << >> /\ search.done = << >> /\ Bare(Rows)
          /\ coverage # Absent => \A i \in DOMAIN coverage.cells :
                     coverage.cells[i].complete => coverage.cells[i].order = << >>
      BY <1>1, <2>1 DEF SearchInv, Kept
    <3>2. Bare(Rows)' /\ Bare(search.rows)'
      BY <1>4, <1>7, <1>10, <3>1 DEF Bare
    <3>. QED
      BY <1>1, <1>8, <3>1, <3>2 DEF SameSearch, FilesSame
  <2>2. search.kept => journal' # Absent
    BY <1>1 DEF SearchInv, Kept, FilesSame
  <2>. QED
    BY <1>8, <1>13, <2>1, <2>2 DEF Kept
<1>15. AuditFirst'
  <2>1. ASSUME coverage = Absent
        PROVE  Bare(Rows)' /\ Bare(search.rows)' /\ ~ search'.kept /\ search'.cell.order = << >>
    <3>1. Bare(Rows) /\ ~ search.kept
      BY <1>1, <2>1 DEF SearchInv, AuditFirst
    <3>2. Bare(Rows)' /\ Bare(search.rows)'
      BY <1>4, <1>7, <1>10, <3>1 DEF Bare
    <3>. QED
      BY <1>2, <1>7, <1>8, <3>1, <3>2
  <2>. QED
    BY <1>1, <1>13, <2>1 DEF AuditFirst, FilesSame
<1>16. RowsKnown'
  <2>1. \A c \in DOMAIN search'.rows : c \in DOMAIN Rows' /\ Rows'[c] = search'.rows[c]
    BY <1>4, <1>7, <1>10
  <2>. QED
    BY <1>4, <2>1, TogetherKnown
<1>17. CellsTrue'
  <2>1. ASSUME NEW c, Backed(c) PROVE Backed(c)'
    BY <1>4, <2>1 DEF Backed
  <2>. QED
    BY <1>1, <1>8, <1>13, <2>1 DEF SearchInv, CellsTrue, AllBacked, FilesSame, SameSearch
<1>. QED
  BY <1>4, <1>9, <1>12, <1>14, <1>15, <1>16, <1>17 DEF SearchInv

\* A search begins on whatever files the earlier ones have left.
LEMMA BeginKeeps ==
    ASSUME SearchInv, NEW b, NEW budget \in Nat, NEW offered \in SeedSet,
           BeginSearch(b, budget, offered)
    PROVE  SearchInv'
<1>. DEFINE protocol == [budget |-> budget, seeds |-> Seeds(offered)]
            previous == PreviousCells(protocol)
<1>1. Seeds(offered) \in SeedSet
  BY DEF SearchInv, FilesOK, Seeds
<1>2. snapshot' = Seeds(offered) /\ UNCHANGED <<coverage, journal>>
  BY DEF BeginSearch
<1>3. FilesOK' /\ Rows' = Rows
  BY <1>1, <1>2 DEF SearchInv, FilesOK, Rows
<1>4. coverage # Absent => AllBacked(coverage.cells) /\ CellsOK(coverage.cells)
  BY DEF SearchInv, CellsTrue, FilesOK
<1>5. /\ CellsOK(previous) /\ AllBacked(previous)
      /\ ~ Resumable => previous = << >>
  <2>1. CellsOK(<< >>) /\ AllBacked(<< >>)
    BY DEF CellsOK, AllBacked
  <2>. QED
    BY <1>4, <2>1 DEF PreviousCells, Resumable
<1>6. CASE search' = [pc |-> "raised", cause |-> "identity"]
  <2>1. search'.pc \notin InSearch /\ search'.pc \notin InCell
        /\ search'.pc \notin {"idle", "save", "screen", "confirm", "close"}
        /\ search'.pc = "raised" /\ {"pc", "cause"} \subseteq DOMAIN search'
    BY <1>6 DEF InSearch, InCell
  <2>2. SearchOK' /\ CellNow' /\ RowsKnown'
    BY <2>1 DEF SearchOK, CellNow, RowsKnown
  <2>3. Kept' /\ AuditFirst'
    BY <1>2, <1>3, <2>1 DEF SearchInv, Kept, AuditFirst, Started, Bare
  <2>4. CellsTrue'
    <3>1. ASSUME NEW c, Backed(c) PROVE Backed(c)'
      BY <1>3, <3>1 DEF Backed
    <3>. QED
      BY <1>2, <1>4, <2>1, <3>1 DEF CellsTrue, AllBacked, Started
  <2>. QED
    BY <1>3, <2>2, <2>3, <2>4 DEF SearchInv
<1>7. CASE search' = [pc |-> "cells", build |-> b, protocol |-> protocol, at |-> 1,
                      done |-> << >>, previous |-> previous, kept |-> Resumable]
  <2>. HIDE DEF previous
  <2>1. /\ search'.pc = "cells" /\ DOMAIN search' = SearchFields \cup {"pc"}
        /\ search'.done = << >> /\ search'.previous = previous /\ search'.at = 1
        /\ search'.protocol = protocol /\ search'.kept = Resumable
    BY <1>7 DEF SearchFields
  <2>2. search'.pc \in InSearch /\ search'.pc \notin InCell /\ Started'
        /\ search'.pc \notin {"idle", "raised", "save", "screen", "confirm", "close"}
    BY <2>1 DEF InSearch, InCell, Started
  <2>3. CellsOK(<< >>)
    BY DEF CellsOK
  <2>4. Resumable \in BOOLEAN
    BY DEF Resumable
  <2>12. /\ {"budget", "seeds"} \subseteq DOMAIN protocol
         /\ protocol.budget \in Nat /\ protocol.seeds \in SeedSet
    BY <1>1
  <2>. HIDE DEF protocol
  <2>5. SearchOK'
    BY <1>5, <2>1, <2>2, <2>3, <2>4, <2>12 DEF SearchOK
  <2>6. CellNow' /\ RowsKnown'
    BY <2>2 DEF CellNow, RowsKnown
  <2>7. Resumable => journal' # Absent
    BY <1>2 DEF Resumable
  <2>8. ASSUME ~ Resumable
        PROVE  /\ previous = << >> /\ Bare(Rows)
               /\ coverage # Absent => \A i \in DOMAIN coverage.cells :
                     coverage.cells[i].complete => coverage.cells[i].order = << >>
    <3>1. CASE coverage = Absent
      BY <1>5, <2>8, <3>1 DEF SearchInv, AuditFirst
    <3>2. CASE coverage # Absent
      <4>1. DOMAIN Rows = {}
        BY <2>8, <3>2 DEF Resumable, Rows, Empty
      <4>2. ASSUME NEW i \in DOMAIN coverage.cells, coverage.cells[i].complete
            PROVE  coverage.cells[i].order = << >>
        <5>1. coverage.cells[i].order \in Seq(Candidates)
          BY <1>4, <3>2 DEF CellsOK, CellOK, CellSet
        <5>2. Members(coverage.cells[i].order) = {}
          BY <1>4, <3>2, <4>1, <4>2 DEF AllBacked, Backed
        <5>. HIDE DEF Members
        <5>3. ASSUME coverage.cells[i].order # << >> PROVE FALSE
          <6>1. 1 \in DOMAIN coverage.cells[i].order
            BY <5>1, <5>3
          <6>. QED
            BY <5>2, <6>1 DEF Members
        <5>. QED
          BY <5>3
      <4>. QED
        BY <1>5, <2>8, <4>1, <4>2 DEF Bare
    <3>. QED
      BY <3>1, <3>2
  <2>9. Kept'
    BY <1>2, <1>3, <2>1, <2>2, <2>7, <2>8 DEF Kept, Bare
  <2>10. AuditFirst'
    BY <1>2, <1>3, <2>1, <2>2 DEF SearchInv, AuditFirst, Bare, Resumable
  <2>11. CellsTrue'
    <3>1. ASSUME NEW c, Backed(c) PROVE Backed(c)'
      BY <1>3, <3>1 DEF Backed
    <3>2. AllBacked(search.done)'
      BY <2>1 DEF AllBacked
    <3>. QED
      BY <1>2, <1>4, <1>5, <2>1, <2>2, <3>1, <3>2 DEF CellsTrue, AllBacked
  <2>. QED
    BY <1>3, <2>5, <2>6, <2>9, <2>10, <2>11 DEF SearchInv
<1>. QED
  BY <1>6, <1>7 DEF BeginSearch

\* Every step of the search, one by one.
LEMMA SearchStepKeeps == ASSUME SearchInv, SearchStep PROVE SearchInv' /\ EvidenceStep
<1>1. ASSUME UNCHANGED journal PROVE EvidenceStep
  BY <1>1, NoSave DEF SearchInv
<1>2. CASE SkipCell
  BY <1>1, <1>2, SkipCellKeeps DEF SkipCell
<1>3. CASE OpenCell
  BY <1>1, <1>3, OpenCellKeeps DEF OpenCell
<1>4. CASE Select
  BY <1>1, <1>4, SelectKeeps DEF Select
<1>5. CASE StopScreening
  BY <1>1, <1>5, StopKeeps DEF StopScreening
<1>6. CASE ScreenCached
  BY <1>1, <1>6, ScreenCachedKeeps DEF ScreenCached
<1>7. CASE WriteAudit
  BY <1>1, <1>7, WriteAuditKeeps DEF WriteAudit
<1>8. CASE Rank
  BY <1>1, <1>8, RankKeeps DEF Rank
<1>9. CASE RunRaises
  BY <1>1, <1>9, RunRaisesKeeps DEF RunRaises
<1>10. CASE CloseCell
  BY <1>1, <1>10, CloseCellKeeps DEF CloseCell
<1>11. CASE FinishSearch
  BY <1>1, <1>11, FinishKeeps DEF FinishSearch
<1>. QED
  BY <1>2, <1>3, <1>4, <1>5, <1>6, <1>7, <1>8, <1>9, <1>10, <1>11, ScreenRunKeeps, WriteRowsKeeps,
     KeepScreenedKeeps, ConfirmedKeeps, ConfirmRunKeeps, SaveCellKeeps DEF SearchStep

----------------------------------------------------------------------------
(* The steps of the programs.                                              *)

LEMMA Counted ==
    ASSUME TunerOK, Setback \/ UNCHANGED setbacks PROVE setbacks' \in 0..MaxSetbacks
BY TunerAssumption DEF TunerOK, Setback

LEMMA TunerStays ==
    ASSUME TunerOK, UNCHANGED <<tuner, tun, build, migration>>, Setback \/ UNCHANGED setbacks
    PROVE  TunerOK'
BY Counted DEF TunerOK

LEMMA MigrationStays ==
    ASSUME MigrationOK, UNCHANGED <<mig, tun>> PROVE MigrationOK'
BY DEF MigrationOK

\* The shape of a calibration.
CalShape ==
    \/ cal = Out
    \/ cal \in [pc : Before, build : Nat, budget : Nat, full : BOOLEAN]
    \/ /\ DOMAIN cal = {"pc", "build", "budget", "full", "rows", "next"}
       /\ cal.pc \in Measured /\ cal.budget \in Nat /\ cal.next \in Nat \ {0}
    \/ IsExit(cal)

LEMMA CalStays ==
    ASSUME CalibrationOK, UNCHANGED <<mig, search, held>>,
           cal.pc \notin {"search", "publish"}, cal'.pc # "publish", cal # Out, CalShape'
    PROVE  CalibrationOK'
BY DEF CalibrationOK, CalShape, IsExit

LEMMA FailShape ==
    ASSUME NEW cause, Fail(cause)
    PROVE  CalShape' /\ cal'.pc = "exit"
BY DEF Fail, CalShape, IsExit

LEMMA IncumbentsStay ==
    ASSUME IncumbentsOK, operator' = operator,
           \/ cal'.pc \notin Measured
           \/ /\ cal.pc \in Measured /\ cal'.pc \in Measured \ {"incumbents", "search"}
              /\ cal'.rows = cal.rows
    PROVE  IncumbentsOK'
BY DEF IncumbentsOK, Measured

\* A step of the calibration that leaves the programs around it alone.
CalFrame == UNCHANGED <<tunervars, migvars, search, held>>

LEMMA FrameKeeps ==
    ASSUME SessionInv, CalFrame, Setback \/ UNCHANGED setbacks,
           cal.pc \notin {"search", "publish"}, cal'.pc # "publish", cal # Out,
           CalShape', IncumbentsOK'
    PROVE  SessionInv'
<1>1. TunerOK'
  BY TunerStays DEF SessionInv, CalFrame, tunervars, migvars
<1>2. MigrationOK'
  BY MigrationStays DEF SessionInv, CalFrame, tunervars, migvars
<1>3. CalibrationOK'
  BY CalStays DEF SessionInv, CalFrame, migvars
<1>. QED
  BY <1>1, <1>2, <1>3 DEF SessionInv

LEMMA CheckDeviceKeeps == ASSUME SessionInv, CalFrame, CheckDevice PROVE SessionInv'
<1>1. cal.pc = "device" /\ operator' = operator /\ UNCHANGED setbacks
  BY DEF CheckDevice
<1>2. cal # Out /\ cal \in [pc : Before, build : Nat, budget : Nat, full : BOOLEAN]
  BY <1>1 DEF SessionInv, CalibrationOK, Out, Measured, IsExit
<1>3. CASE Go("write-device")
  <2>1. CalShape' /\ cal'.pc = "write-device"
    BY <1>2, <1>3 DEF Go, CalShape, Before
  <2>2. IncumbentsOK'
    BY <1>1, <2>1, IncumbentsStay DEF SessionInv, Measured
  <2>. QED
    BY <1>1, <1>2, <2>1, <2>2, FrameKeeps
<1>4. CASE Fail("unreadable")
  <2>1. CalShape' /\ cal'.pc = "exit"
    BY <1>4, FailShape
  <2>2. IncumbentsOK'
    BY <1>1, <2>1, IncumbentsStay DEF SessionInv, Measured
  <2>. QED
    BY <1>1, <1>2, <2>1, <2>2, FrameKeeps
<1>. QED
  BY <1>3, <1>4 DEF CheckDevice

LEMMA WriteDeviceKeeps == ASSUME SessionInv, CalFrame, WriteDevice PROVE SessionInv'
<1>1. cal.pc = "write-device" /\ operator' = operator /\ UNCHANGED setbacks /\ Go("stages")
  BY DEF WriteDevice
<1>2. cal # Out /\ cal \in [pc : Before, build : Nat, budget : Nat, full : BOOLEAN]
  BY <1>1 DEF SessionInv, CalibrationOK, Out, Measured, IsExit
<1>3. CalShape' /\ cal'.pc = "stages"
  BY <1>1, <1>2 DEF Go, CalShape, Before
<1>4. IncumbentsOK'
  BY <1>1, <1>3, IncumbentsStay DEF SessionInv, Measured
<1>. QED
  BY <1>1, <1>2, <1>3, <1>4, FrameKeeps

LEMMA CalibrateStagesKeeps == ASSUME SessionInv, CalFrame, CalibrateStages PROVE SessionInv'
<1>1. cal.pc = "stages" /\ operator' = operator /\ (Setback \/ UNCHANGED setbacks)
      /\ (Go("identity") \/ Fail("busy"))
  BY DEF CalibrateStages
<1>2. cal # Out /\ cal \in [pc : Before, build : Nat, budget : Nat, full : BOOLEAN]
  BY <1>1 DEF SessionInv, CalibrationOK, Out, Measured, IsExit
<1>3. CalShape' /\ cal'.pc \in {"identity", "exit"}
  <2>1. CASE Go("identity")
    BY <1>2, <2>1 DEF Go, CalShape, Before
  <2>2. CASE Fail("busy")
    BY <2>2, FailShape
  <2>. QED
    BY <1>1, <2>1, <2>2
<1>4. IncumbentsOK'
  BY <1>1, <1>3, IncumbentsStay DEF SessionInv, Measured
<1>. QED
  BY <1>1, <1>2, <1>3, <1>4, FrameKeeps

LEMMA CheckOperatorKeeps == ASSUME SessionInv, CalFrame, CheckOperator PROVE SessionInv'
<1>. DEFINE read == operator # Absent /\ operator_build # NoBuild
            rows == IF read THEN operator.rows ELSE Empty
<1>1. cal.pc = "identity" /\ operator' = operator /\ UNCHANGED setbacks
  BY DEF CheckOperator
<1>2. cal # Out /\ cal \in [pc : Before, build : Nat, budget : Nat, full : BOOLEAN]
  BY <1>1 DEF SessionInv, CalibrationOK, Out, Measured, IsExit
<1>3. CASE read /\ (operator_build # cal.build \/ operator = Torn)
  <2>1. \/ Fail("identity") \/ Fail("unreadable")
    BY <1>3 DEF CheckOperator
  <2>2. CalShape' /\ cal'.pc = "exit"
    BY <2>1, FailShape
  <2>3. IncumbentsOK'
    BY <1>1, <2>2, IncumbentsStay DEF SessionInv, Measured
  <2>. QED
    BY <1>1, <1>2, <2>2, <2>3, FrameKeeps
<1>4. CASE ~ (read /\ (operator_build # cal.build \/ operator = Torn))
  <2>1. cal' = [rows |-> rows, next |-> 1] ++ [cal EXCEPT !.pc = "incumbents"]
    BY <1>4 DEF CheckOperator
  <2>2. IncumbentRows(rows)
    <3>1. read => IncumbentRows(operator.rows)
      BY <1>4 DEF SessionInv, IncumbentsOK
    <3>2. IncumbentRows(Empty)
      BY EmptyRows DEF IncumbentRows
    <3>. QED
      BY <3>1, <3>2
  <2>. HIDE DEF rows
  <2>3. /\ DOMAIN cal' = {"pc", "build", "budget", "full", "rows", "next"}
        /\ cal'.pc = "incumbents" /\ cal'.rows = rows /\ cal'.next = 1
        /\ cal'.budget = cal.budget
    BY <1>2, <2>1 DEF ++
  <2>4. CalShape'
    BY <1>2, <2>3 DEF CalShape, Measured
  <2>5. IncumbentsOK'
    BY <1>1, <2>2, <2>3 DEF SessionInv, IncumbentsOK
  <2>. QED
    BY <1>1, <1>2, <2>3, <2>4, <2>5, FrameKeeps
<1>. QED
  BY <1>3, <1>4

\* Where the incumbents are being measured.
LEMMA IncumbentFacts ==
    ASSUME SessionInv, AtIncumbent
    PROVE  /\ cal.pc = "incumbents" /\ cal # Out
           /\ DOMAIN cal = {"pc", "build", "budget", "full", "rows", "next"}
           /\ cal.budget \in Nat /\ cal.next \in Nat \ {0} /\ IncumbentRows(cal.rows)
           /\ Incumbent \in Name /\ Workloads[cal.next] \in Members(Workloads)
           /\ \A w \in Members(Workloads) :
                 IncumbentOf[w] = Incumbent => w = Workloads[cal.next]
           /\ IncumbentSamples \in Nat
<1>1. cal.pc = "incumbents" /\ cal # Out
  BY DEF AtIncumbent, Out
<1>2. DOMAIN cal = {"pc", "build", "budget", "full", "rows", "next"}
      /\ cal.budget \in Nat /\ cal.next \in Nat \ {0}
  BY <1>1 DEF SessionInv, CalibrationOK, Before, IsExit
<1>3. IncumbentRows(cal.rows)
  BY <1>1 DEF SessionInv, IncumbentsOK, Measured
<1>4. Workloads \in Seq(Members(Workloads)) /\ cal.next \in 1..Len(Workloads)
  BY <1>2, SearchAssumption DEF AtIncumbent
<1>5. Workloads[cal.next] \in Members(Workloads)
  BY <1>4 DEF Members
<1>6. Incumbent \in Name
  BY <1>5 DEF Incumbent, Name
<1>7. \A w \in Members(Workloads) : IncumbentOf[w] = Incumbent => w = Workloads[cal.next]
  BY <1>5, CalibrationAssumption DEF Incumbent
<1>8. IncumbentSamples \in Nat
  BY <1>3 DEF IncumbentRows, IsRows, RowOK, RowSet, IncumbentSamples
<1>. QED
  BY <1>1, <1>2, <1>3, <1>5, <1>6, <1>7, <1>8

LEMMA SaveIncumbentKeeps ==
    ASSUME SessionInv, CalFrame, AtIncumbent, Setback \/ UNCHANGED setbacks,
           NEW row, RowOK(row), row.full, NEW next, next \in {cal.next, cal.next + 1},
           SaveIncumbent(row, next)
    PROVE  SessionInv'
<1>1. /\ cal.pc = "incumbents" /\ cal # Out
      /\ DOMAIN cal = {"pc", "build", "budget", "full", "rows", "next"}
      /\ cal.budget \in Nat /\ cal.next \in Nat \ {0} /\ IncumbentRows(cal.rows)
      /\ Incumbent \in Name
  BY IncumbentFacts
<1>. DEFINE rows == Entry(Incumbent, row) ++ cal.rows
<1>2. operator' = [rows |-> rows] /\ cal' = [cal EXCEPT !.rows = rows, !.next = next]
  BY DEF SaveIncumbent
<1>3. /\ DOMAIN rows = {Incumbent} \cup DOMAIN cal.rows /\ rows[Incumbent] = row
      /\ \A x \in DOMAIN cal.rows : x # Incumbent => rows[x] = cal.rows[x]
  BY DEF ++, Entry
<1>4. IsRows(rows, Name)
  BY <1>1, EntryRows, OverRows DEF IncumbentRows
<1>. HIDE DEF rows
<1>5. IncumbentRows(rows)
  BY <1>1, <1>3, <1>4 DEF IncumbentRows
<1>6. /\ DOMAIN cal' = DOMAIN cal /\ cal'.pc = "incumbents" /\ cal'.budget = cal.budget
      /\ cal'.rows = rows /\ cal'.next = next
  BY <1>1, <1>2
<1>7. CalShape'
  BY <1>1, <1>6 DEF CalShape, Measured
<1>8. \A k \in 1..(next - 1) :
          k <= Len(Workloads) /\ IncumbentOf[Workloads[k]] \in DOMAIN rows
  <2>1. \A k \in 1..(cal.next - 1) :
            k <= Len(Workloads) /\ IncumbentOf[Workloads[k]] \in DOMAIN cal.rows
    BY <1>1 DEF SessionInv, IncumbentsOK
  <2>2. cal.next <= Len(Workloads) /\ IncumbentOf[Workloads[cal.next]] \in DOMAIN rows
    BY <1>3 DEF AtIncumbent, Incumbent
  <2>3. \A k \in 1..(next - 1) : k \in 1..(cal.next - 1) \/ k = cal.next
    BY <1>1
  <2>. QED
    BY <1>3, <2>1, <2>2, <2>3
<1>9. IncumbentsOK'
  BY <1>2, <1>5, <1>6, <1>8 DEF IncumbentsOK
<1>. QED
  BY <1>1, <1>6, <1>7, <1>9, FrameKeeps

LEMMA IncumbentMeasuredKeeps ==
    ASSUME SessionInv, CalFrame, IncumbentMeasured PROVE SessionInv'
<1>1. AtIncumbent /\ IncumbentSamples >= Trials /\ UNCHANGED setbacks
      /\ SaveIncumbent([cal.rows[Incumbent] EXCEPT !.status = "measured"], cal.next + 1)
  BY DEF IncumbentMeasured
<1>2. /\ IncumbentRows(cal.rows) /\ Workloads[cal.next] \in Members(Workloads)
  BY <1>1, IncumbentFacts
<1>3. Trials \in Nat \ {0}
  BY SearchAssumption
<1>. DEFINE old == cal.rows[Incumbent]
            row == [old EXCEPT !.status = "measured"]
<1>4. Incumbent \in DOMAIN cal.rows /\ old.correct /\ old.samples >= Trials
  BY <1>1, <1>3 DEF IncumbentSamples
<1>5. RowOK(old) /\ old.full
  BY <1>2, <1>4 DEF IncumbentRows, IsRows, Incumbent
<1>6. SaveIncumbent(row, cal.next + 1)
  BY <1>1
<1>. HIDE DEF old
<1>7. RowOK(row) /\ row.full
  BY <1>4, <1>5 DEF RowOK, RowSet, Settled
<1>. HIDE DEF row
<1>. QED
  BY <1>1, <1>6, <1>7, SaveIncumbentKeeps

LEMMA IncumbentRunKeeps ==
    ASSUME SessionInv, CalFrame, IncumbentRun PROVE SessionInv'
<1>1. AtIncumbent /\ (Setback \/ UNCHANGED setbacks)
  BY DEF IncumbentRun
<1>. DEFINE n == IncumbentSamples
<1>2. n \in Nat /\ cal # Out /\ cal.pc = "incumbents"
  BY <1>1, IncumbentFacts
<1>3. CASE SaveIncumbent(Row(TRUE, n + 1, TRUE, "screened"), cal.next)
  <2>. DEFINE row == Row(TRUE, n + 1, TRUE, "screened")
  <2>1. SaveIncumbent(row, cal.next)
    BY <1>3
  <2>. HIDE DEF n
  <2>2. RowOK(row) /\ row.full
    BY <1>2 DEF Row, RowOK, RowSet
  <2>. HIDE DEF row
  <2>. QED
    BY <1>1, <2>1, <2>2, SaveIncumbentKeeps
<1>4. CASE SaveIncumbent(Row(TRUE, n, FALSE, "unavailable"), cal.next + 1)
  <2>. DEFINE row == Row(TRUE, n, FALSE, "unavailable")
  <2>1. SaveIncumbent(row, cal.next + 1)
    BY <1>4
  <2>. HIDE DEF n
  <2>2. RowOK(row) /\ row.full
    BY <1>2 DEF Row, RowOK, RowSet
  <2>. HIDE DEF row
  <2>. QED
    BY <1>1, <2>1, <2>2, SaveIncumbentKeeps
<1>5. CASE Fail("busy") /\ UNCHANGED operator
  <2>1. CalShape' /\ cal'.pc = "exit"
    BY <1>5, FailShape
  <2>2. IncumbentsOK'
    BY <1>5, <2>1, IncumbentsStay DEF SessionInv, Measured
  <2>. QED
    BY <1>1, <1>2, <2>1, <2>2, FrameKeeps
<1>. QED
  BY <1>3, <1>4, <1>5 DEF IncumbentRun

\* A calibration behind the search.
LEMMA MeasuredFacts ==
    ASSUME SessionInv, cal.pc \in Measured
    PROVE  /\ cal # Out /\ DOMAIN cal = {"pc", "build", "budget", "full", "rows", "next"}
           /\ cal.budget \in Nat /\ cal.next \in Nat \ {0} /\ IncumbentRows(cal.rows)
           /\ mig # Out /\ mig.pc = "wait"
<1>1. cal # Out
  BY DEF Measured, Out
<1>2. DOMAIN cal = {"pc", "build", "budget", "full", "rows", "next"}
      /\ cal.budget \in Nat /\ cal.next \in Nat \ {0}
  BY <1>1 DEF SessionInv, CalibrationOK, Before, IsExit, Measured
<1>. QED
  BY <1>1, <1>2 DEF SessionInv, CalibrationOK, IncumbentsOK

LEMMA GoShape ==
    ASSUME SessionInv, cal.pc \in Measured, NEW pc \in Measured, Go(pc)
    PROVE  /\ CalShape' /\ cal'.pc = pc /\ cal'.rows = cal.rows /\ cal'.next = cal.next
           /\ cal'.budget = cal.budget /\ cal'.build = cal.build /\ cal' # Out
<1>1. /\ cal # Out /\ DOMAIN cal = {"pc", "build", "budget", "full", "rows", "next"}
      /\ cal.budget \in Nat /\ cal.next \in Nat \ {0}
  BY MeasuredFacts
<1>2. /\ DOMAIN cal' = DOMAIN cal /\ cal'.pc = pc
      /\ \A f \in DOMAIN cal \ {"pc"} : cal'[f] = cal[f]
  BY <1>1 DEF Go
<1>. QED
  BY <1>1, <1>2 DEF CalShape, Measured, Out

LEMMA WriteOperatorKeeps == ASSUME SessionInv, CalFrame, WriteOperator PROVE SessionInv'
<1>1. cal.pc = "output" /\ operator' = [rows |-> cal.rows] /\ Go("model") /\ UNCHANGED setbacks
      /\ cal.pc \in Measured
  BY DEF WriteOperator, Measured
<1>2. cal # Out /\ IncumbentRows(cal.rows)
  BY <1>1, MeasuredFacts
<1>3. CalShape' /\ cal'.pc = "model" /\ cal'.rows = cal.rows
  BY <1>1, GoShape DEF Measured
<1>4. IncumbentsOK'
  BY <1>1, <1>2, <1>3 DEF IncumbentsOK
<1>. QED
  BY <1>1, <1>2, <1>3, <1>4, FrameKeeps

LEMMA FitModelKeeps == ASSUME SessionInv, CalFrame, FitModel PROVE SessionInv'
<1>1. cal.pc = "model" /\ operator' = operator /\ Go("promote") /\ (Setback \/ UNCHANGED setbacks)
      /\ cal.pc \in Measured
  BY DEF FitModel, Measured
<1>2. cal # Out
  BY <1>1, MeasuredFacts
<1>3. CalShape' /\ cal'.pc = "promote" /\ cal'.rows = cal.rows
  BY <1>1, GoShape DEF Measured
<1>4. IncumbentsOK'
  BY <1>1, <1>3, IncumbentsStay DEF SessionInv, Measured
<1>. QED
  BY <1>1, <1>2, <1>3, <1>4, FrameKeeps

LEMMA WriteCalibrationKeeps == ASSUME SessionInv, CalFrame, WriteCalibration PROVE SessionInv'
<1>1. cal.pc = "manifest" /\ operator' = operator /\ UNCHANGED setbacks
      /\ cal' = [pc |-> "exit", code |-> 0, cause |-> "none"] /\ cal.pc \in Measured
  BY DEF WriteCalibration, Measured
<1>2. cal # Out
  BY <1>1, MeasuredFacts
<1>3. CalShape' /\ cal'.pc = "exit"
  BY <1>1 DEF CalShape, IsExit
<1>4. IncumbentsOK'
  BY <1>1, <1>3, IncumbentsStay DEF SessionInv, Measured
<1>. QED
  BY <1>1, <1>2, <1>3, <1>4, FrameKeeps

LEMMA CalibrationStepKeeps ==
    ASSUME SessionInv, CalFrame, CalibrationStep PROVE SessionInv'
BY CheckDeviceKeeps, WriteDeviceKeeps, CalibrateStagesKeeps, CheckOperatorKeeps,
   IncumbentMeasuredKeeps, IncumbentRunKeeps, WriteOperatorKeeps, FitModelKeeps,
   WriteCalibrationKeeps DEF CalibrationStep

\* What a step may do to the counter of setbacks.
Count == Setback \/ UNCHANGED setbacks

LEMMA StartChildKeeps ==
    ASSUME SessionInv, StartChild(build), UNCHANGED <<searchvars, registryvars, tunervars>>
    PROVE  SessionInv'
<1>1. /\ mig.pc = "child" /\ cal = Out /\ UNCHANGED <<operator, migration, tuner, tun, build, search, held>>
      /\ UNCHANGED setbacks
      /\ cal' = [pc |-> "device", build |-> build, budget |-> mig.budget, full |-> migration.full]
      /\ mig' = [mig EXCEPT !.pc = "wait"]
  BY DEF StartChild, StartCalibration, Step, files, searchvars, registryvars, tunervars
<1>2. mig \in [pc : Installing, budget : Nat] /\ tun # Out /\ tun.pc = "wait"
  BY <1>1 DEF SessionInv, MigrationOK, IsExit, Out
<1>3. TunerOK'
  BY <1>1, TunerStays DEF SessionInv
<1>4. mig' \in [pc : Installing, budget : Nat] /\ mig'.pc = "wait" /\ mig' # Out
  BY <1>1, <1>2 DEF Installing, Out
<1>5. MigrationOK'
  BY <1>1, <1>2, <1>4 DEF MigrationOK
<1>6. search = Idle /\ Promoting \notin held
  BY <1>1 DEF SessionInv, CalibrationOK, Out
<1>7. cal' \in [pc : Before, build : Nat, budget : Nat, full : BOOLEAN] /\ cal'.pc = "device"
  BY <1>1, <1>2 DEF SessionInv, TunerOK, Before
<1>8. CalibrationOK'
  BY <1>1, <1>4, <1>6, <1>7 DEF CalibrationOK
<1>9. IncumbentsOK'
  BY <1>1, <1>7, IncumbentsStay DEF SessionInv, Measured
<1>. QED
  BY <1>3, <1>5, <1>8, <1>9 DEF SessionInv

\* A calibration that is gone.
LEMMA CalGone ==
    ASSUME SessionInv, cal' = Out, operator' = operator, search' = Idle, Promoting \notin held'
    PROVE  CalibrationOK' /\ IncumbentsOK'
<1>1. cal'.pc = "out"
  BY DEF Out
<1>2. CalibrationOK'
  BY <1>1 DEF CalibrationOK
<1>3. IncumbentsOK'
  BY <1>1, IncumbentsStay DEF SessionInv, Measured
<1>. QED
  BY <1>2, <1>3

LEMMA ChildEndsKeeps ==
    ASSUME SessionInv, ChildFailed \/ ChildDone, UNCHANGED <<searchvars, registryvars, tunervars>>
    PROVE  SessionInv'
<1>1. /\ mig.pc = "wait" /\ cal.pc = "exit" /\ cal' = Out /\ UNCHANGED setbacks
      /\ UNCHANGED <<operator, tuner, tun, build, search, held>>
      /\ \/ /\ migration' = migration /\ mig' = [mig EXCEPT !.pc = "replay"]
         \/ /\ migration' = [migration EXCEPT !.status = "failed"]
            /\ mig' = [pc |-> "exit", code |-> cal.code, cause |-> cal.cause]
  BY DEF ChildFailed, ChildDone, Step, files, searchvars, registryvars, tunervars
<1>2. mig \in [pc : Installing, budget : Nat] /\ tun # Out /\ tun.pc = "wait"
  BY <1>1 DEF SessionInv, MigrationOK, IsExit, Out
<1>3. IsExit(cal) /\ search = Idle /\ Promoting \notin held
  BY <1>1 DEF SessionInv, CalibrationOK, Out, Before, Measured
<1>4. DOMAIN migration' = {"status", "full"} /\ migration'.full \in BOOLEAN
  BY <1>1 DEF SessionInv, TunerOK
<1>5. TunerOK'
  BY <1>1, <1>4 DEF SessionInv, TunerOK
<1>6. mig' \in [pc : Installing, budget : Nat] \/ IsExit(mig')
  <2>1. CASE mig' = [mig EXCEPT !.pc = "replay"]
    BY <1>2, <2>1 DEF Installing
  <2>2. CASE mig' = [pc |-> "exit", code |-> cal.code, cause |-> cal.cause]
    BY <1>3, <2>2 DEF IsExit
  <2>. QED
    BY <1>1, <2>1, <2>2
<1>7. MigrationOK'
  BY <1>1, <1>2, <1>6 DEF MigrationOK
<1>8. CalibrationOK' /\ IncumbentsOK'
  BY <1>1, <1>3, CalGone
<1>. QED
  BY <1>5, <1>7, <1>8 DEF SessionInv

\* Where no calibration runs.
LEMMA NoChild ==
    ASSUME SessionInv, mig = Out \/ mig.pc # "wait"
    PROVE  cal = Out /\ search = Idle /\ Promoting \notin held
BY DEF SessionInv, CalibrationOK, Out

LEMMA ReplayKeeps ==
    ASSUME SessionInv, Replay \/ NoteReplay \/ Grade,
           UNCHANGED <<searchvars, registryvars, calvars, tunervars>>
    PROVE  SessionInv'
<1>1. /\ mig.pc \in {"replay", "note", "grade"} /\ Count
      /\ UNCHANGED <<operator, cal, tuner, tun, build, search, held>>
      /\ \/ /\ migration' = migration
            /\ mig' = [mig EXCEPT !.pc = "note"] \/ mig' = [mig EXCEPT !.pc = "grade"]
         \/ /\ \E status : migration' = [migration EXCEPT !.status = status]
            /\ mig' = [pc |-> "exit", code |-> ExitCode, cause |-> "graded"]
  BY DEF Replay, NoteReplay, Grade, Step, Count, searchvars, registryvars, calvars, files, tunervars
<1>2. mig \in [pc : Installing, budget : Nat] /\ tun # Out /\ tun.pc = "wait"
  BY <1>1 DEF SessionInv, MigrationOK, IsExit, Out
<1>3. cal = Out /\ search = Idle /\ Promoting \notin held
  BY <1>1, NoChild
<1>4. DOMAIN migration' = {"status", "full"} /\ migration'.full \in BOOLEAN
  BY <1>1 DEF SessionInv, TunerOK
<1>5. TunerOK'
  BY <1>1, <1>4, Counted DEF SessionInv, TunerOK, Count
<1>6. ExitCode \in {0, 1}
  BY DEF ExitCode
<1>7. mig' \in [pc : Installing, budget : Nat] \/ IsExit(mig')
  <2>1. CASE mig' = [mig EXCEPT !.pc = "note"] \/ mig' = [mig EXCEPT !.pc = "grade"]
    BY <1>2, <2>1 DEF Installing
  <2>2. CASE mig' = [pc |-> "exit", code |-> ExitCode, cause |-> "graded"]
    BY <1>6, <2>2 DEF IsExit
  <2>. QED
    BY <1>1, <2>1, <2>2
<1>8. MigrationOK'
  BY <1>1, <1>2, <1>7 DEF MigrationOK
<1>9. CalibrationOK' /\ IncumbentsOK'
  BY <1>1, <1>3, CalGone
<1>. QED
  BY <1>5, <1>8, <1>9 DEF SessionInv

\* What the registry offers as seeds is of the workload it is offered to.
LEMMA OfferedFacts == Offered \in SeedSet
<1>1. ASSUME NEW w \in Members(Workloads)
      PROVE  Offered[w] \in Seq(Candidates) /\ Members(Offered[w]) \subseteq CandidateOf(w)
  <2>. DEFINE S == {c \in Members(Inventory[w]) :
                      \E id \in DOMAIN registry :
                          registry[id].work = w /\ id[2] = DesignOf[c]}
  <2>1. Inventory[w] \in Seq(Candidates)
    BY SearchAssumption
  <2>2. IsFiniteSet(Members(Inventory[w])) /\ Members(Inventory[w]) \subseteq CandidateOf(w)
    BY <2>1, MembersFinite, CalibrationAssumption DEF CandidateOf
  <2>3. Offered[w] = SetToSeq(S)
    BY DEF Offered
  <2>4. S \subseteq Members(Inventory[w])
    OBVIOUS
  <2>. HIDE DEF S
  <2>5. IsFiniteSet(S)
    BY <2>2, <2>4, FS_Subset
  <2>6. SetToSeq(S) \in Seq(S) /\ Members(SetToSeq(S)) \subseteq S
    BY <2>5, ListFacts
  <2>7. S \subseteq Candidates
    BY <2>2, <2>4 DEF CandidateOf
  <2>8. SetToSeq(S) \in Seq(Candidates)
    BY <2>6, <2>7
  <2>. QED
    BY <2>2, <2>3, <2>4, <2>6, <2>8
<1>2. Offered \in [Members(Workloads) -> Seq(Candidates)]
  <2>1. DOMAIN Offered = Members(Workloads) /\ Offered = [w \in Members(Workloads) |-> Offered[w]]
    BY DEF Offered
  <2>. QED
    BY <1>1, <2>1
<1>. QED
  BY <1>1, <1>2 DEF SeedSet

LEMMA StartSearchKeeps ==
    ASSUME SearchInv, SessionInv, StartSearch, UNCHANGED <<registryvars, migvars, tunervars>>
    PROVE  SearchInv' /\ SessionInv'
<1>1. /\ cal.pc = "incumbents" /\ cal.next > Len(Workloads) /\ Go("search") /\ cal.pc \in Measured
      /\ UNCHANGED <<operator, mig, migration, tuner, tun, build, held, setbacks>>
  BY DEF StartSearch, IncumbentsDone, files, registryvars, migvars, tunervars, Measured
<1>2. cal.budget \in Nat /\ IncumbentRows(cal.rows) /\ cal.next \in Nat /\ mig # Out /\ mig.pc = "wait"
  BY <1>1, MeasuredFacts
<1>3. SearchInv'
  BY <1>2, OfferedFacts, BeginKeeps DEF StartSearch
<1>4. CalShape' /\ cal'.pc = "search" /\ cal'.rows = cal.rows
  BY <1>1, GoShape DEF Measured
<1>5. Promoting \notin held
  BY <1>1 DEF SessionInv, CalibrationOK
<1>6. CalibrationOK'
  BY <1>1, <1>2, <1>4, <1>5 DEF CalibrationOK, CalShape
<1>7. ASSUME NEW w \in Members(Workloads) PROVE IncumbentOf[w] \in DOMAIN cal.rows
  <2>1. Workloads \in Seq(Members(Workloads))
    BY SearchAssumption
  <2>2. PICK k \in DOMAIN Workloads : Workloads[k] = w
    BY DEF Members
  <2>3. k \in 1..(cal.next - 1)
    BY <1>1, <1>2, <2>1, <2>2
  <2>. QED
    BY <1>1, <2>2, <2>3 DEF SessionInv, IncumbentsOK
<1>8. IncumbentsOK'
  BY <1>1, <1>2, <1>4, <1>7 DEF SessionInv, IncumbentsOK
<1>9. TunerOK' /\ MigrationOK'
  BY <1>1, TunerStays, MigrationStays DEF SessionInv
<1>. QED
  BY <1>3, <1>6, <1>8, <1>9 DEF SessionInv

LEMMA SearchStepPc == ASSUME SearchStep PROVE search # Idle /\ Count
<1>1. search.pc \in InSearch
  BY DEF SearchStep, SkipCell, OpenCell, Select, StopScreening, ScreenCached, ScreenRun, WriteAudit,
         WriteRows, Rank, KeepScreened, Confirmed, ConfirmRun, RunRaises, SaveCell, CloseCell,
         FinishSearch, AtCell, Confirming, InSearch, InCell
<1>2. Count
  BY DEF SearchStep, SkipCell, OpenCell, Select, StopScreening, ScreenCached, ScreenRun, WriteAudit,
         WriteRows, Rank, KeepScreened, Confirmed, ConfirmRun, RunRaises, SaveCell, CloseCell,
         FinishSearch, Count
<1>. QED
  BY <1>1, <1>2 DEF Idle, InSearch, InCell

LEMMA SearchingKeeps ==
    ASSUME SearchInv, SessionInv, SearchStep, UNCHANGED <<registryvars, calvars, migvars, tunervars>>
    PROVE  SessionInv'
<1>1. search # Idle /\ Count
  BY SearchStepPc
<1>2. UNCHANGED <<operator, cal, mig, migration, tuner, tun, build, held>>
  BY DEF calvars, files, registryvars, migvars, tunervars
<1>3. cal.pc = "search"
  BY <1>1 DEF SessionInv, CalibrationOK
<1>4. CalibrationOK' /\ IncumbentsOK'
  BY <1>2, <1>3 DEF SessionInv, CalibrationOK, IncumbentsOK
<1>5. TunerOK' /\ MigrationOK'
  BY <1>1, <1>2, TunerStays, MigrationStays DEF SessionInv, Count
<1>. QED
  BY <1>4, <1>5 DEF SessionInv

\* The rows a search returns are those of the journal.
LEMMA ResultFacts ==
    ASSUME SearchInv, search.pc = "done"
    PROVE  /\ IsRows(ResultRows, Candidates)
           /\ \A c \in DOMAIN ResultRows : c \in DOMAIN Rows /\ ResultRows[c] = Rows[c]
           /\ \A c \in DOMAIN Rows :
                 (\E i \in DOMAIN search.done : c \in Members(search.done[i].order))
                     => c \in DOMAIN ResultRows
<1>. DEFINE named(cell) ==
               Members(cell.order) \cup
               IF cell \in Members(search.previous) THEN Members(Inventory[cell.work]) ELSE {}
            names == DOMAIN journal \cap UNION {named(search.done[i]) : i \in DOMAIN search.done}
<1>1. ResultRows = [c \in names |-> journal[c]]
  BY DEF ResultRows
<1>2. CellsOK(search.done)
  BY DEF SearchInv, SearchOK, Started, InSearch
<1>3. ASSUME NEW i \in DOMAIN search.done PROVE named(search.done[i]) \subseteq Candidates
  <2>1. CellOK(search.done[i])
    BY <1>2 DEF CellsOK
  <2>2. Members(search.done[i].order) \subseteq Candidates
    BY <2>1 DEF CellOK, CandidateOf
  <2>3. search.done[i].work \in Members(Workloads)
    BY <2>1 DEF CellOK, CellSet
  <2>4. Members(Inventory[search.done[i].work]) \subseteq Candidates
    BY <2>3, MembersFinite, SearchAssumption
  <2>. QED
    BY <2>2, <2>4
<1>4. names \subseteq Candidates /\ names \subseteq DOMAIN journal
  BY <1>3
<1>5. \A c \in DOMAIN journal :
          (\E i \in DOMAIN search.done : c \in Members(search.done[i].order)) => c \in names
  OBVIOUS
<1>. HIDE DEF names
<1>6. DOMAIN ResultRows = names /\ \A c \in names : ResultRows[c] = journal[c]
  BY <1>1
<1>7. journal # Absent => Rows = journal
  BY DEF SearchInv, FilesOK
<1>8. journal = Absent => names = {} /\ DOMAIN Rows = {}
  <2>1. journal = Absent => DOMAIN journal = {"file"}
    BY DEF Absent
  <2>2. journal = Absent => DOMAIN Rows = {}
    BY DEF Rows, Empty
  <2>. QED
    BY <1>4, <2>1, <2>2, SearchAssumption
<1>9. \A c \in names : c \in DOMAIN Rows /\ journal[c] = Rows[c]
  BY <1>4, <1>7, <1>8
<1>10. \A c \in DOMAIN Rows : RowOK(Rows[c])
  BY DEF SearchInv, FilesOK, IsRows
<1>11. \A c \in DOMAIN ResultRows : c \in DOMAIN Rows /\ ResultRows[c] = Rows[c]
  BY <1>6, <1>9
<1>12. \A c \in DOMAIN ResultRows : RowOK(ResultRows[c])
  BY <1>10, <1>11
<1>13. IsRows(ResultRows, Candidates)
  BY <1>4, <1>6, <1>12 DEF IsRows
<1>. QED
  BY <1>5, <1>6, <1>7, <1>8, <1>11, <1>13

Returning == ResultRows ++ [i \in {IncumbentOf[w] : w \in Members(Workloads)} |-> cal.rows[i]]

LEMMA ReturningFacts ==
    ASSUME SearchInv, SessionInv, cal.pc = "search", search.pc = "done"
    PROVE  /\ IncumbentRows(Returning)
           /\ \A c \in DOMAIN ResultRows : c \in DOMAIN Returning /\ Returning[c] = ResultRows[c]
           /\ \A w \in Members(Workloads) : IncumbentOf[w] \in DOMAIN Returning
<1>. DEFINE names == {IncumbentOf[w] : w \in Members(Workloads)}
            rows == [i \in names |-> cal.rows[i]]
<1>1. IncumbentRows(cal.rows) /\ names \subseteq DOMAIN cal.rows
  BY DEF SessionInv, IncumbentsOK, Measured
<1>2. names \subseteq Name /\ Candidates \subseteq Name /\ names \cap Candidates = {}
  BY CalibrationAssumption DEF Name
<1>3. \A i \in names : RowOK(cal.rows[i])
  BY <1>1 DEF IncumbentRows, IsRows
<1>4. \A i \in names : cal.rows[i].full
  BY <1>1 DEF IncumbentRows
<1>5. DOMAIN rows = names /\ \A i \in names : rows[i] = cal.rows[i]
  OBVIOUS
<1>6. Returning = ResultRows ++ rows
  BY DEF Returning
<1>7. \A w \in Members(Workloads) : IncumbentOf[w] \in names
  OBVIOUS
<1>. HIDE DEF names, rows
<1>8. \A i \in names : RowOK(rows[i])
  BY <1>3, <1>5
<1>9. IsRows(rows, Name)
  BY <1>2, <1>5, <1>8 DEF IsRows
<1>10. IsRows(ResultRows, Candidates)
  BY ResultFacts
<1>11. IsRows(ResultRows, Name)
  BY <1>2, <1>10, WiderRows
<1>12. IsRows(Returning, Name)
  BY <1>6, <1>9, <1>11, OverRows
<1>13. /\ DOMAIN Returning = DOMAIN ResultRows \cup names
       /\ \A x \in DOMAIN ResultRows : Returning[x] = ResultRows[x]
       /\ \A x \in names : x \notin DOMAIN ResultRows => Returning[x] = cal.rows[x]
  BY <1>5, <1>6 DEF ++
<1>14. DOMAIN ResultRows \subseteq Candidates
  BY <1>10 DEF IsRows
<1>15. \A w \in Members(Workloads) : Returning[IncumbentOf[w]].full
  BY <1>2, <1>4, <1>7, <1>13, <1>14
<1>. QED
  BY <1>7, <1>12, <1>13, <1>15 DEF IncumbentRows

LEMMA SearchReturnsKeeps ==
    ASSUME SearchInv, SessionInv, SearchReturns, UNCHANGED <<registryvars, migvars, tunervars>>
    PROVE  SearchInv' /\ SessionInv'
<1>1. /\ cal.pc = "search" /\ search.pc = "done" /\ search' = Idle /\ operator' = Torn
      /\ cal' = [cal EXCEPT !.pc = "output", !.rows = Returning] /\ FilesSame
      /\ UNCHANGED <<mig, migration, tuner, tun, build, held, setbacks>> /\ cal.pc \in Measured
  BY DEF SearchReturns, Returning, FilesSame, registryvars, migvars, tunervars, Measured
<1>2. SearchInv'
  BY <1>1, SearchEnds
<1>3. /\ DOMAIN cal = {"pc", "build", "budget", "full", "rows", "next"}
      /\ cal.budget \in Nat /\ cal.next \in Nat \ {0} /\ mig # Out /\ mig.pc = "wait"
  BY <1>1, MeasuredFacts
<1>4. /\ DOMAIN cal' = DOMAIN cal /\ cal'.pc = "output" /\ cal'.rows = Returning
      /\ cal'.budget = cal.budget /\ cal'.next = cal.next
  BY <1>1, <1>3
<1>5. Promoting \notin held
  BY <1>1 DEF SessionInv, CalibrationOK
<1>6. CalibrationOK'
  BY <1>1, <1>3, <1>4, <1>5 DEF CalibrationOK, Measured
<1>7. IncumbentRows(Returning)
  BY <1>1, ReturningFacts
<1>8. IncumbentsOK'
  BY <1>1, <1>4, <1>7 DEF IncumbentsOK
<1>9. TunerOK' /\ MigrationOK'
  BY <1>1, TunerStays, MigrationStays DEF SessionInv
<1>. QED
  BY <1>2, <1>6, <1>8, <1>9 DEF SessionInv

LEMMA SearchRaisedKeeps ==
    ASSUME SearchInv, SessionInv, SearchRaised, UNCHANGED <<registryvars, migvars, tunervars>>
    PROVE  SearchInv' /\ SessionInv'
<1>1. /\ cal.pc = "search" /\ search' = Idle /\ Fail(search.cause) /\ FilesSame
      /\ UNCHANGED <<operator, mig, migration, tuner, tun, build, held, setbacks>>
      /\ cal.pc \in Measured
  BY DEF SearchRaised, FilesSame, files, registryvars, migvars, tunervars, Measured
<1>2. SearchInv'
  BY <1>1, SearchEnds
<1>3. mig # Out /\ mig.pc = "wait"
  BY <1>1, MeasuredFacts
<1>4. CalShape' /\ cal'.pc = "exit"
  BY <1>1, FailShape
<1>5. Promoting \notin held
  BY <1>1 DEF SessionInv, CalibrationOK
<1>6. CalibrationOK'
  BY <1>1, <1>3, <1>4, <1>5 DEF CalibrationOK, CalShape
<1>7. IncumbentsOK'
  BY <1>1, <1>4, IncumbentsStay DEF SessionInv, Measured
<1>8. TunerOK' /\ MigrationOK'
  BY <1>1, TunerStays, MigrationStays DEF SessionInv
<1>. QED
  BY <1>2, <1>6, <1>7, <1>8 DEF SessionInv

LEMMA LockKeeps ==
    ASSUME SessionInv, LockRegistry, UNCHANGED <<searchvars, migvars, tunervars>>
    PROVE  SessionInv'
<1>1. /\ cal.pc = "promote" /\ Go("publish") /\ held' = held \cup {Promoting}
      /\ UNCHANGED <<operator, search, mig, migration, tuner, tun, build, setbacks>>
      /\ cal.pc \in Measured
  BY DEF LockRegistry, ReadRegistry, files, searchvars, migvars, tunervars, Measured
<1>2. mig # Out /\ mig.pc = "wait"
  BY <1>1, MeasuredFacts
<1>3. CalShape' /\ cal'.pc = "publish" /\ cal'.rows = cal.rows
  BY <1>1, GoShape DEF Measured
<1>4. search = Idle
  BY <1>1 DEF SessionInv, CalibrationOK
<1>5. CalibrationOK'
  BY <1>1, <1>2, <1>3, <1>4 DEF CalibrationOK, CalShape
<1>6. IncumbentsOK'
  BY <1>1, <1>3, IncumbentsStay DEF SessionInv, Measured
<1>7. TunerOK' /\ MigrationOK'
  BY <1>1, TunerStays, MigrationStays DEF SessionInv
<1>. QED
  BY <1>5, <1>6, <1>7 DEF SessionInv

LEMMA PublishKeeps == ASSUME SessionInv, Publish PROVE SessionInv'
<1>1. /\ cal.pc = "publish" /\ Go("manifest") /\ held' = held \ {Promoting}
      /\ UNCHANGED <<operator, search, mig, migration, tuner, tun, build, setbacks>>
      /\ cal.pc \in Measured
  BY DEF Publish, PublishRegistry, WriteRegistry, searchvars, migvars, Measured
<1>2. mig # Out /\ mig.pc = "wait"
  BY <1>1, MeasuredFacts
<1>3. CalShape' /\ cal'.pc = "manifest" /\ cal'.rows = cal.rows
  BY <1>1, GoShape DEF Measured
<1>4. search = Idle
  BY <1>1 DEF SessionInv, CalibrationOK
<1>5. CalibrationOK'
  BY <1>1, <1>2, <1>3, <1>4 DEF CalibrationOK, CalShape
<1>6. IncumbentsOK'
  BY <1>1, <1>3, IncumbentsStay DEF SessionInv, Measured
<1>7. TunerOK' /\ MigrationOK'
  BY <1>1, TunerStays, MigrationStays DEF SessionInv
<1>. QED
  BY <1>5, <1>6, <1>7 DEF SessionInv

\* Nothing of the search changes.
LEMMA SearchStays == ASSUME SearchInv, UNCHANGED searchvars PROVE SearchInv'
<1>1. UNCHANGED <<coverage, journal, snapshot, search>>
  BY DEF searchvars
<1>2. Rows' = Rows /\ Work' = Work
  BY <1>1 DEF Rows, Work
<1>3. FilesOK' /\ SearchOK'
  BY <1>1, <1>2 DEF SearchInv, FilesOK, SearchOK
<1>4. CellNow'
  BY <1>1, <1>2 DEF SearchInv, CellNow
<1>5. Kept' /\ AuditFirst'
  BY <1>1, <1>2 DEF SearchInv, Kept, AuditFirst, Started, Bare
<1>6. \A c : InTrial(c)' <=> InTrial(c)
  BY <1>1 DEF InTrial, Confirming, Finalist, Candidate, Screened
<1>7. RowsKnown'
  BY <1>1, <1>2, <1>6 DEF SearchInv, RowsKnown
<1>8. CellsTrue'
  <2>1. ASSUME NEW c, Backed(c) PROVE Backed(c)'
    BY <1>2, <2>1 DEF Backed
  <2>. QED
    BY <1>1, <1>2, <2>1 DEF SearchInv, CellsTrue, AllBacked, Started
<1>. QED
  BY <1>3, <1>4, <1>5, <1>7, <1>8 DEF SearchInv

----------------------------------------------------------------------------
(* Why promotions are kept: the holder of the registry's lock is alone,    *)
(* its copy has every record of the file, and the file has every record a  *)
(* promoter was told is there.                                             *)

OwnersKnown ==
    /\ held \subseteq Promoter /\ peers \subseteq Promoter
    /\ DOMAIN document = Promoter
Alone == \A p, q \in held : p = q
CopyComplete == \A p \in held : DOMAIN registry \subseteq DOMAIN document[p]
RegistryInv == OwnersKnown /\ Alone /\ CopyComplete /\ PromotionsKept

\* A promoter that takes the free lock has a copy with every record of the file.
LEMMA ReadKeeps ==
    ASSUME RegistryInv, NEW p \in Promoter, NEW hardware, NEW candidates,
           ReadRegistry(p, hardware, candidates),
           peers' \subseteq peers, promised' = promised
    PROVE  RegistryInv'
<1>. DEFINE copy == Merged(Promoted(hardware, candidates), registry)
<1>1. DOMAIN registry \subseteq DOMAIN copy
  BY DEF Merged
<1>2. held = {} /\ held' = {p} /\ registry' = registry /\ document' = [document EXCEPT ![p] = copy]
  BY DEF ReadRegistry
<1>. HIDE DEF copy
<1>3. document'[p] = copy /\ DOMAIN document' = Promoter
  BY <1>2 DEF RegistryInv, OwnersKnown
<1>. QED
  BY <1>1, <1>2, <1>3 DEF RegistryInv, OwnersKnown, Alone, CopyComplete, PromotionsKept

\* The holder of the lock publishes a copy that has all the file had, so what was
\* promised stays, and so does what it now promises.
LEMMA WriteKeeps ==
    ASSUME RegistryInv, NEW p, WriteRegistry(p),
           peers' = peers,
           promised' \subseteq promised \cup DOMAIN document[p]
    PROVE  RegistryInv'
<1>1. p \in held /\ registry' = document[p] /\ held' = {}
  BY DEF RegistryInv, Alone, WriteRegistry
<1>2. DOMAIN document' = Promoter
  BY DEF RegistryInv, OwnersKnown, WriteRegistry
<1>3. promised' \subseteq DOMAIN registry'
  BY <1>1 DEF RegistryInv, CopyComplete, PromotionsKept
<1>. QED
  BY <1>1, <1>2, <1>3 DEF RegistryInv, OwnersKnown, Alone, CopyComplete, PromotionsKept

\* A promoter that dies with or without the lock leaves the file.
LEMMA AbandonKeeps ==
    ASSUME RegistryInv, NEW p, AbandonRegistry(p), peers' = peers, promised' = promised
    PROVE  RegistryInv'
BY DEF AbandonRegistry, RegistryInv, OwnersKnown, Alone, CopyComplete, PromotionsKept

\* Steps of the invocation that do not touch the registry.
LEMMA OthersKeep ==
    ASSUME RegistryInv, UNCHANGED <<registryvars, peers, promised>>
    PROVE  RegistryInv'
BY DEF registryvars, RegistryInv, OwnersKnown, Alone, CopyComplete, PromotionsKept

\* Every step of the machine, one by one.
LEMMA StepKeeps == ASSUME RegistryInv, [Next]_vars PROVE RegistryInv'
<1>1. CASE StartTuner
  BY <1>1, OthersKeep DEF StartTuner, below
<1>2. CASE TimePasses
  BY <1>2, OthersKeep DEF TimePasses, below
<1>3. CASE Pause
  BY <1>3, OthersKeep DEF Pause, below
<1>4. CASE OpenRound
  BY <1>4, OthersKeep DEF OpenRound, below
<1>5. CASE RunCalibrator
  BY <1>5, OthersKeep DEF RunCalibrator
<1>6. CASE TimedOut
  BY <1>6, AbandonKeeps DEF TimedOut, EndSession
<1>7. CASE ReturnedBusy
  BY <1>7, OthersKeep DEF ReturnedBusy, Reaped
<1>8. CASE ReturnedFailed
  BY <1>8, OthersKeep DEF ReturnedFailed, Reaped
<1>9. CASE ReturnedGraded
  BY <1>9, OthersKeep DEF ReturnedGraded, Reaped
<1>10. CASE CloseTuning
  BY <1>10, OthersKeep DEF CloseTuning, below
<1>11. CASE Session
  <2>1. peers' = peers /\ promised' = promised
    BY <1>11 DEF Session, tunervars
  <2>2. CASE UNCHANGED registryvars
    BY <2>1, <2>2, OthersKeep
  <2>3. CASE LockRegistry
    BY <2>1, <2>3, ReadKeeps, CalibrationAssumption DEF LockRegistry
  <2>. QED
    BY <1>11, <2>2, <2>3 DEF Session
<1>12. CASE Publish
  <2>1. {id \in DOMAIN document[Promoting] : id[1] = Hardware} \subseteq DOMAIN document[Promoting]
    OBVIOUS
  <2>2. promised' \subseteq promised \cup DOMAIN document[Promoting]
    BY <1>12, <2>1 DEF Publish
  <2>. QED
    BY <1>12, <2>2, WriteKeeps DEF Publish, PublishRegistry
<1>13. CASE Kill
  BY <1>13, AbandonKeeps DEF Kill, EndSession
<1>14. CASE Rebuild
  BY <1>14, OthersKeep DEF Rebuild, below
<1>15. ASSUME NEW p \in Others, PeerReads(p) PROVE RegistryInv'
  BY <1>15, ReadKeeps DEF PeerReads, Others
<1>16. ASSUME NEW p \in Others, PeerWrites(p) PROVE RegistryInv'
  <2>1. promised' \subseteq promised \cup DOMAIN document[p]
    BY <1>16 DEF PeerWrites
  <2>. QED
    BY <1>16, <2>1, WriteKeeps DEF PeerWrites
<1>17. CASE UNCHANGED vars
  BY <1>17, OthersKeep DEF vars, tunervars
<1>. QED
  BY <1>1, <1>2, <1>3, <1>4, <1>5, <1>6, <1>7, <1>8, <1>9, <1>10, <1>11, <1>12, <1>13, <1>14,
     <1>15, <1>16, <1>17 DEF Next, Running, Tuning

LEMMA RegistryBegins == ASSUME Init PROVE RegistryInv
BY DEF Init, RegistryInit, Others, RegistryInv, OwnersKnown, Alone, CopyComplete, PromotionsKept

\* A promotion that has returned is never undone by another, for any number of
\* promoters and whoever is killed between its read and its rename (promote).
THEOREM PromotionsCorrect == Spec => []PromotionsKept
<1>1. Init => RegistryInv
  BY RegistryBegins
<1>2. RegistryInv /\ [Next]_vars => RegistryInv'
  BY StepKeeps
<1>3. RegistryInv => PromotionsKept
  BY DEF RegistryInv
<1>. QED
  BY <1>1, <1>2, <1>3, PTL DEF Spec

LEMMA SessionKeeps ==
    ASSUME SearchInv, SessionInv, Session PROVE SearchInv' /\ SessionInv' /\ EvidenceStep
<1>1. UNCHANGED tunervars
  BY DEF Session
<1>2. CASE UNCHANGED searchvars
  <2>1. SearchInv'
    BY <1>2, SearchStays
  <2>2. EvidenceStep
    BY <1>2, NoSave DEF SearchInv, searchvars
  <2>3. CASE StartChild(build) /\ UNCHANGED registryvars
    BY <1>1, <1>2, <2>1, <2>2, <2>3, StartChildKeeps
  <2>4. CASE (ChildFailed \/ ChildDone) /\ UNCHANGED registryvars
    BY <1>1, <1>2, <2>1, <2>2, <2>4, ChildEndsKeeps
  <2>5. CASE (Replay \/ NoteReplay \/ Grade) /\ UNCHANGED <<registryvars, calvars>>
    BY <1>1, <1>2, <2>1, <2>2, <2>5, ReplayKeeps
  <2>6. CASE CalibrationStep /\ UNCHANGED <<registryvars, migvars>>
    <3>1. CalFrame
      BY <1>1, <1>2, <2>6 DEF CalFrame, searchvars, registryvars
    <3>. QED
      BY <2>1, <2>2, <2>6, <3>1, CalibrationStepKeeps
  <2>7. CASE LockRegistry /\ UNCHANGED migvars
    BY <1>1, <1>2, <2>1, <2>2, <2>7, LockKeeps
  <2>8. CASE StartSearch /\ UNCHANGED <<registryvars, migvars>>
    BY <1>1, <2>2, <2>8, StartSearchKeeps
  <2>9. CASE SearchStep /\ UNCHANGED <<registryvars, calvars, migvars>>
    BY <1>1, <2>1, <2>2, <2>9, SearchingKeeps
  <2>10. CASE (SearchReturns \/ SearchRaised) /\ UNCHANGED <<registryvars, migvars>>
    BY <1>1, <2>2, <2>10, SearchReturnsKeeps, SearchRaisedKeeps
  <2>. QED
    BY <2>3, <2>4, <2>5, <2>6, <2>7, <2>8, <2>9, <2>10 DEF Session
<1>3. CASE StartSearch /\ UNCHANGED <<registryvars, migvars>>
  <2>1. EvidenceStep
    BY <1>3, NoSave DEF SearchInv, StartSearch, BeginSearch
  <2>. QED
    BY <1>1, <1>3, <2>1, StartSearchKeeps
<1>4. CASE SearchStep /\ UNCHANGED <<registryvars, calvars, migvars>>
  BY <1>1, <1>4, SearchStepKeeps, SearchingKeeps
<1>5. CASE SearchReturns /\ UNCHANGED <<registryvars, migvars>>
  <2>1. EvidenceStep
    BY <1>5, NoSave DEF SearchInv, SearchReturns
  <2>. QED
    BY <1>1, <1>5, <2>1, SearchReturnsKeeps
<1>6. CASE SearchRaised /\ UNCHANGED <<registryvars, migvars>>
  <2>1. EvidenceStep
    BY <1>6, NoSave DEF SearchInv, SearchRaised
  <2>. QED
    BY <1>1, <1>6, <2>1, SearchRaisedKeeps
<1>. QED
  BY <1>2, <1>3, <1>4, <1>5, <1>6 DEF Session

\* The session is ended: only files are left.
LEMMA EndKeeps ==
    ASSUME SearchInv, SessionInv, EndSession, tun' = Out, UNCHANGED build, Count,
           tuner' = tuner \/ (tuner' # Absent /\ IsState(tuner'))
    PROVE  SearchInv' /\ SessionInv' /\ EvidenceStep
<1>1. /\ search' = Idle /\ cal' = Out /\ mig' = Out /\ held' = held \ {Promoting} /\ FilesSame
      /\ UNCHANGED <<operator, migration, journal>>
  BY DEF EndSession, AbandonRegistry, FilesSame, files
<1>2. SearchInv'
  BY <1>1, SearchEnds
<1>3. EvidenceStep
  BY <1>1, NoSave DEF SearchInv
<1>4. TunerOK'
  BY <1>1, Counted DEF SessionInv, TunerOK, Out, Round, Count
<1>5. MigrationOK'
  BY <1>1 DEF MigrationOK
<1>6. CalibrationOK' /\ IncumbentsOK'
  BY <1>1, CalGone
<1>. QED
  BY <1>2, <1>3, <1>4, <1>5, <1>6 DEF SessionInv

\* A step of the tuner alone, with nothing below it or before it starts something.
LEMMA AloneKeeps ==
    ASSUME SearchInv, SessionInv, UNCHANGED <<searchvars, registryvars, calvars, build>>, Count,
           migration' = migration \/
              (DOMAIN migration' = {"status", "full"} /\ migration'.full \in BOOLEAN),
           tuner' = tuner \/ (tuner' # Absent /\ IsState(tuner')),
           tun' = Out \/ (tun' \in [pc : Round \cup {"close"}, watch : BOOLEAN, late : BOOLEAN]
                          /\ tuner' # Absent),
           tun'.pc \in Round => tuner'.completed < MaxRounds,
           \/ mig' = mig /\ (mig # Out => tun' # Out /\ tun'.pc = "wait")
           \/ mig = Out \/ mig.pc # "wait",
           \/ mig' = mig
           \/ mig' = Out
           \/ mig' \in [pc : Installing, budget : Nat] /\ tun' # Out /\ tun'.pc = "wait",
           \/ mig' = mig => (mig # Out => tun' # Out /\ tun'.pc = "wait")
    PROVE  SearchInv' /\ SessionInv' /\ EvidenceStep
<1>1. UNCHANGED <<operator, cal, search, held, journal>>
  BY DEF searchvars, registryvars, calvars, files
<1>2. SearchInv'
  BY SearchStays
<1>3. EvidenceStep
  BY <1>1, NoSave DEF SearchInv
<1>4. TunerOK'
  BY Counted DEF SessionInv, TunerOK, Count
<1>5. MigrationOK'
  BY DEF SessionInv, MigrationOK
<1>6. CalibrationOK' /\ IncumbentsOK'
  <2>1. CASE mig' = mig
    BY <1>1, <2>1 DEF SessionInv, CalibrationOK, IncumbentsOK
  <2>2. CASE mig = Out \/ mig.pc # "wait"
    <3>1. cal = Out /\ search = Idle /\ Promoting \notin held
      BY <2>2, NoChild
    <3>. QED
      BY <1>1, <3>1, CalGone
  <2>. QED
    BY <2>1, <2>2
<1>. QED
  BY <1>2, <1>3, <1>4, <1>5, <1>6 DEF SessionInv

\* The tuner's own state.
LEMMA TunFacts ==
    ASSUME SessionInv, tun # Out
    PROVE  /\ tun \in [pc : Round \cup {"close"}, watch : BOOLEAN, late : BOOLEAN]
           /\ tuner # Absent /\ IsState(tuner)
           /\ tun.pc \in Round => tuner.completed < MaxRounds
           /\ tun.pc # "wait" => mig = Out
BY DEF SessionInv, TunerOK, MigrationOK

LEMMA SaveState ==
    ASSUME SessionInv, tun # Out, NEW status, NEW completed \in 0..MaxRounds, NEW next \in Nat,
           Save(status, completed, next)
    PROVE  tuner' # Absent /\ IsState(tuner') /\ tuner'.completed = completed
BY TunFacts DEF Save, IsState, Absent

LEMMA SameState ==
    ASSUME SessionInv, tun # Out, NEW status, Same(status)
    PROVE  tuner' # Absent /\ IsState(tuner') /\ tuner'.completed = tuner.completed
<1>1. tuner.completed \in 0..MaxRounds /\ tuner.next \in Nat
  BY TunFacts DEF IsState
<1>. QED
  BY <1>1, SaveState DEF Same

LEMMA LoadedFacts ==
    ASSUME SessionInv
    PROVE  /\ Loaded # Absent /\ IsState(Loaded)
           /\ \A status : /\ [Loaded EXCEPT !.status = status] # Absent
                          /\ IsState([Loaded EXCEPT !.status = status])
                          /\ [Loaded EXCEPT !.status = status].completed = Loaded.completed
<1>1. IsState(Loaded)
  <2>1. CASE tuner = Absent
    BY <2>1, TunerAssumption DEF Loaded, NewState, IsState
  <2>2. CASE tuner # Absent
    BY <2>2, TunerAssumption DEF SessionInv, TunerOK, Loaded, IsState
  <2>. QED
    BY <2>1, <2>2
<1>2. \A state : IsState(state) => state # Absent
  BY DEF IsState, Absent
<1>3. ASSUME NEW status
      PROVE  /\ IsState([Loaded EXCEPT !.status = status])
             /\ [Loaded EXCEPT !.status = status].completed = Loaded.completed
  BY <1>1 DEF IsState
<1>. QED
  BY <1>1, <1>2, <1>3

LEMMA StartTunerKeeps ==
    ASSUME SearchInv, SessionInv, StartTuner PROVE SearchInv' /\ SessionInv' /\ EvidenceStep
<1>1. /\ tun = Out /\ Count /\ UNCHANGED <<searchvars, registryvars, calvars, build>>
      /\ mig' = mig /\ migration' = migration
  BY DEF StartTuner, below, migvars, Count
<1>2. mig = Out
  BY <1>1 DEF SessionInv, MigrationOK
<1>3. tuner' # Absent /\ IsState(tuner')
  BY LoadedFacts DEF StartTuner
<1>4. CASE tun' = Out
  BY <1>1, <1>2, <1>3, <1>4, AloneKeeps DEF Out, Round
<1>5. CASE /\ tuner' = Loaded /\ Loaded.completed < MaxRounds
           /\ \E watch \in Watching : tun' = [pc |-> "round", watch |-> watch, late |-> Loaded.expired]
  <2>1. Loaded.expired \in BOOLEAN
    BY LoadedFacts DEF IsState
  <2>2. tun' \in [pc : Round \cup {"close"}, watch : BOOLEAN, late : BOOLEAN]
    BY <1>5, <2>1, TunerAssumption DEF Round
  <2>. QED
    BY <1>1, <1>2, <1>3, <1>5, <2>2, AloneKeeps
<1>. QED
  BY <1>1, <1>4, <1>5 DEF StartTuner

LEMMA TimePassesKeeps ==
    ASSUME SearchInv, SessionInv, TimePasses PROVE SearchInv' /\ SessionInv' /\ EvidenceStep
<1>1. /\ tun # Out /\ tun' = [tun EXCEPT !.late = TRUE] /\ Count
      /\ UNCHANGED <<searchvars, registryvars, calvars, build, tuner>>
      /\ mig' = mig /\ migration' = migration
  BY DEF TimePasses, below, migvars, Count
<1>2. /\ tun \in [pc : Round \cup {"close"}, watch : BOOLEAN, late : BOOLEAN]
      /\ tuner # Absent /\ (tun.pc \in Round => tuner.completed < MaxRounds)
      /\ tun.pc # "wait" => mig = Out
  BY <1>1, TunFacts
<1>3. /\ tun' \in [pc : Round \cup {"close"}, watch : BOOLEAN, late : BOOLEAN]
      /\ tun'.pc = tun.pc
  BY <1>1, <1>2
<1>4. tun' # Out
  BY <1>3, <1>2 DEF Out, Round
<1>. QED
  BY <1>1, <1>2, <1>3, <1>4, AloneKeeps

LEMMA PauseKeeps ==
    ASSUME SearchInv, SessionInv, Pause PROVE SearchInv' /\ SessionInv' /\ EvidenceStep
<1>1. /\ tun # Out /\ tun.pc = "round" /\ Same("paused") /\ tun' = Out /\ Count
      /\ UNCHANGED <<searchvars, registryvars, calvars, build>>
      /\ mig' = mig /\ migration' = migration
  BY DEF Pause, below, migvars, Count
<1>2. mig = Out /\ tuner' # Absent /\ IsState(tuner')
  BY <1>1, TunFacts, SameState
<1>. QED
  BY <1>1, <1>2, AloneKeeps DEF Out, Round

LEMMA OpenRoundKeeps ==
    ASSUME SearchInv, SessionInv, OpenRound PROVE SearchInv' /\ SessionInv' /\ EvidenceStep
<1>1. /\ tun # Out /\ tun.pc = "round" /\ Same("running") /\ tun' = [tun EXCEPT !.pc = "run"] /\ Count
      /\ UNCHANGED <<searchvars, registryvars, calvars, build>>
      /\ mig' = mig /\ migration' = migration
  BY DEF OpenRound, below, migvars, Count
<1>2. /\ mig = Out /\ tuner' # Absent /\ IsState(tuner') /\ tuner'.completed = tuner.completed
      /\ tuner.completed < MaxRounds
      /\ tun \in [pc : Round \cup {"close"}, watch : BOOLEAN, late : BOOLEAN]
  BY <1>1, TunFacts, SameState DEF Round
<1>3. tun' \in [pc : Round \cup {"close"}, watch : BOOLEAN, late : BOOLEAN]
  BY <1>1, <1>2 DEF Round
<1>. QED
  BY <1>1, <1>2, <1>3, AloneKeeps

LEMMA RunCalibratorKeeps ==
    ASSUME SearchInv, SessionInv, RunCalibrator PROVE SearchInv' /\ SessionInv' /\ EvidenceStep
<1>1. /\ tun # Out /\ tun.pc = "run" /\ tun' = [tun EXCEPT !.pc = "wait"] /\ Count
      /\ UNCHANGED <<searchvars, registryvars, calvars, build, tuner>>
      /\ mig = Out /\ mig' = [pc |-> "child", budget |-> SearchBudget(tuner.next)]
      /\ migration' = [migration EXCEPT !.status = "running"]
  BY DEF RunCalibrator, StartMigration, Count
<1>2. /\ tuner # Absent /\ tuner.completed < MaxRounds /\ IsState(tuner)
      /\ tun \in [pc : Round \cup {"close"}, watch : BOOLEAN, late : BOOLEAN]
  BY <1>1, TunFacts DEF Round
<1>3. /\ tun' \in [pc : Round \cup {"close"}, watch : BOOLEAN, late : BOOLEAN]
      /\ tun'.pc = "wait" /\ tun' # Out
  BY <1>1, <1>2 DEF Round, Out
<1>4. SearchBudget(tuner.next) \in Nat
  <2>1. \A a, b, c \in Nat : a + b * c \in Nat
    OBVIOUS
  <2>. QED
    BY <1>2, <2>1, TunerAssumption DEF SearchBudget, IsState
<1>5. mig' \in [pc : Installing, budget : Nat] /\ mig' # mig
  BY <1>1, <1>4 DEF Installing, Out
<1>6. DOMAIN migration' = {"status", "full"} /\ migration'.full \in BOOLEAN
  BY <1>1 DEF SessionInv, TunerOK
<1>. QED
  BY <1>1, <1>2, <1>3, <1>5, <1>6, AloneKeeps

\* An installation that has ended is collected.
LEMMA ReapKeeps ==
    ASSUME SearchInv, SessionInv, tun # Out, mig.pc = "exit", Reaped, UNCHANGED <<build, setbacks>>,
           tuner' # Absent, IsState(tuner'),
           tun' = Out \/ tun' \in [pc : Round \cup {"close"}, watch : BOOLEAN, late : BOOLEAN],
           tun'.pc \in Round => tuner'.completed < MaxRounds
    PROVE  SearchInv' /\ SessionInv' /\ EvidenceStep
<1>1. /\ mig' = Out /\ UNCHANGED <<searchvars, registryvars, calvars, migration>> /\ Count
  BY DEF Reaped, Count
<1>2. mig' # mig
  BY <1>1 DEF Out
<1>. QED
  BY <1>1, <1>2, AloneKeeps

LEMMA ReturnedKeeps ==
    ASSUME SearchInv, SessionInv, ReturnedBusy \/ ReturnedFailed \/ ReturnedGraded
    PROVE  SearchInv' /\ SessionInv' /\ EvidenceStep
<1>1. tun # Out /\ tun.pc = "wait" /\ mig.pc = "exit" /\ Reaped /\ UNCHANGED <<build, setbacks>>
  BY DEF ReturnedBusy, ReturnedFailed, ReturnedGraded, Returned
<1>2. /\ tun \in [pc : Round \cup {"close"}, watch : BOOLEAN, late : BOOLEAN]
      /\ tuner.completed < MaxRounds /\ IsState(tuner)
  BY <1>1, TunFacts DEF Round
<1>3. CASE /\ \E status : Same(status)
           /\ tun' = Out \/ tun' = [tun EXCEPT !.pc = "round"]
  <2>1. tuner' # Absent /\ IsState(tuner') /\ tuner'.completed = tuner.completed
    BY <1>1, <1>3, SameState
  <2>2. tun' = Out \/ tun' \in [pc : Round \cup {"close"}, watch : BOOLEAN, late : BOOLEAN]
    BY <1>2, <1>3 DEF Round
  <2>. QED
    BY <1>1, <1>2, <2>1, <2>2, ReapKeeps
<1>4. CASE ReturnedGraded
  <2>. DEFINE completed == tuner.completed + 1
  <2>1. completed \in 0..MaxRounds /\ completed + 1 \in Nat
    BY <1>2, TunerAssumption DEF IsState
  <2>2. /\ Save("complete", completed, completed + 1) \/ Save("running", completed, completed + 1)
        /\ \/ tun' = Out
           \/ tun' = [tun EXCEPT !.pc = IF completed >= MaxRounds THEN "close" ELSE "round"]
    BY <1>4 DEF ReturnedGraded
  <2>3. tuner' # Absent /\ IsState(tuner') /\ tuner'.completed = completed
    BY <1>1, <2>1, <2>2, SaveState
  <2>4. tun' = Out \/ tun' \in [pc : Round \cup {"close"}, watch : BOOLEAN, late : BOOLEAN]
    BY <1>2, <2>2 DEF Round
  <2>5. tun'.pc \in Round => completed < MaxRounds
    BY <1>2, <2>1, <2>2, TunerAssumption DEF Round, Out
  <2>. QED
    BY <1>1, <2>3, <2>4, <2>5, ReapKeeps
<1>5. ReturnedBusy \/ ReturnedFailed =>
         (\E status : Same(status)) /\ (tun' = Out \/ tun' = [tun EXCEPT !.pc = "round"])
  BY DEF ReturnedBusy, ReturnedFailed
<1>. QED
  BY <1>3, <1>4, <1>5

LEMMA CloseTuningKeeps ==
    ASSUME SearchInv, SessionInv, CloseTuning PROVE SearchInv' /\ SessionInv' /\ EvidenceStep
<1>1. /\ tun # Out /\ tun.pc = "close" /\ Same("complete-with-warning") /\ tun' = Out /\ Count
      /\ UNCHANGED <<searchvars, registryvars, calvars, build>>
      /\ mig' = mig /\ migration' = migration
  BY DEF CloseTuning, below, migvars, Count
<1>2. mig = Out /\ tuner' # Absent /\ IsState(tuner')
  BY <1>1, TunFacts, SameState
<1>. QED
  BY <1>1, <1>2, AloneKeeps DEF Out, Round

LEMMA TuningKeeps ==
    ASSUME SearchInv, SessionInv, Tuning PROVE SearchInv' /\ SessionInv' /\ EvidenceStep
<1>1. CASE TimedOut
  <2>1. EndSession /\ tun # Out /\ Same("paused") /\ tun' = Out /\ UNCHANGED build /\ Count
    BY <1>1 DEF TimedOut, Count
  <2>2. tuner' # Absent /\ IsState(tuner')
    BY <2>1, SameState
  <2>. QED
    BY <2>1, <2>2, EndKeeps
<1>. QED
  BY <1>1, TimePassesKeeps, PauseKeeps, OpenRoundKeeps, RunCalibratorKeeps, ReturnedKeeps,
     CloseTuningKeeps DEF Tuning

\* The steps of the other promoters.
LEMMA PeersKeep ==
    ASSUME SearchInv, SessionInv, NEW p \in Others, PeerReads(p) \/ PeerWrites(p)
    PROVE  SearchInv' /\ SessionInv' /\ EvidenceStep
<1>1. /\ UNCHANGED <<searchvars, calvars, migvars, tuner, tun, build, setbacks>>
      /\ Promoting \in held' <=> Promoting \in held
  BY DEF PeerReads, PeerWrites, ReadRegistry, WriteRegistry, Others
<1>2. UNCHANGED <<operator, cal, search, journal, mig, migration>>
  BY <1>1 DEF searchvars, calvars, files, migvars
<1>3. SearchInv' /\ EvidenceStep
  BY <1>1, <1>2, SearchStays, NoSave DEF SearchInv
<1>4. TunerOK' /\ MigrationOK'
  BY <1>1, <1>2, TunerStays, MigrationStays DEF SessionInv
<1>5. CalibrationOK' /\ IncumbentsOK'
  BY <1>1, <1>2 DEF SessionInv, CalibrationOK, IncumbentsOK
<1>. QED
  BY <1>3, <1>4, <1>5 DEF SessionInv

LEMMA NextKeeps ==
    ASSUME SearchInv, SessionInv, Next PROVE SearchInv' /\ SessionInv' /\ EvidenceStep
<1>1. CASE StartTuner
  BY <1>1, StartTunerKeeps
<1>2. CASE Tuning
  BY <1>2, TuningKeeps
<1>3. CASE Session
  BY <1>3, SessionKeeps
<1>4. CASE Publish
  <2>1. UNCHANGED searchvars /\ UNCHANGED journal
    BY <1>4 DEF Publish, searchvars
  <2>. QED
    BY <1>4, <2>1, PublishKeeps, SearchStays, NoSave DEF SearchInv
<1>5. CASE Kill
  BY <1>5, EndKeeps DEF Kill, Count
<1>6. CASE Rebuild
  <2>1. /\ UNCHANGED <<searchvars, tuner, tun, operator, cal, search, journal, mig, migration, held>>
        /\ build' = build + 1 /\ Setback
    BY <1>6 DEF Rebuild, below, searchvars, registryvars, calvars, files, migvars
  <2>2. SearchInv' /\ EvidenceStep
    BY <2>1, SearchStays, NoSave DEF SearchInv
  <2>3. TunerOK'
    BY <2>1, Counted DEF SessionInv, TunerOK
  <2>4. MigrationOK' /\ CalibrationOK' /\ IncumbentsOK'
    BY <2>1 DEF SessionInv, MigrationOK, CalibrationOK, IncumbentsOK
  <2>. QED
    BY <2>2, <2>3, <2>4 DEF SessionInv
<1>7. CASE \E p \in Others : PeerReads(p) \/ PeerWrites(p)
  BY <1>7, PeersKeep
<1>. QED
  BY <1>1, <1>2, <1>3, <1>4, <1>5, <1>6, <1>7 DEF Next, Running

LEMMA StutterKeeps ==
    ASSUME SearchInv, SessionInv, UNCHANGED vars PROVE SearchInv' /\ SessionInv'
<1>1. /\ UNCHANGED <<searchvars, registryvars, calvars, migvars, tuner, tun, build, setbacks>>
      /\ UNCHANGED <<operator, cal, search, mig, migration, held>>
  BY DEF vars, tunervars, searchvars, registryvars, calvars, files, migvars
<1>2. SearchInv'
  BY <1>1, SearchStays
<1>3. TunerOK' /\ MigrationOK'
  BY <1>1, TunerStays, MigrationStays DEF SessionInv
<1>4. CalibrationOK' /\ IncumbentsOK'
  BY <1>1 DEF SessionInv, CalibrationOK, IncumbentsOK
<1>. QED
  BY <1>2, <1>3, <1>4 DEF SessionInv

LEMMA InitHolds == ASSUME Init PROVE SearchInv /\ SessionInv
<1>1. /\ coverage = Absent /\ journal = Absent /\ snapshot = Absent /\ search = Idle
      /\ operator = Absent /\ cal = Out /\ mig = Out /\ tuner = Absent /\ tun = Out /\ build = 1
      /\ setbacks = MaxSetbacks /\ held = {}
      /\ \E full \in BOOLEAN : migration = [status |-> "planned", full |-> full]
  BY DEF Init, SearchInit, RegistryInit, CalibrationInit, MigrationInit
<1>2. Rows = Empty /\ IsRows(Rows, Candidates) /\ DOMAIN Rows = {}
  BY <1>1, EmptyRows DEF Rows
<1>3. search.pc = "idle" /\ "pc" \in DOMAIN search /\ search.pc \notin InSearch /\ search.pc \notin InCell
      /\ search.pc \notin {"raised", "save", "screen", "confirm", "close"}
  BY <1>1 DEF Idle, InSearch, InCell
<1>4. FilesOK
  BY <1>1, <1>2 DEF FilesOK
<1>5. SearchOK /\ CellNow /\ RowsKnown
  BY <1>1, <1>3 DEF SearchOK, CellNow, RowsKnown
<1>6. Kept /\ AuditFirst
  BY <1>2, <1>3 DEF Kept, AuditFirst, Started, Bare
<1>7. CellsTrue
  BY <1>1, <1>3 DEF CellsTrue, Started
<1>8. TunerOK
  BY <1>1, TunerAssumption DEF TunerOK, Out, Round
<1>9. MigrationOK /\ CalibrationOK
  BY <1>1 DEF MigrationOK, CalibrationOK, Out
<1>10. IncumbentsOK
  BY <1>1 DEF IncumbentsOK, Out, Measured
<1>. QED
  BY <1>4, <1>5, <1>6, <1>7, <1>8, <1>9, <1>10 DEF SearchInv, SessionInv

\* The processes and the files fit together, after whatever kills, time-outs and new
\* binaries, for any workloads, candidates and bounds.
THEOREM TypesCorrect == Spec => []TypeOK
<1>1. Init => SearchInv /\ SessionInv /\ RegistryInv
  BY InitHolds, RegistryBegins
<1>2. SearchInv /\ SessionInv /\ RegistryInv /\ [Next]_vars
        => (SearchInv /\ SessionInv /\ RegistryInv)'
  BY NextKeeps, StutterKeeps, StepKeeps
<1>3. SearchInv /\ SessionInv /\ RegistryInv => TypeOK
  <2>. SUFFICES ASSUME SessionInv, RegistryInv PROVE TypeOK
    OBVIOUS
  <2>1. Cardinality(held) <= 1
    <3>1. held = {} \/ \E p : held = {p}
      BY DEF RegistryInv, Alone
    <3>2. CASE held = {}
      BY <3>2, FS_EmptySet
    <3>3. CASE \E p : held = {p}
      <4>1. PICK p : held = {p}
        BY <3>3
      <4>2. Cardinality({p}) = 1
        BY FS_Singleton
      <4>. QED
        BY <4>1, <4>2
    <3>. QED
      BY <3>1, <3>2, <3>3
  <2>2. tun = Out => mig = Out
    BY DEF SessionInv, MigrationOK
  <2>3. mig = Out => cal = Out
    BY DEF SessionInv, CalibrationOK
  <2>4. cal = Out => search = Idle
    BY DEF SessionInv, CalibrationOK, Out
  <2>5. Promoting \in held => cal # Out
    BY DEF SessionInv, CalibrationOK, Out
  <2>6. setbacks \in 0..MaxSetbacks /\ (tuner # Absent => tuner.completed \in 0..MaxRounds)
    BY DEF SessionInv, TunerOK, IsState
  <2>. QED
    BY <2>1, <2>2, <2>3, <2>4, <2>5, <2>6 DEF TypeOK
<1>. QED
  BY <1>1, <1>2, <1>3, PTL DEF Spec

\* Trials that were paid for are not lost, whatever interrupts the search and whichever
\* run resumes it, for any number of trials, candidates and runs (run_compiled_search,
\* save_measurements).
THEOREM EvidenceCorrect == Spec => EvidenceKept
<1>1. Init => SearchInv /\ SessionInv
  BY InitHolds
<1>2. SearchInv /\ SessionInv /\ [Next]_vars => (SearchInv /\ SessionInv)'
  BY NextKeeps, StutterKeeps
<1>3. SearchInv /\ SessionInv /\ [Next]_vars =>
        [coverage # Absent =>
            \A c \in DOMAIN Rows :
                (Rows[c].full /\ Rows[c].correct) =>
                    /\ c \in DOMAIN Rows'
                    /\ \/ Rows'[c].full /\ Rows'[c].samples >= Rows[c].samples
                       \/ ~ Rows'[c].correct]_vars
  BY NextKeeps DEF EvidenceStep
<1>. QED
  BY <1>1, <1>2, <1>3, PTL DEF Spec, EvidenceKept

----------------------------------------------------------------------------
(* From the search to the registry.                                        *)

\* What a grade needs of the registry stays as long as the records of this GPU do.
KeepsHardware ==
    \A id \in DOMAIN registry :
        id[1] = Hardware => id \in DOMAIN registry' /\ registry'[id] = registry[id]

LEMMA RegisteredStays ==
    ASSUME NEW records, NEW newer, NEW rows, AllRegistered(records, rows),
           \A id \in DOMAIN records :
              id[1] = Hardware => id \in DOMAIN newer /\ newer[id] = records[id]
    PROVE  AllRegistered(newer, rows)
<1>1. ASSUME NEW c \in Listed(rows) PROVE Registered(newer, c)
  <2>. DEFINE id == <<Hardware, DesignOf[c]>>
  <2>1. id[1] = Hardware
    OBVIOUS
  <2>2. id \in DOMAIN records /\ records[id].work = WorkOf[c] /\ records[id].samples >= Trials
    BY DEF AllRegistered, Registered
  <2>. HIDE DEF id
  <2>3. id \in DOMAIN newer /\ newer[id] = records[id]
    BY <2>1, <2>2
  <2>. QED
    BY <2>2, <2>3 DEF Registered, id
<1>. QED
  BY <1>1 DEF AllRegistered

LEMMA InstalledStays == ASSUME AllInstalled, KeepsHardware PROVE AllInstalled'
<1>1. ASSUME NEW w \in Members(Workloads) PROVE HasRecord(w)'
  <2>1. PICK id \in DOMAIN registry :
            id[1] = Hardware /\ registry[id].work = w /\ registry[id].samples >= Trials
    BY DEF AllInstalled, HasRecord
  <2>2. id \in DOMAIN registry' /\ registry'[id] = registry[id]
    BY <2>1 DEF KeepsHardware
  <2>. QED
    BY <2>1, <2>2 DEF HasRecord
<1>. QED
  BY <1>1 DEF AllInstalled

LEMMA GradeStays ==
    ASSUME GradeTrue, KeepsHardware \/ UNCHANGED registry,
           (mig'.pc = "exit" /\ mig'.code = 0 /\ migration'.status = "complete") =>
               mig' = mig /\ migration' = migration,
           (tuner' # Absent /\ tuner'.status = "complete") =>
               tun' = Out /\ tuner # Absent /\ tuner.status = "complete"
    PROVE  GradeTrue'
<1>1. AllInstalled => AllInstalled'
  <2>1. CASE UNCHANGED registry
    BY <2>1 DEF AllInstalled, HasRecord
  <2>. QED
    BY <2>1, InstalledStays
<1>. QED
  BY <1>1 DEF GradeTrue

LEMMA ListedStays ==
    ASSUME NEW rows, AuditListed(rows), UNCHANGED <<coverage, journal>> PROVE AuditListed(rows)'
<1>1. \A w : SearchConfirmed(w)' = SearchConfirmed(w)
  BY DEF SearchConfirmed, CellsOf, Audited
<1>. QED
  BY <1>1 DEF AuditListed

LEMMA PeersStay ==
    ASSUME PeersCopy, UNCHANGED <<registry, held, document>> PROVE PeersCopy'
BY DEF PeersCopy

LEMMA DoneStays ==
    ASSUME AuditIsDone, UNCHANGED <<coverage, search>> PROVE AuditIsDone'
BY DEF AuditIsDone

\* Where the calibration has not come to its rows, or has failed.
LEMMA NoRowsYet ==
    ASSUME cal'.pc \notin Behind, ~ Succeeded' PROVE RowsInstalled'
BY DEF RowsInstalled, Behind

LEMMA RowsStay ==
    ASSUME RowsInstalled, UNCHANGED <<coverage, journal, operator>>,
           UNCHANGED cal \/ cal'.pc \notin Behind,
           Succeeded' => Succeeded,
           KeepsHardware \/ UNCHANGED registry,
           UNCHANGED document \/ cal'.pc # "publish"
              \/ (document'[Promoting] = document[Promoting])
    PROVE  RowsInstalled'
<1>1. \A rows : AllRegistered(registry, rows) => AllRegistered(registry', rows)
  <2>1. CASE KeepsHardware
    BY <2>1, RegisteredStays DEF KeepsHardware
  <2>2. CASE UNCHANGED registry
    BY <2>2
  <2>. QED
    BY <2>1, <2>2
<1>2. \A rows : AuditListed(rows) => AuditListed(rows)'
  BY ListedStays
<1>. QED
  BY <1>1, <1>2 DEF RowsInstalled, Behind

\* The steps of the search before the last: it is not done.
LEMMA NotDone ==
    ASSUME SearchInv, SearchStep, ~ FinishSearch PROVE search'.pc # "done"
<1>1. "pc" \in DOMAIN search
  BY DEF SearchInv, SearchOK
<1>2. CASE SkipCell
  BY <1>1, <1>2 DEF SkipCell, AtCell
<1>3. CASE OpenCell
  BY <1>1, <1>3 DEF OpenCell, ++
<1>4. CASE Select
  BY <1>1, <1>4 DEF Select, ++
<1>5. CASE StopScreening
  BY <1>1, <1>5 DEF StopScreening
<1>6. CASE ScreenCached
  BY <1>1, <1>6 DEF ScreenCached, Note
<1>7. CASE ScreenRun
  BY <1>1, <1>7 DEF ScreenRun, Note
<1>8. CASE WriteAudit
  BY <1>1, <1>8 DEF WriteAudit
<1>9. CASE WriteRows
  BY <1>1, <1>9 DEF WriteRows
<1>10. CASE Rank
  BY <1>1, <1>10 DEF Rank, ++
<1>11. CASE KeepScreened \/ Confirmed
  BY <1>1, <1>11 DEF KeepScreened, Confirmed, Settle, Confirming
<1>12. CASE ConfirmRun
  BY <1>1, <1>12 DEF ConfirmRun, Settle, Confirming
<1>13. CASE RunRaises
  BY <1>1, <1>13 DEF RunRaises
<1>14. CASE SaveCell
  BY <1>1, <1>14 DEF SaveCell
<1>15. CASE CloseCell
  BY <1>1, <1>15 DEF CloseCell
<1>. QED
  BY <1>2, <1>3, <1>4, <1>5, <1>6, <1>7, <1>8, <1>9, <1>10, <1>11, <1>12, <1>13, <1>14, <1>15
     DEF SearchStep

LEMMA DoneAudited ==
    ASSUME SearchInv, SearchStep PROVE AuditIsDone'
<1>1. CASE FinishSearch
  <2>1. coverage' = Audit(search.done) /\ search' = [search EXCEPT !.pc = "done"]
    BY <1>1 DEF FinishSearch
  <2>2. search'.done = search.done
    BY <2>1
  <2>. QED
    BY <2>1, <2>2, AuditFacts DEF AuditIsDone
<1>2. CASE ~ FinishSearch
  BY <1>2, NotDone DEF AuditIsDone
<1>. QED
  BY <1>1, <1>2

\* What the audit and the journal confirm is among the rows the search returns.
LEMMA ReturnedListed ==
    ASSUME SearchInv, SessionInv, AuditIsDone, cal.pc = "search", search.pc = "done"
    PROVE  AuditListed(Returning)
<1>1. ASSUME NEW w \in Members(Workloads), NEW c \in SearchConfirmed(w)
      PROVE  c \in DOMAIN Returning /\ Returning[c] = journal[c]
  <2>1. PICK cell \in CellsOf(w) : c \in Members(cell.order) /\ c \in DOMAIN journal
    BY DEF SearchConfirmed
  <2>2. journal # Absent /\ \E i \in DOMAIN coverage.cells : cell = coverage.cells[i]
    BY <2>1 DEF CellsOf, Audited
  <2>3. \E i \in DOMAIN search.done : cell = search.done[i]
    BY <2>2 DEF AuditIsDone
  <2>4. Rows = journal
    BY <2>2 DEF SearchInv, FilesOK
  <2>5. c \in DOMAIN ResultRows /\ ResultRows[c] = journal[c]
    BY <2>1, <2>3, <2>4, ResultFacts
  <2>. QED
    BY <2>5, ReturningFacts
<1>. QED
  BY <1>1 DEF AuditListed

LEMMA Minimum ==
    ASSUME NEW S, S \subseteq Nat, S # {} PROVE \E x \in S : \A y \in S : x <= y
<1>. DEFINE Less == OpToRel(<, Nat)
<1>1. \A x, y \in Nat : x < y => <<x, y>> \in Less
  BY DEF OpToRel
<1>2. IsWellFoundedOn(Less, Nat)
  BY NatLessThanWellFounded
<1>. HIDE DEF Less
<1>3. PICK x \in S : \A y \in S : <<y, x>> \notin Less
  BY <1>2, WFMin
<1>4. \A y \in S : ~ (y < x)
  BY <1>1, <1>3
<1>. QED
  BY <1>4

\* What is promoted of a design is a measurement of it.
LEMMA PromotedFacts ==
    ASSUME NEW hardware, NEW candidates, \A c \in candidates : c.latency \in Nat,
           NEW c \in candidates
    PROVE  LET id == <<hardware, c.design>>
               records == Promoted(hardware, candidates)
           IN /\ id \in DOMAIN records
              /\ \E b \in candidates :
                    /\ b.design = c.design /\ records[id].work = b.work
                    /\ records[id].samples = b.samples
<1>. DEFINE id == <<hardware, c.design>>
            same == {d \in candidates : d.design = c.design}
            best == CHOOSE d \in same : \A e \in same : d.latency <= e.latency
            records == Promoted(hardware, candidates)
<1>1. id \in DOMAIN records
  BY DEF Promoted
<1>2. id[2] = c.design
  OBVIOUS
<1>3. records[id] = [latency |-> best.latency, samples |-> best.samples, work |-> best.work]
  BY <1>1, <1>2 DEF Promoted
<1>4. \E d \in same : \A e \in same : d.latency <= e.latency
  <2>. DEFINE S == {d.latency : d \in same}
  <2>1. S \subseteq Nat /\ S # {}
    OBVIOUS
  <2>2. PICK x \in S : \A y \in S : x <= y
    BY <2>1, Minimum
  <2>. QED
    BY <2>2
<1>5. best \in same
  BY <1>4
<1>. HIDE DEF best
<1>6. best \in candidates /\ best.design = c.design
  BY <1>5
<1>. QED
  BY <1>1, <1>3, <1>6

\* The copy of a promoter, with what it promotes over what was in the file.
LEMMA CopyFacts ==
    ASSUME RegistryInv, NEW p \in Promoter, NEW hardware, NEW candidates,
           ReadRegistry(p, hardware, candidates)
    PROVE  /\ held = {} /\ held' = {p} /\ registry' = registry
           /\ document'[p] = Merged(Promoted(hardware, candidates), registry)
BY DEF ReadRegistry, RegistryInv, OwnersKnown

LEMMA PromotionRegisters ==
    ASSUME SessionInv, RegistryInv, cal.pc = "promote", ReadRegistry(Promoting, Hardware, Promotable)
    PROVE  AllRegistered(document'[Promoting], cal.rows)
<1>. DEFINE copy == Merged(Promoted(Hardware, Promotable), registry)
            record(c) == [design |-> DesignOf[c], latency |-> Latency[c],
                          samples |-> cal.rows[c].samples, work |-> WorkOf[c]]
<1>1. document'[Promoting] = copy
  BY CopyFacts, CalibrationAssumption
<1>2. IsRows(cal.rows, Name)
  BY DEF SessionInv, IncumbentsOK, IncumbentRows, Measured
<1>3. Promotable = {record(c) : c \in Listed(cal.rows)}
  BY DEF Promotable, Listed
<1>4. \A c \in Listed(cal.rows) :
        /\ c \in Name /\ Latency[c] \in Nat
        /\ cal.rows[c].samples >= Trials
  <2>1. \A c \in Name : Latency[c] \in Nat
    BY SearchAssumption, CalibrationAssumption DEF Name
  <2>2. \A c \in Listed(cal.rows) : c \in Name /\ Settled(cal.rows[c])
    BY <1>2 DEF IsRows, RowOK, Listed
  <2>. QED
    BY <2>1, <2>2 DEF Settled
<1>5. ASSUME NEW c \in Listed(cal.rows) PROVE Registered(copy, c)
  <2>. DEFINE id == <<Hardware, DesignOf[c]>>
              records == Promoted(Hardware, Promotable)
  <2>1. record(c) \in Promotable /\ \A x \in Promotable : x.latency \in Nat
    BY <1>3, <1>4
  <2>2. record(c).design = DesignOf[c]
    OBVIOUS
  <2>3. /\ id \in DOMAIN records
        /\ \E b \in Promotable :
              /\ b.design = DesignOf[c] /\ records[id].work = b.work
              /\ records[id].samples = b.samples
    BY <2>1, <2>2, PromotedFacts
  <2>4. copy[id] = records[id] /\ id \in DOMAIN copy
    BY <2>3 DEF Merged
  <2>5. PICK d \in Listed(cal.rows) :
            /\ DesignOf[d] = DesignOf[c] /\ records[id].work = WorkOf[d]
            /\ records[id].samples = cal.rows[d].samples
    <3>. HIDE DEF records, id
    <3>1. PICK b \in Promotable :
              /\ b.design = DesignOf[c] /\ records[id].work = b.work
              /\ records[id].samples = b.samples
      BY <2>3
    <3>2. PICK d \in Listed(cal.rows) : b = record(d)
      BY <1>3
    <3>3. b.design = DesignOf[d] /\ b.work = WorkOf[d] /\ b.samples = cal.rows[d].samples
      BY <3>2
    <3>. QED
      BY <3>1, <3>3
  <2>6. WorkOf[d] = WorkOf[c]
    BY <1>4, <2>5, CalibrationAssumption
  <2>. QED
    BY <1>4, <2>4, <2>5, <2>6 DEF Registered
<1>. QED
  BY <1>1, <1>5 DEF AllRegistered

\* A workload that is covered has a record.
LEMMA CoveredRegistered ==
    ASSUME SearchInv, SessionInv, operator \notin {Absent, Torn},
           AuditListed(operator.rows), AllRegistered(registry, operator.rows),
           NEW w \in Members(Workloads), Covered(w)
    PROVE  HasRecord(w)
<1>1. PICK c : c \in SearchConfirmed(w) \/ c \in IncumbentConfirmed(w)
  BY DEF Covered
<1>2. c \in DOMAIN operator.rows /\ Enough(operator.rows[c]) /\ WorkOf[c] = w
  <2>1. CASE c \in IncumbentConfirmed(w)
    BY <2>1 DEF IncumbentConfirmed
  <2>2. CASE c \in SearchConfirmed(w)
    <3>1. c \in DOMAIN operator.rows /\ operator.rows[c] = journal[c]
      BY <2>2 DEF AuditListed
    <3>2. PICK cell \in CellsOf(w) : c \in Members(cell.order) /\ Enough(journal[c])
      BY <2>2 DEF SearchConfirmed
    <3>3. coverage # Absent /\ cell.work = w /\ \E i \in DOMAIN coverage.cells : cell = coverage.cells[i]
      BY <3>2 DEF CellsOf, Audited
    <3>4. CellOK(cell)
      BY <3>3 DEF SearchInv, FilesOK, CellsOK
    <3>5. c \in CandidateOf(w)
      BY <3>2, <3>3, <3>4 DEF CellOK
    <3>. QED
      BY <3>1, <3>2, <3>5 DEF CandidateOf
  <2>. QED
    BY <1>1, <2>1, <2>2
<1>3. c \in Listed(operator.rows)
  BY <1>2 DEF Enough, Listed
<1>. DEFINE id == <<Hardware, DesignOf[c]>>
<1>4. id \in DOMAIN registry /\ registry[id].work = w /\ registry[id].samples >= Trials
  BY <1>2, <1>3 DEF AllRegistered, Registered
<1>5. id[1] = Hardware
  OBVIOUS
<1>. HIDE DEF id
<1>. QED
  BY <1>4, <1>5 DEF HasRecord

Inv == SearchInv /\ SessionInv /\ RegistryInv /\ InstallInv

\* A step that leaves the evidence, the rows and the registry.
Quiet == UNCHANGED <<coverage, journal, search, operator, registryvars>>

LEMMA QuietKeeps ==
    ASSUME InstallInv, Quiet, UNCHANGED cal \/ cal'.pc \notin Behind, Succeeded' => Succeeded,
           (mig'.pc = "exit" /\ mig'.code = 0 /\ migration'.status = "complete") =>
               mig' = mig /\ migration' = migration,
           (tuner' # Absent /\ tuner'.status = "complete") =>
               tun' = Out /\ tuner # Absent /\ tuner.status = "complete"
    PROVE  InstallInv'
<1>1. UNCHANGED <<coverage, journal, search, operator, registry, held, document>>
  BY DEF Quiet, registryvars
<1>2. AuditIsDone' /\ PeersCopy'
  BY <1>1, DoneStays, PeersStay DEF InstallInv
<1>3. RowsInstalled'
  BY <1>1, RowsStay DEF InstallInv
<1>4. GradeTrue'
  BY <1>1, GradeStays DEF InstallInv
<1>. QED
  BY <1>2, <1>3, <1>4 DEF InstallInv

\* What the tuner says while an invocation runs is not final.
LEMMA NotFinal ==
    ASSUME InstallInv, tun # Out, UNCHANGED tuner
    PROVE  ~ (tuner' # Absent /\ tuner'.status = "complete")
BY DEF InstallInv, GradeTrue

LEMMA GradeSame ==
    ASSUME InstallInv, UNCHANGED <<tuner, tun, mig, migration>>, KeepsHardware \/ UNCHANGED registry
    PROVE  GradeTrue'
BY GradeStays DEF InstallInv, GradeTrue

\* A calibration that runs has not succeeded, and its invocation has not ended.
LEMMA Working ==
    ASSUME SessionInv, cal # Out
    PROVE  /\ mig # Out /\ mig.pc = "wait" /\ tun # Out
           /\ (cal.pc = "exit" => cal.code # 0) => ~ Succeeded
BY DEF SessionInv, CalibrationOK, MigrationOK, Succeeded

\* A step of a calibration that has not come to its rows, or gives up.
LEMMA RowlessKeeps ==
    ASSUME SearchInv, SessionInv, InstallInv, cal # Out, AuditIsDone',
           UNCHANGED <<registryvars, tuner, tun, mig, migration>>,
           cal'.pc \notin Behind, cal'.pc = "exit" => cal'.code # 0
    PROVE  InstallInv'
<1>1. mig.pc = "wait"
  BY Working
<1>2. UNCHANGED <<registry, held, document>>
  BY DEF registryvars
<1>3. RowsInstalled'
  BY <1>1, NoRowsYet DEF Succeeded
<1>4. PeersCopy' /\ GradeTrue'
  BY <1>2, PeersStay, GradeSame DEF InstallInv
<1>. QED
  BY <1>3, <1>4 DEF InstallInv

\* The first steps of a calibration.
Early ==
    CheckDevice \/ WriteDevice \/ CalibrateStages \/ CheckOperator \/ IncumbentMeasured \/ IncumbentRun

LEMMA EarlyFacts ==
    ASSUME SessionInv, Early
    PROVE  cal # Out /\ cal'.pc \notin Behind /\ (cal'.pc = "exit" => cal'.code # 0)
<1>1. CASE CheckDevice \/ WriteDevice \/ CalibrateStages \/ CheckOperator
  <2>1. cal # Out /\ "pc" \in DOMAIN cal
    <3>1. cal.pc \in Before
      BY <1>1 DEF CheckDevice, WriteDevice, CalibrateStages, CheckOperator, Before
    <3>. QED
      BY <3>1 DEF SessionInv, CalibrationOK, Before, Out, Measured, IsExit
  <2>2. \A pc : Go(pc) => cal'.pc = pc
    BY <2>1 DEF Go
  <2>3. \A cause : Fail(cause) => cal'.pc = "exit" /\ cal'.code = 1
    BY DEF Fail
  <2>4. CASE CheckDevice \/ WriteDevice \/ CalibrateStages
    BY <2>1, <2>2, <2>3, <2>4 DEF CheckDevice, WriteDevice, CalibrateStages, Behind
  <2>5. CASE CheckOperator
    <3>1. ASSUME NEW rows, cal' = [rows |-> rows, next |-> 1] ++ [cal EXCEPT !.pc = "incumbents"]
          PROVE  cal'.pc = "incumbents"
      BY <2>1, <3>1 DEF ++
    <3>2. \/ \E cause : Fail(cause)
          \/ \E rows : cal' = [rows |-> rows, next |-> 1] ++ [cal EXCEPT !.pc = "incumbents"]
      BY <2>5 DEF CheckOperator
    <3>3. CASE \E cause : Fail(cause)
      BY <2>1, <2>3, <3>3 DEF Behind
    <3>4. CASE \E rows : cal' = [rows |-> rows, next |-> 1] ++ [cal EXCEPT !.pc = "incumbents"]
      <4>1. cal'.pc = "incumbents"
        BY <3>1, <3>4
      <4>. QED
        BY <2>1, <4>1 DEF Behind
    <3>. QED
      BY <3>2, <3>3, <3>4
  <2>. QED
    BY <1>1, <2>4, <2>5
<1>2. CASE IncumbentMeasured \/ IncumbentRun
  <2>1. cal.pc = "incumbents" /\ cal.pc \in Measured
    BY <1>2 DEF IncumbentMeasured, IncumbentRun, AtIncumbent, Measured
  <2>2. cal # Out /\ DOMAIN cal = {"pc", "build", "budget", "full", "rows", "next"}
    BY <2>1, MeasuredFacts
  <2>3. \A row, next : SaveIncumbent(row, next) => cal'.pc = "incumbents"
    BY <2>1, <2>2 DEF SaveIncumbent
  <2>4. \A cause : Fail(cause) => cal'.pc = "exit" /\ cal'.code = 1
    BY DEF Fail
  <2>5. (\E row, next : SaveIncumbent(row, next)) \/ (\E cause : Fail(cause))
    BY <1>2 DEF IncumbentMeasured, IncumbentRun
  <2>. QED
    BY <2>2, <2>3, <2>4, <2>5 DEF Behind
<1>. QED
  BY <1>1, <1>2 DEF Early

LEMMA EarlyInstalls ==
    ASSUME SearchInv, SessionInv, InstallInv, Early,
           UNCHANGED <<searchvars, registryvars, migvars, tunervars>>
    PROVE  InstallInv'
<1>1. AuditIsDone' /\ UNCHANGED <<tuner, tun, mig, migration>>
  BY DoneStays DEF InstallInv, searchvars, migvars, tunervars
<1>. QED
  BY <1>1, EarlyFacts, RowlessKeeps

\* The rows are written, the model fitted, and the manifest says so.
LEMMA LateInstalls ==
    ASSUME SearchInv, SessionInv, InstallInv, WriteOperator \/ FitModel \/ WriteCalibration,
           UNCHANGED <<searchvars, registryvars, migvars, tunervars>>
    PROVE  InstallInv'
<1>1. /\ cal.pc \in Measured /\ cal.pc \in Behind /\ UNCHANGED <<coverage, journal, search>>
      /\ UNCHANGED <<registry, held, document, tuner, tun, mig, migration>>
  BY DEF WriteOperator, FitModel, WriteCalibration, Measured, Behind, searchvars, registryvars,
         migvars, tunervars
<1>2. cal # Out /\ mig.pc = "wait"
  BY <1>1, MeasuredFacts
<1>3. AuditListed(cal.rows)
  BY <1>1 DEF InstallInv, RowsInstalled
<1>4. \A rows : AuditListed(rows) => AuditListed(rows)'
  BY <1>1, ListedStays
<1>5. AuditIsDone' /\ PeersCopy' /\ GradeTrue'
  BY <1>1, DoneStays, PeersStay, GradeSame DEF InstallInv
<1>6. RowsInstalled'
  <2>1. CASE WriteOperator
    <3>1. cal'.pc = "model" /\ cal'.rows = cal.rows /\ operator' = [rows |-> cal.rows]
      BY <1>1, <2>1, GoShape DEF WriteOperator, Measured
    <3>. QED
      BY <1>1, <1>2, <1>3, <1>4, <3>1 DEF RowsInstalled, Behind, Succeeded
  <2>2. CASE FitModel
    <3>1. /\ cal.pc = "model" /\ cal'.pc = "promote" /\ cal'.rows = cal.rows
          /\ operator' = operator
      BY <1>1, <2>2, GoShape DEF FitModel, Measured
    <3>2. operator = [rows |-> cal.rows]
      BY <3>1 DEF InstallInv, RowsInstalled, Behind
    <3>. QED
      BY <1>1, <1>2, <1>3, <1>4, <3>1, <3>2 DEF RowsInstalled, Behind, Succeeded
  <2>3. CASE WriteCalibration
    <3>1. /\ cal.pc = "manifest" /\ cal'.pc = "exit" /\ operator' = operator
      BY <2>3 DEF WriteCalibration
    <3>2. operator = [rows |-> cal.rows] /\ AllRegistered(registry, cal.rows)
      BY <3>1 DEF InstallInv, RowsInstalled, Behind
    <3>3. operator \notin {Absent, Torn} /\ operator.rows = cal.rows
      BY <3>2 DEF Absent, Torn
    <3>. QED
      BY <1>1, <1>3, <1>4, <3>1, <3>2, <3>3 DEF RowsInstalled, Behind
  <2>. QED
    BY <2>1, <2>2, <2>3
<1>. QED
  BY <1>5, <1>6 DEF InstallInv

\* The search begins, and gives up or returns.
LEMMA StartInstalls ==
    ASSUME SearchInv, SessionInv, InstallInv, StartSearch,
           UNCHANGED <<registryvars, migvars, tunervars>>
    PROVE  InstallInv'
<1>1. /\ cal.pc \in Measured /\ UNCHANGED <<tuner, tun, mig, migration>>
      /\ Go("search") /\ search'.pc # "done"
  BY DEF StartSearch, IncumbentsDone, BeginSearch, Measured, migvars, tunervars
<1>2. cal # Out /\ cal'.pc = "search"
  BY <1>1, MeasuredFacts, GoShape DEF Measured
<1>. QED
  BY <1>1, <1>2, RowlessKeeps DEF AuditIsDone, Behind

LEMMA SearchInstalls ==
    ASSUME SearchInv, SessionInv, InstallInv, SearchStep,
           UNCHANGED <<registryvars, calvars, migvars, tunervars>>
    PROVE  InstallInv'
<1>1. UNCHANGED <<cal, tuner, tun, mig, migration>>
  BY DEF calvars, migvars, tunervars
<1>2. cal.pc = "search"
  BY SearchStepPc DEF SessionInv, CalibrationOK
<1>3. AuditIsDone'
  BY DoneAudited
<1>. QED
  BY <1>1, <1>2, <1>3, RowlessKeeps DEF Behind, Out

LEMMA ReturnInstalls ==
    ASSUME SearchInv, SessionInv, InstallInv, SearchReturns,
           UNCHANGED <<registryvars, migvars, tunervars>>
    PROVE  InstallInv'
<1>1. /\ cal.pc = "search" /\ search.pc = "done" /\ search'.pc = "idle"
      /\ UNCHANGED <<coverage, journal, tuner, tun, mig, migration, registry, held, document>>
      /\ cal' = [cal EXCEPT !.pc = "output", !.rows = Returning]
      /\ cal.pc \in Measured
  BY DEF SearchReturns, Returning, Idle, Measured, registryvars, migvars, tunervars
<1>2. /\ DOMAIN cal = {"pc", "build", "budget", "full", "rows", "next"} /\ mig.pc = "wait"
  BY <1>1, MeasuredFacts
<1>3. AuditListed(Returning)
  BY <1>1, ReturnedListed DEF InstallInv
<1>4. PICK rows : rows = Returning
  OBVIOUS
<1>5. cal'.pc = "output" /\ cal'.rows = rows
  BY <1>1, <1>2, <1>4
<1>6. AuditListed(rows)
  BY <1>3, <1>4 DEF AuditListed
<1>7. AuditListed(rows)'
  BY <1>1, <1>6, ListedStays
<1>8. RowsInstalled'
  BY <1>1, <1>2, <1>5, <1>7 DEF RowsInstalled, Behind, Succeeded
<1>9. AuditIsDone' /\ PeersCopy' /\ GradeTrue'
  BY <1>1, PeersStay, GradeSame DEF InstallInv, AuditIsDone
<1>. QED
  BY <1>8, <1>9 DEF InstallInv

LEMMA RaisedInstalls ==
    ASSUME SearchInv, SessionInv, InstallInv, SearchRaised,
           UNCHANGED <<registryvars, migvars, tunervars>>
    PROVE  InstallInv'
<1>1. /\ cal.pc = "search" /\ cal'.pc = "exit" /\ cal'.code = 1 /\ search'.pc = "idle"
      /\ UNCHANGED <<tuner, tun, mig, migration>>
  BY DEF SearchRaised, Fail, Idle, migvars, tunervars
<1>. QED
  BY <1>1, RowlessKeeps DEF AuditIsDone, Behind, Out

\* The registry is read, and the new one takes its place.
LEMMA LockInstalls ==
    ASSUME SearchInv, SessionInv, RegistryInv, InstallInv, LockRegistry,
           UNCHANGED <<searchvars, migvars, tunervars>>
    PROVE  InstallInv'
<1>1. /\ cal.pc = "promote" /\ cal.pc \in Measured /\ Go("publish")
      /\ UNCHANGED <<coverage, journal, search, operator, tuner, tun, mig, migration>>
      /\ ReadRegistry(Promoting, Hardware, Promotable)
  BY DEF LockRegistry, Measured, searchvars, files, migvars, tunervars
<1>2. mig.pc = "wait"
  BY <1>1, MeasuredFacts
<1>3. cal'.pc = "publish" /\ cal'.rows = cal.rows
  BY <1>1, GoShape DEF Measured
<1>4. AllRegistered(document'[Promoting], cal.rows)
  BY <1>1, PromotionRegisters
<1>5. AuditListed(cal.rows) /\ operator = [rows |-> cal.rows]
  BY <1>1 DEF InstallInv, RowsInstalled, Behind
<1>6. \A rows : AuditListed(rows) => AuditListed(rows)'
  BY <1>1, ListedStays
<1>7. RowsInstalled'
  BY <1>1, <1>2, <1>3, <1>4, <1>5, <1>6 DEF RowsInstalled, Behind, Succeeded
<1>8. held' = {Promoting} /\ registry' = registry
  BY <1>1 DEF ReadRegistry
<1>9. AuditIsDone' /\ PeersCopy' /\ GradeTrue'
  BY <1>1, <1>8, DoneStays, GradeSame DEF InstallInv, PeersCopy
<1>. QED
  BY <1>7, <1>9 DEF InstallInv

LEMMA PublishInstalls ==
    ASSUME SearchInv, SessionInv, RegistryInv, InstallInv, Publish PROVE InstallInv'
<1>1. /\ cal.pc = "publish" /\ cal.pc \in Measured /\ Go("manifest")
      /\ UNCHANGED <<coverage, journal, search, operator, tuner, tun, mig, migration>>
      /\ WriteRegistry(Promoting)
  BY DEF Publish, PublishRegistry, Measured, searchvars, migvars
<1>2. mig.pc = "wait" /\ tun # Out
  BY <1>1, MeasuredFacts, Working
<1>3. cal'.pc = "manifest" /\ cal'.rows = cal.rows
  BY <1>1, GoShape DEF Measured
<1>4. registry' = document[Promoting] /\ held' = {}
  BY <1>1 DEF WriteRegistry, RegistryInv, Alone
<1>5. /\ AuditListed(cal.rows) /\ operator = [rows |-> cal.rows]
      /\ AllRegistered(document[Promoting], cal.rows)
  BY <1>1 DEF InstallInv, RowsInstalled, Behind
<1>6. \A rows : AuditListed(rows) => AuditListed(rows)'
  BY <1>1, ListedStays
<1>7. RowsInstalled'
  BY <1>1, <1>2, <1>3, <1>4, <1>5, <1>6 DEF RowsInstalled, Behind, Succeeded
<1>8. GradeTrue'
  BY <1>1, <1>2, NotFinal DEF GradeTrue
<1>9. AuditIsDone' /\ PeersCopy'
  BY <1>1, <1>4, DoneStays DEF InstallInv, PeersCopy
<1>. QED
  BY <1>7, <1>8, <1>9 DEF InstallInv

\* The installation around the calibration.
LEMMA StartChildInstalls ==
    ASSUME SearchInv, SessionInv, InstallInv, StartChild(build),
           UNCHANGED <<searchvars, registryvars, tunervars>>
    PROVE  InstallInv'
<1>1. /\ mig.pc = "child" /\ cal'.pc = "device" /\ mig' = [mig EXCEPT !.pc = "wait"]
      /\ UNCHANGED <<coverage, search, registry, held, document, tuner, tun>>
  BY DEF StartChild, StartCalibration, Step, searchvars, registryvars, tunervars
<1>2. mig'.pc = "wait" /\ tun # Out
  BY <1>1 DEF SessionInv, MigrationOK, IsExit, Out
<1>3. RowsInstalled'
  BY <1>1, <1>2 DEF RowsInstalled, Behind, Succeeded
<1>4. GradeTrue'
  BY <1>1, <1>2, NotFinal DEF GradeTrue
<1>5. AuditIsDone' /\ PeersCopy'
  BY <1>1, DoneStays, PeersStay DEF InstallInv
<1>. QED
  BY <1>3, <1>4, <1>5 DEF InstallInv

LEMMA ChildEndInstalls ==
    ASSUME SearchInv, SessionInv, InstallInv, ChildFailed \/ ChildDone,
           UNCHANGED <<searchvars, registryvars, tunervars>>
    PROVE  InstallInv'
<1>1. /\ mig.pc = "wait" /\ cal.pc = "exit" /\ cal'.pc = "out"
      /\ UNCHANGED <<coverage, journal, search, operator, registryvars, tuner, tun>>
  BY DEF ChildFailed, ChildDone, Out, files, searchvars, tunervars
<1>2. cal # Out /\ tun # Out
  BY <1>1, Working DEF Out
<1>3. Quiet /\ cal'.pc \notin Behind
  BY <1>1 DEF Quiet, Behind
<1>4. ~ (tuner' # Absent /\ tuner'.status = "complete")
  BY <1>1, <1>2, NotFinal
<1>5. CASE ChildFailed
  <2>1. mig'.pc = "exit" /\ mig'.code # 0
    BY <1>5 DEF ChildFailed
  <2>2. ~ Succeeded'
    BY <1>1, <2>1 DEF Succeeded
  <2>. QED
    BY <1>3, <1>4, <2>1, <2>2, QuietKeeps
<1>6. CASE ChildDone
  <2>1. Succeeded /\ mig' = [mig EXCEPT !.pc = "replay"]
    BY <1>6 DEF ChildDone, Succeeded, Step
  <2>2. mig'.pc = "replay"
    BY <1>1, <2>1 DEF SessionInv, MigrationOK, IsExit, Out
  <2>. QED
    BY <1>3, <1>4, <2>1, <2>2, QuietKeeps
<1>. QED
  BY <1>5, <1>6

LEMMA ReplayInstalls ==
    ASSUME SearchInv, SessionInv, InstallInv, Replay \/ NoteReplay,
           UNCHANGED <<searchvars, registryvars, calvars, tunervars>>
    PROVE  InstallInv'
<1>1. /\ mig.pc \in {"replay", "note"}
      /\ mig' = [mig EXCEPT !.pc = "note"] \/ mig' = [mig EXCEPT !.pc = "grade"]
      /\ UNCHANGED <<coverage, journal, search, operator, registryvars, cal, tuner, tun>>
  BY DEF Replay, NoteReplay, Step, files, searchvars, calvars, tunervars
<1>2. Succeeded /\ Quiet
  BY <1>1 DEF Succeeded, Quiet
<1>3. mig'.pc \in {"note", "grade"} /\ tun # Out
  BY <1>1 DEF SessionInv, MigrationOK, IsExit, Out
<1>4. ~ (tuner' # Absent /\ tuner'.status = "complete")
  BY <1>1, <1>3, NotFinal
<1>. QED
  BY <1>1, <1>2, <1>3, <1>4, QuietKeeps

\* The grade: a complete one has a record for each workload.
LEMMA GradeInstalls ==
    ASSUME SearchInv, SessionInv, InstallInv, Grade,
           UNCHANGED <<searchvars, registryvars, calvars, tunervars>>
    PROVE  InstallInv'
<1>1. /\ mig.pc = "grade" /\ mig'.pc = "exit"
      /\ UNCHANGED <<coverage, search, registry, held, document, cal, tuner, tun>>
      /\ migration' = [migration EXCEPT !.status = IF Complete THEN "complete" ELSE "incomplete"]
  BY DEF Grade, searchvars, registryvars, calvars, tunervars
<1>2. cal = Out /\ tun # Out
  BY <1>1, NoChild DEF SessionInv, MigrationOK, Out
<1>3. RowsInstalled'
  BY <1>1, <1>2 DEF RowsInstalled, Behind, Succeeded, Out
<1>4. migration'.status = "complete" => Complete
  BY <1>1 DEF SessionInv, TunerOK
<1>5. Complete => AllInstalled
  <2>1. /\ operator \notin {Absent, Torn} /\ AuditListed(operator.rows)
        /\ AllRegistered(registry, operator.rows)
    BY <1>1 DEF InstallInv, RowsInstalled, Succeeded
  <2>. QED
    BY <2>1, CoveredRegistered DEF Complete, AllInstalled
<1>6. AllInstalled => AllInstalled'
  BY <1>1 DEF AllInstalled, HasRecord
<1>7. GradeTrue'
  BY <1>1, <1>2, <1>4, <1>5, <1>6, NotFinal DEF GradeTrue
<1>8. AuditIsDone' /\ PeersCopy'
  BY <1>1, DoneStays, PeersStay DEF InstallInv
<1>. QED
  BY <1>3, <1>7, <1>8 DEF InstallInv

LEMMA SessionInstalls ==
    ASSUME SearchInv, SessionInv, RegistryInv, InstallInv, Session PROVE InstallInv'
<1>1. UNCHANGED tunervars
  BY DEF Session
<1>2. CASE StartChild(build) /\ UNCHANGED <<searchvars, registryvars>>
  BY <1>1, <1>2, StartChildInstalls
<1>3. CASE (ChildFailed \/ ChildDone) /\ UNCHANGED <<searchvars, registryvars>>
  BY <1>1, <1>3, ChildEndInstalls
<1>4. CASE (Replay \/ NoteReplay \/ Grade) /\ UNCHANGED <<searchvars, registryvars, calvars>>
  BY <1>1, <1>4, ReplayInstalls, GradeInstalls
<1>5. CASE CalibrationStep /\ UNCHANGED <<searchvars, registryvars, migvars>>
  BY <1>1, <1>5, EarlyInstalls, LateInstalls DEF CalibrationStep, Early
<1>6. CASE StartSearch /\ UNCHANGED <<registryvars, migvars>>
  BY <1>1, <1>6, StartInstalls
<1>7. CASE SearchStep /\ UNCHANGED <<registryvars, calvars, migvars>>
  BY <1>1, <1>7, SearchInstalls
<1>8. CASE (SearchReturns \/ SearchRaised) /\ UNCHANGED <<registryvars, migvars>>
  BY <1>1, <1>8, ReturnInstalls, RaisedInstalls
<1>9. CASE LockRegistry /\ UNCHANGED <<searchvars, migvars>>
  BY <1>1, <1>9, LockInstalls
<1>. QED
  BY <1>2, <1>3, <1>4, <1>5, <1>6, <1>7, <1>8, <1>9 DEF Session

\* The session is ended: nothing is promised of it.
LEMMA EndInstalls ==
    ASSUME InstallInv, EndSession, tun # Out,
           tuner' = tuner \/ (tuner' # Absent => tuner'.status # "complete")
    PROVE  InstallInv'
<1>1. /\ search'.pc = "idle" /\ cal'.pc = "out" /\ mig'.pc = "out"
      /\ registry' = registry /\ held' = held \ {Promoting}
      /\ document' = [document EXCEPT ![Promoting] = NoDocument]
  BY DEF EndSession, AbandonRegistry, Idle, Out
<1>2. \A p \in held' \ {Promoting} : document'[p] = document[p] /\ p \in held
  BY <1>1
<1>3. PeersCopy'
  BY <1>1, <1>2 DEF InstallInv, PeersCopy
<1>4. RowsInstalled' /\ AuditIsDone'
  BY <1>1 DEF RowsInstalled, AuditIsDone, Behind, Succeeded
<1>5. GradeTrue'
  BY <1>1, NotFinal DEF GradeTrue
<1>. QED
  BY <1>3, <1>4, <1>5 DEF InstallInv

\* A step of the tuner alone that does not end in a complete installation.
LEMMA AloneInstalls ==
    ASSUME SessionInv, InstallInv, UNCHANGED <<searchvars, registryvars, calvars>>,
           \/ UNCHANGED <<mig, migration>>
           \/ mig'.pc \in {"out", "child"},
           (tuner' # Absent /\ tuner'.status = "complete") =>
               tun' = Out /\ tuner # Absent /\ tuner.status = "complete"
    PROVE  InstallInv'
<1>1. Quiet
  BY DEF Quiet, searchvars, calvars, files
<1>2. UNCHANGED cal
  BY DEF calvars
<1>3. Succeeded' => Succeeded
  <2>1. CASE UNCHANGED <<mig, migration>>
    BY <1>2, <2>1 DEF Succeeded
  <2>2. CASE mig'.pc \in {"out", "child"}
    BY <1>2, <2>2 DEF Succeeded
  <2>. QED
    BY <2>1, <2>2
<1>. QED
  BY <1>1, <1>2, <1>3, QuietKeeps

LEMMA SameStatus == ASSUME NEW status, Same(status) PROVE tuner'.status = status
BY DEF Same, Save

LEMMA StartTunerInstalls ==
    ASSUME SessionInv, InstallInv, StartTuner PROVE InstallInv'
<1>1. tun = Out /\ UNCHANGED <<searchvars, registryvars, calvars, mig, migration>>
  BY DEF StartTuner, below, migvars
<1>2. "status" \in DOMAIN Loaded /\ (Loaded.status = "complete" => tuner # Absent /\ tuner.status = "complete")
  <2>1. CASE tuner = Absent
    BY <2>1 DEF Loaded, NewState
  <2>2. CASE tuner # Absent
    BY <2>2 DEF SessionInv, TunerOK, IsState, Loaded
  <2>. QED
    BY <2>1, <2>2
<1>3. \/ tuner' = Loaded /\ tun' = tun
      \/ tuner' = [Loaded EXCEPT !.status = "complete-with-warning"]
      \/ tuner' = Loaded /\ Loaded.status # "complete"
  BY DEF StartTuner, Finished
<1>4. (tuner' # Absent /\ tuner'.status = "complete") =>
          tun' = Out /\ tuner # Absent /\ tuner.status = "complete"
  BY <1>1, <1>2, <1>3
<1>. QED
  BY <1>1, <1>4, AloneInstalls

LEMMA TuningInstalls ==
    ASSUME SearchInv, SessionInv, InstallInv, Tuning PROVE InstallInv'
<1>1. tun # Out
  BY DEF Tuning, TimePasses, Pause, OpenRound, RunCalibrator, TimedOut, ReturnedBusy,
         ReturnedFailed, ReturnedGraded, Returned, CloseTuning
<1>2. tuner' = tuner => ~ (tuner' # Absent /\ tuner'.status = "complete")
  BY <1>1, NotFinal
<1>3. CASE TimePasses
  <2>1. UNCHANGED <<searchvars, registryvars, calvars, mig, migration, tuner>>
    BY <1>3 DEF TimePasses, below, migvars
  <2>. QED
    BY <1>2, <2>1, AloneInstalls
<1>4. CASE Pause \/ OpenRound \/ CloseTuning
  <2>1. UNCHANGED <<searchvars, registryvars, calvars, mig, migration>>
    BY <1>4 DEF Pause, OpenRound, CloseTuning, below, migvars
  <2>2. tuner'.status \in {"paused", "running", "complete-with-warning"}
    BY <1>4, SameStatus DEF Pause, OpenRound, CloseTuning
  <2>. QED
    BY <2>1, <2>2, AloneInstalls
<1>5. CASE RunCalibrator
  <2>1. UNCHANGED <<searchvars, registryvars, calvars, tuner>> /\ mig'.pc = "child"
    BY <1>5 DEF RunCalibrator, StartMigration
  <2>. QED
    BY <1>2, <2>1, AloneInstalls
<1>6. CASE TimedOut
  <2>1. EndSession /\ tuner'.status = "paused"
    BY <1>6, SameStatus DEF TimedOut
  <2>. QED
    BY <1>1, <2>1, EndInstalls
<1>7. CASE ReturnedBusy \/ ReturnedFailed
  <2>1. UNCHANGED <<searchvars, registryvars, calvars>> /\ mig'.pc = "out"
    BY <1>7 DEF ReturnedBusy, ReturnedFailed, Reaped, Out
  <2>2. tuner'.status \in {"running", "paused", "failed"}
    BY <1>7, SameStatus DEF ReturnedBusy, ReturnedFailed
  <2>. QED
    BY <2>1, <2>2, AloneInstalls
<1>8. CASE ReturnedGraded
  <2>1. /\ mig.pc = "exit" /\ mig.code = 0 /\ mig'.pc = "out"
        /\ UNCHANGED <<searchvars, registryvars, calvars>>
        /\ \/ migration.status = "complete" /\ tun' = Out
           \/ tuner'.status = "running"
    BY <1>8 DEF ReturnedGraded, Returned, Reaped, Out, Save
  <2>2. CASE tuner'.status = "running"
    BY <2>1, <2>2, AloneInstalls
  <2>3. CASE migration.status = "complete" /\ tun' = Out
    <3>1. /\ UNCHANGED <<coverage, journal, search, operator, registry, held, document, cal>>
      BY <2>1 DEF searchvars, registryvars, calvars, files
    <3>2. AllInstalled
      BY <2>1, <2>3 DEF InstallInv, GradeTrue
    <3>3. GradeTrue'
      BY <2>1, <2>3, <3>1, <3>2 DEF GradeTrue, AllInstalled, HasRecord
    <3>4. RowsInstalled'
      BY <2>1, <3>1, RowsStay DEF InstallInv, Succeeded
    <3>5. AuditIsDone' /\ PeersCopy'
      BY <3>1, DoneStays, PeersStay DEF InstallInv
    <3>. QED
      BY <3>3, <3>4, <3>5 DEF InstallInv
  <2>. QED
    BY <2>1, <2>2, <2>3
<1>. QED
  BY <1>3, <1>4, <1>5, <1>6, <1>7, <1>8 DEF Tuning

\* Another promoter has the lock, so the calibration does not; and it leaves the records
\* of this GPU.
LEMMA PeerReadInstalls ==
    ASSUME SearchInv, SessionInv, RegistryInv, InstallInv, NEW p \in Others, PeerReads(p)
    PROVE  InstallInv'
<1>. DEFINE promoted == Promoted(p, PeerCandidates[p])
<1>1. /\ UNCHANGED <<coverage, journal, search, operator, cal, mig, migration, tuner, tun>>
      /\ ReadRegistry(p, p, PeerCandidates[p])
  BY DEF PeerReads, searchvars, calvars, files, migvars
<1>2. p \in Promoter /\ p # Promoting /\ p # Hardware
  BY CalibrationAssumption DEF Others
<1>3. held' = {p} /\ registry' = registry /\ document'[p] = Merged(promoted, registry)
  BY <1>1, <1>2, CopyFacts
<1>4. document'[Promoting] = document[Promoting]
  BY <1>1, <1>2, CalibrationAssumption DEF ReadRegistry, RegistryInv, OwnersKnown
<1>5. \A id \in DOMAIN promoted : id[1] = p
  BY DEF Promoted
<1>. HIDE DEF promoted
<1>6. \A id \in DOMAIN registry :
          id[1] = Hardware => /\ id \in DOMAIN Merged(promoted, registry)
                              /\ Merged(promoted, registry)[id] = registry[id]
  BY <1>2, <1>5 DEF Merged
<1>7. PeersCopy'
  BY <1>3, <1>6 DEF PeersCopy
<1>8. RowsInstalled'
  BY <1>1, <1>3, <1>4, RowsStay DEF InstallInv, Succeeded
<1>9. AuditIsDone' /\ GradeTrue'
  BY <1>1, <1>3, DoneStays, GradeSame DEF InstallInv
<1>. QED
  BY <1>7, <1>8, <1>9 DEF InstallInv

LEMMA PeerWriteInstalls ==
    ASSUME SearchInv, SessionInv, RegistryInv, InstallInv, NEW p \in Others, PeerWrites(p)
    PROVE  InstallInv'
<1>1. /\ UNCHANGED <<coverage, journal, search, operator, cal, mig, migration, tuner, tun>>
      /\ WriteRegistry(p)
  BY DEF PeerWrites, searchvars, calvars, files, migvars
<1>2. p \in held /\ p # Promoting /\ registry' = document[p] /\ held' = {}
  BY <1>1 DEF Others, WriteRegistry, RegistryInv, Alone
<1>3. KeepsHardware
  BY <1>2 DEF InstallInv, PeersCopy, KeepsHardware
<1>4. document'[Promoting] = document[Promoting]
  BY <1>1, <1>2, CalibrationAssumption DEF WriteRegistry, RegistryInv, OwnersKnown
<1>5. PeersCopy'
  BY <1>2 DEF PeersCopy
<1>6. RowsInstalled'
  BY <1>1, <1>3, <1>4, RowsStay DEF InstallInv, Succeeded
<1>7. AuditIsDone' /\ GradeTrue'
  BY <1>1, <1>3, DoneStays, GradeSame DEF InstallInv
<1>. QED
  BY <1>5, <1>6, <1>7 DEF InstallInv

LEMMA InstallKeeps ==
    ASSUME SearchInv, SessionInv, RegistryInv, InstallInv, [Next]_vars PROVE InstallInv'
<1>1. CASE StartTuner
  BY <1>1, StartTunerInstalls
<1>2. CASE Tuning
  BY <1>2, TuningInstalls
<1>3. CASE Session
  BY <1>3, SessionInstalls
<1>4. CASE Publish
  BY <1>4, PublishInstalls
<1>5. CASE Kill
  BY <1>5, EndInstalls DEF Kill
<1>6. CASE Rebuild
  <2>1. /\ tun = Out /\ UNCHANGED <<tuner, tun>>
        /\ UNCHANGED <<searchvars, registryvars, calvars, mig, migration>>
    BY <1>6 DEF Rebuild, below, migvars
  <2>. QED
    BY <2>1, AloneInstalls
<1>7. CASE \E p \in Others : PeerReads(p) \/ PeerWrites(p)
  BY <1>7, PeerReadInstalls, PeerWriteInstalls
<1>8. CASE UNCHANGED vars
  <2>1. /\ UNCHANGED <<tuner, tun, searchvars, registryvars, calvars, mig, migration>>
    BY <1>8 DEF vars, migvars, tunervars
  <2>. QED
    BY <2>1, AloneInstalls DEF InstallInv, GradeTrue
<1>. QED
  BY <1>1, <1>2, <1>3, <1>4, <1>5, <1>6, <1>7, <1>8 DEF Next, Running

LEMMA InstallBegins == ASSUME Init PROVE InstallInv
<1>1. /\ search.pc = "idle" /\ cal.pc = "out" /\ mig.pc = "out" /\ tuner = Absent /\ held = {}
  BY DEF Init, SearchInit, Idle, RegistryInit, CalibrationInit, MigrationInit, Out
<1>. QED
  BY <1>1 DEF InstallInv, AuditIsDone, RowsInstalled, PeersCopy, GradeTrue, Behind, Succeeded

\* What the tuner calls complete is installed, and what the audit calls complete is in the
\* journal, whatever is killed, times out, is built anew or promoted by others, for any
\* workloads, candidates, trials and bounds (tune_hardware.main,
\* calibrate_hardware._execution_summary, run_compiled_search).
THEOREM InstallationCorrect == Spec => []CompleteIsInstalled
<1>1. Init => Inv
  BY InitHolds, RegistryBegins, InstallBegins DEF Inv
<1>2. Inv /\ [Next]_vars => Inv'
  BY NextKeeps, StutterKeeps, StepKeeps, InstallKeeps DEF Inv
<1>3. Inv => CompleteIsInstalled
  <2>. SUFFICES ASSUME Inv PROVE CompleteIsInstalled
    OBVIOUS
  <2>1. ASSUME coverage # Absent, NEW i \in DOMAIN coverage.cells, coverage.cells[i].complete,
               NEW c \in Members(coverage.cells[i].order)
        PROVE  /\ c \in DOMAIN Rows
               /\ coverage.cells[i].status[c] = "measured" => ~ Rows[c].correct \/ Rows[c].samples >= Trials
    BY <2>1 DEF Inv, SearchInv, CellsTrue, AllBacked, Backed, Settled
  <2>2. CellsBacked
    BY <2>1 DEF CellsBacked
  <2>3. (tuner # Absent /\ tuner.status = "complete") => AllInstalled
    BY DEF Inv, InstallInv, GradeTrue
  <2>. QED
    BY <2>2, <2>3 DEF CompleteIsInstalled, AllInstalled, HasRecord
<1>. QED
  BY <1>1, <1>2, <1>3, PTL DEF Spec

=============================================================================
