--------------------------- MODULE CampaignProofs ---------------------------
(***************************************************************************)
(* What the campaigns never lose, for any phases, studies,                 *)
(* workloads, requests and bounds on calls and setbacks.  Each of the four *)
(* programs has an invariant of its own, over the files it resumes from    *)
(* and the process that holds a copy of them; a behaviour runs one program *)
(* and leaves the variables of the others alone, so MCInv is the invariant *)
(* of the one that runs.                                                   *)
(*                                                                         *)
(* Research: a phase that is complete is the one nothing writes to any     *)
(* more.  Application: who measures holds the lock of every earlier study, *)
(* none of which is unresolved, and the cell in memory is the one on disk  *)
(* or a grown one.  Sweep: what is merged is what was read plus what was   *)
(* measured.  Controlled: the document in memory is the journal, or the    *)
(* journal after one more step; the call has behind it the preflights and  *)
(* trials that come before its place (Reached), so a case is evaluated     *)
(* only when every trial is recorded, which is why a verdict never changes *)
(* when a later call derives it again.                                     *)
(***************************************************************************)
EXTENDS MCCampaigns, TLAPS, SequenceTheorems

----------------------------------------------------------------------------
(* Journals of rows.                                                       *)

IsSeq(s) == s \in Seq(ToSet(s))

LEMMA EmptyIsSeq == IsSeq(<<>>) /\ ToSet(<<>>) = {}
  BY DEF IsSeq, ToSet

LEMMA AppendIsSeq ==
    ASSUME NEW s, IsSeq(s), NEW e
    PROVE  /\ IsSeq(Append(s, e)) /\ ToSet(Append(s, e)) = ToSet(s) \cup {e}
           /\ DOMAIN s \subseteq DOMAIN Append(s, e)
           /\ \A i \in DOMAIN s : Append(s, e)[i] = s[i]
           /\ \A i \in DOMAIN Append(s, e) \ DOMAIN s : Append(s, e)[i] = e
           /\ SubSeq(Append(s, e), 1, Len(s)) = s
<1> DEFINE T == ToSet(s) \cup {e}
<1>1. s \in Seq(T) /\ e \in T
  BY DEF IsSeq
<1>2. Len(s) \in Nat /\ DOMAIN s = 1 .. Len(s) /\ DOMAIN Append(s, e) = 1 .. Len(s) + 1
  BY <1>1
<1>3. Append(s, e) \in Seq(T) /\ \A i \in 1 .. Len(s) + 1 : Append(s, e)[i] = IF i <= Len(s) THEN s[i] ELSE e
  BY <1>1
<1>4. ToSet(Append(s, e)) = T
  BY <1>2, <1>3 DEF ToSet
<1>5. IsSeq(Append(s, e))
  BY <1>3, <1>4 DEF IsSeq
<1>6. SubSeq(Append(s, e), 1, Len(s)) = s
  BY <1>1, <1>2, <1>3
<1> QED
  BY <1>2, <1>3, <1>4, <1>5, <1>6

LEMMA SameSeq ==
    ASSUME NEW s, IsSeq(s)
    PROVE  SubSeq(s, 1, Len(s)) = s /\ Len(s) \in Nat /\ DOMAIN s = 1 .. Len(s)
  BY DEF IsSeq

\* A cell; a journal of cells.
IsCell(cell) ==
    /\ {"status", "rows"} \subseteq DOMAIN cell
    /\ IsSeq(cell.rows)

IsJournal(j) ==
    /\ {"status", "cells"} \subseteq DOMAIN j
    /\ \A c \in DOMAIN j.cells : IsCell(j.cells[c])

\* A journal holds the rows of an earlier one.
Grown(j, k) ==
    /\ IsJournal(k) /\ (IsSeq(j.cells) => IsSeq(k.cells))
    /\ \A c \in DOMAIN j.cells :
          c \in DOMAIN k.cells /\ ToSet(j.cells[c].rows) \subseteq ToSet(k.cells[c].rows)

LEMMA StatusGrown ==
    ASSUME NEW j, IsJournal(j), NEW x
    PROVE  Grown(j, [j EXCEPT !.status = x])
  BY DEF IsJournal, Grown

LEMMA ExceptSequence ==
    ASSUME NEW s, IsSeq(s), NEW i, NEW e
    PROVE  IsSeq([s EXCEPT ![i] = e])
<1> DEFINE t == [s EXCEPT ![i] = e]
<1>1. Len(s) \in Nat /\ DOMAIN s = 1 .. Len(s) /\ DOMAIN t = 1 .. Len(s)
  BY DEF IsSeq
<1>2. t \in [1 .. Len(s) -> ToSet(t)]
  BY <1>1 DEF ToSet
<1> HIDE DEF t
<1>3. t \in Seq(ToSet(t))
  BY <1>1, <1>2
<1> QED
  BY <1>3 DEF IsSeq, t

\* A cell is replaced by one with the same rows or with one more.
LEMMA CellGrown ==
    ASSUME NEW j, IsJournal(j), NEW i, NEW cell,
           i \in DOMAIN j.cells => IsCell(cell) /\ ToSet(j.cells[i].rows) \subseteq ToSet(cell.rows)
    PROVE  Grown(j, [j EXCEPT !.cells[i] = cell])
<1>1. [j EXCEPT !.cells[i] = cell].cells = [j.cells EXCEPT ![i] = cell]
  BY DEF IsJournal
<1> QED
  BY <1>1, ExceptSequence DEF IsJournal, Grown

LEMMA StatusCell ==
    ASSUME NEW cell, IsCell(cell), NEW x
    PROVE  /\ IsCell([cell EXCEPT !.status = x])
           /\ [cell EXCEPT !.status = x].rows = cell.rows
  BY DEF IsCell

LEMMA RowCell ==
    ASSUME NEW cell, IsCell(cell), NEW x, NEW row
    PROVE  LET next == [cell EXCEPT !.status = x, !.rows = Append(@, row)]
           IN  IsCell(next) /\ ToSet(cell.rows) \subseteq ToSet(next.rows)
<1> DEFINE next == [cell EXCEPT !.status = x, !.rows = Append(@, row)]
<1>1. next.rows = Append(cell.rows, row) /\ DOMAIN next = DOMAIN cell
  BY DEF IsCell
<1> QED
  BY <1>1, AppendIsSeq DEF IsCell

----------------------------------------------------------------------------
(* The research campaign.                                                  *)

Probed == {"calibration", "plans"}

OutputTypes ==
    /\ DOMAIN output = ToSet(Phases)
    /\ \A p \in DOMAIN output :
          IF p \in Probed
          THEN /\ {"items", "validated"} \subseteq DOMAIN output[p]
               /\ \A row \in output[p].items : row.trial = 0
          ELSE output[p] = Nothing \/ IsJournal(output[p])
    /\ Composed = Nothing \/ IsSeq(Composed.cells)

ConductorTypes ==
    /\ {"at", "phase"} \subseteq DOMAIN conductor /\ conductor.phase \in Nat
    /\ conductor.at = "phase" => conductor.phase # 0
    /\ conductor.at \in {"probes", "guarding", "by hand"} => conductor.phase \in DOMAIN Phases
    /\ conductor.at = "probes" => Phase \in Probed
    /\ conductor.at = "by hand" => Phase = "composed"

CommandTypes ==
    /\ command.kind \in {"acceptance", "composition"} =>
          /\ {"kind", "cell", "flying"} \subseteq DOMAIN command /\ command.cell \in Nat
          /\ command.flying => command.cell # 0
    /\ command.kind \in {"acceptance", "probe"} => conductor.at = "guarding"
    /\ command.kind = "probe" => Phase \in Probed
    /\ command.kind = "acceptance" => Phase \notin Probed \cup {"composed"}
    /\ command.kind = "acceptance" /\ command.cell # 0 => Journal # Nothing
    /\ command.kind = "composition" =>
          /\ "resume" \in DOMAIN command /\ Phase = "composed"
          /\ conductor.at = "guarding" \/ (conductor.at = "by hand" /\ ~ command.resume)
    /\ command.kind = "composition" /\ command.cell # 0 => Composed # Nothing /\ ~ Complete("composed")
    /\ command.kind = "ended" /\ command.code = 0 /\ conductor.at = "guarding" /\ Phase = "composed" =>
          Composed # Nothing

Walking == conductor.at \in {"phase", "probes", "guarding"}

CampaignTypes ==
    /\ {"status", "phases"} \subseteq DOMAIN campaign
    /\ campaign.status = "absent" => DOMAIN campaign.phases = {}
    /\ \A p \in DOMAIN campaign.phases : p \in DOMAIN output /\ campaign.phases[p] = output[p]
    /\ Complete("composed") => Composed # Nothing
    /\ conductor.at \in {"probes", "guarding"} => ~ Complete(Phase)
    /\ Walking => campaign.status # "absent"

ResearchInv == OutputTypes /\ ConductorTypes /\ CommandTypes /\ CampaignTypes

LEMMA PhasesAre ==
    /\ Phases \in Seq(ToSet(Phases)) /\ DOMAIN Phases = 1 .. Len(Phases) /\ Len(Phases) \in Nat
    /\ Len(Phases) >= 3 /\ Phases[Len(Phases) - 1] = "composed"
    /\ "composed" \in ToSet(Phases)
<1> DEFINE S == ToSet(Groups) \cup {"calibration", "composed", "plans"}
<1>1. Groups \in Seq(S) /\ <<"calibration">> \in Seq(S) /\ <<"composed", "plans">> \in Seq(S)
  BY CampaignAssumption
<1>2. /\ Phases \in Seq(S) /\ Len(Phases) = Len(Groups) + 3 /\ Len(Groups) \in Nat
      /\ Phases[Len(Groups) + 2] = "composed"
  BY <1>1 DEF Phases
<1> QED
  BY <1>2 DEF ToSet

----------------------------------------------------------------------------
(* What a command writes.                                                  *)

Writes(p, k) ==
    /\ output' = [output EXCEPT ![p] = k]
    /\ IsJournal(k) /\ (p = "composed" => IsSeq(k.cells))
    /\ output[p] = Nothing \/ Grown(output[p], k)

Wrote == \E k : Writes(Phase, k)

KeepsOrWrites == UNCHANGED output \/ (~ Complete(Phase) /\ Wrote)

\* A step of the command: it goes on, or ends.
CommandStep ==
    /\ UNCHANGED <<campaign, conductor>> /\ KeepsOrWrites
    /\ \/ /\ command'.kind = command.kind
          /\ {"kind", "cell", "flying"} \subseteq DOMAIN command' /\ command'.cell \in Nat
          /\ command'.flying => command'.cell # 0
          /\ command'.cell # 0 => output'[Phase] # Nothing /\ ~ Complete(Phase)
          /\ command.kind = "composition" =>
                "resume" \in DOMAIN command' /\ command'.resume = command.resume
       \/ command'.kind = "ended" /\ (command'.code = 0 => output'[Phase] # Nothing)

LEMMA NotNothing == \A j : IsJournal(j) => j # Nothing
  BY DEF IsJournal, Nothing

LEMMA WritesKeep ==
    ASSUME ResearchInv, NEW p \in ToSet(Phases) \ Probed, NEW k, Writes(p, k)
    PROVE  /\ OutputTypes' /\ output'[p] # Nothing
           /\ \A q \in DOMAIN output : q # p => output'[q] = output[q]
           /\ EvidenceStays
<1>1. output' = [output EXCEPT ![p] = k] /\ p \in DOMAIN output /\ IsJournal(k)
  BY DEF ResearchInv, OutputTypes, Writes
<1>2. OutputTypes'
  BY <1>1, PhasesAre DEF ResearchInv, OutputTypes, Writes, Composed
<1>3. RowsIn(p) \subseteq RowsIn(p)'
  BY <1>1, NotNothing DEF RowsIn, Writes, Grown, Probed
<1>4. \A q \in DOMAIN output : q # p => RowsIn(q)' = RowsIn(q)
  BY <1>1 DEF RowsIn
<1> QED
  BY <1>1, <1>2, <1>3, <1>4, NotNothing DEF EvidenceStays

LEMMA CommandStepKeeps ==
    ASSUME ResearchInv, CommandStep, command.kind \in {"acceptance", "composition"}
    PROVE  ResearchInv' /\ EvidenceStays /\ PhasesStay
<1>1. Phase' = Phase /\ Phase \in ToSet(Phases) \ Probed /\ Composed' = output'["composed"]
  BY PhasesAre DEF CommandStep, ResearchInv, ConductorTypes, CommandTypes, Phase, Composed, ToSet, Probed
<1>2. OutputTypes' /\ EvidenceStays /\ \A q \in DOMAIN output : q # Phase => output'[q] = output[q]
  <2>1. CASE UNCHANGED output
    BY <2>1 DEF ResearchInv, OutputTypes, Composed, EvidenceStays, RowsIn
  <2>2. CASE Wrote
    BY <1>1, <2>2, WritesKeep DEF Wrote
  <2> QED
    BY <2>1, <2>2 DEF CommandStep, KeepsOrWrites
<1>3. Complete(Phase) => UNCHANGED output
  BY DEF CommandStep, KeepsOrWrites
<1>4. output[Phase] # Nothing => output'[Phase] # Nothing
  BY <1>1, WritesKeep DEF CommandStep, KeepsOrWrites, Wrote
<1>5. ConductorTypes'
  BY <1>1 DEF CommandStep, ResearchInv, ConductorTypes
<1>6. CampaignTypes' /\ PhasesStay
  <2>1. \A p \in DOMAIN campaign.phases : output'[p] = output[p]
    BY <1>1, <1>2, <1>3 DEF CommandStep, ResearchInv, CampaignTypes, Complete
  <2>2. UNCHANGED campaign /\ conductor' = conductor /\ DOMAIN output' = DOMAIN output
    BY <1>2 DEF CommandStep, ResearchInv, OutputTypes
  <2> QED
    BY <1>1, <2>1, <2>2 DEF ResearchInv, CampaignTypes, Complete, PhasesStay, Composed, Walking
<1>7. CommandTypes'
  BY <1>1, <1>2, <1>3, <1>4 DEF CommandStep, ResearchInv, CommandTypes, Complete, Composed, Journal, Probed
<1> QED
  BY <1>2, <1>5, <1>6, <1>7 DEF ResearchInv

LEMMA AcceptanceSteps ==
    ASSUME ResearchInv, Acceptance
    PROVE  CommandStep /\ command.kind = "acceptance"
<1>1. /\ command.kind = "acceptance" /\ {"kind", "cell", "flying"} \subseteq DOMAIN command
      /\ command.cell \in Nat /\ ~ Complete(Phase) /\ (command.flying => command.cell # 0)
      /\ Phase \in DOMAIN output /\ Phase \notin Probed /\ Phase # "composed"
      /\ Journal = Nothing \/ IsJournal(Journal)
      /\ command.cell # 0 => IsJournal(Journal)
  <2>1. command.kind = "acceptance"
    BY DEF Acceptance, AcceptanceStart, SkipCell, SearchCell, LaunchTrial, RecordTrial, CompleteCell,
           AcceptanceEnds, CellOpen, AcceptanceBegun, Landing, Accepting
  <2> QED
    BY <2>1, PhasesAre DEF ResearchInv, CommandTypes, ConductorTypes, CampaignTypes, OutputTypes, Phase,
           Journal, ToSet
<1>2. ASSUME NEW k, Save(k), IsJournal(k), Journal = Nothing \/ Grown(Journal, k)
      PROVE  Wrote /\ output'[Phase] # Nothing
  BY <1>1, <1>2, NotNothing DEF Wrote, Writes, Save, Journal
<1>3. ASSUME IsJournal(Journal), NEW x, Save([Journal EXCEPT !.status = x])
      PROVE  Wrote /\ output'[Phase] # Nothing
  BY <1>2, <1>3, StatusGrown DEF Grown
<1>4. ASSUME IsJournal(Journal), NEW cell, SaveCell(cell),
             command.cell \in DOMAIN Journal.cells =>
                 IsCell(cell) /\ ToSet(CellNow.rows) \subseteq ToSet(cell.rows)
      PROVE  Wrote /\ output'[Phase] # Nothing
  BY <1>2, <1>4, CellGrown DEF Grown, SaveCell, CellNow
<1>5. ASSUME IsJournal(Journal), NEW x, SaveCell([CellNow EXCEPT !.status = x])
      PROVE  Wrote /\ output'[Phase] # Nothing
  BY <1>4, <1>5, StatusCell DEF IsJournal, CellNow
<1>6. ASSUME AcceptanceFails, command.cell # 0
      PROVE  Wrote /\ command'.kind = "ended" /\ output'[Phase] # Nothing
  BY <1>1, <1>3, <1>6 DEF AcceptanceFails, Exit
<1>7. CASE AcceptanceStart
  <2>1. IsJournal([PreparedAcceptance(Phase) EXCEPT !.status = "running"])
    BY EmptyIsSeq DEF PreparedAcceptance, NewCell, IsJournal, IsCell
  <2>2. UNCHANGED <<campaign, conductor>>
    BY <1>7 DEF AcceptanceStart
  <2>3. CASE Journal = Nothing
    BY <1>1, <1>2, <1>7, <2>1, <2>2, <2>3 DEF AcceptanceStart, CommandStep, KeepsOrWrites
  <2>4. CASE Journal # Nothing
    BY <1>1, <1>3, <1>7, <2>2, <2>4 DEF AcceptanceStart, CommandStep, KeepsOrWrites, Exit
  <2> QED
    BY <2>3, <2>4
<1>8. CASE SkipCell
  BY <1>1, <1>8, NotNothing DEF SkipCell, CommandStep, KeepsOrWrites, CellOpen, AcceptanceBegun, Journal
<1>9. CASE SearchCell
  <2>1. /\ command.cell # 0 /\ UNCHANGED <<campaign, conductor>>
        /\ \/ AcceptanceFails
           \/ /\ \E x : SaveCell([CellNow EXCEPT !.status = x])
              /\ command' = command \/ command' = [command EXCEPT !.cell = @ + 1]
    BY <1>9 DEF SearchCell, CellOpen, AcceptanceBegun
  <2>2. CASE AcceptanceFails
    BY <1>1, <1>6, <2>1, <2>2 DEF CommandStep, KeepsOrWrites
  <2>3. CASE ~ AcceptanceFails
    <3>1. Wrote /\ output'[Phase] # Nothing
      BY <1>1, <1>5, <2>1, <2>3
    <3>2. command' = command \/ command' = [command EXCEPT !.cell = command.cell + 1]
      BY <2>1, <2>3
    <3> QED
      BY <1>1, <2>1, <3>1, <3>2 DEF CommandStep, KeepsOrWrites
  <2> QED
    BY <2>2, <2>3
<1>10. CASE LaunchTrial
  BY <1>1, <1>6, <1>10, NotNothing DEF LaunchTrial, CommandStep, KeepsOrWrites, CellOpen, AcceptanceBegun, Journal
<1>11. CASE RecordTrial
  <2>1. \/ AcceptanceFails
        \/ /\ \E row : SaveCell([CellNow EXCEPT !.status = "comparing", !.rows = Append(@, row)])
           /\ command' = [command EXCEPT !.flying = FALSE]
    BY <1>11 DEF RecordTrial, Sample
  <2>2. command.cell # 0 /\ UNCHANGED <<campaign, conductor>>
    BY <1>1, <1>11 DEF RecordTrial, Landing
  <2> QED
    BY <1>1, <1>4, <1>6, <2>1, <2>2, RowCell DEF CommandStep, KeepsOrWrites, IsJournal, CellNow
<1>12. CASE CompleteCell
  <2>1. /\ command.cell # 0 /\ UNCHANGED <<campaign, conductor>>
        /\ command' = [command EXCEPT !.cell = command.cell + 1]
        /\ SaveCell([CellNow EXCEPT !.status = "complete"])
    BY <1>12 DEF CompleteCell, CellOpen, AcceptanceBegun
  <2>2. Wrote /\ output'[Phase] # Nothing
    BY <1>1, <1>5, <2>1
  <2> QED
    BY <1>1, <2>1, <2>2 DEF CommandStep, KeepsOrWrites
<1>13. CASE AcceptanceEnds
  <2>1. command.cell # 0 /\ UNCHANGED <<campaign, conductor>> /\ Exit(0)
        /\ \E x : Save([Journal EXCEPT !.status = x])
    BY <1>13 DEF AcceptanceEnds, AcceptanceBegun
  <2> QED
    BY <1>1, <1>3, <2>1 DEF CommandStep, KeepsOrWrites, Exit
<1> QED
  BY <1>1, <1>7, <1>8, <1>9, <1>10, <1>11, <1>12, <1>13 DEF Acceptance

LEMMA CompositionSteps ==
    ASSUME ResearchInv, Composition
    PROVE  CommandStep /\ command.kind = "composition"
<1>1. /\ command.kind = "composition" /\ {"kind", "cell", "flying", "resume"} \subseteq DOMAIN command
      /\ command.cell \in Nat /\ (command.flying => command.cell # 0)
      /\ Phase = "composed" /\ "composed" \in DOMAIN output
      /\ conductor.at = "guarding" => ~ Complete("composed")
      /\ conductor.at # "guarding" => ~ command.resume
      /\ Complete("composed") => Composed # Nothing
      /\ Composed = Nothing \/ (IsJournal(Composed) /\ IsSeq(Composed.cells))
      /\ command.cell # 0 => /\ Composed # Nothing /\ ~ Complete("composed")
      /\ UNCHANGED <<campaign, conductor>>
  <2>1. command.kind = "composition" /\ UNCHANGED <<campaign, conductor>>
    BY DEF Composition, CompositionStart, OpenCell, LaunchComposition, RecordComposition,
           CompleteComposition, CompositionEnds, CompositionOpen, Composing
  <2> QED
    BY <2>1, PhasesAre DEF ResearchInv, CommandTypes, CampaignTypes, OutputTypes, Composed, Probed
<1> DEFINE Landed == Wrote /\ output'[Phase] # Nothing
<1>2. ASSUME NEW k, SaveComposition(k), IsJournal(k), IsSeq(k.cells), Composed = Nothing \/ Grown(Composed, k)
      PROVE  Landed
  BY <1>1, <1>2, NotNothing DEF Wrote, Writes, SaveComposition, Composed
<1>3. ASSUME command.cell # 0, NEW k, SaveComposition(k), Grown(Composed, k)
      PROVE  Landed
  BY <1>1, <1>2, <1>3 DEF Grown
<1>4. ASSUME command.cell # 0, NEW x, SaveComposition([Composed EXCEPT !.status = x])
      PROVE  Landed
  BY <1>1, <1>3, <1>4, StatusGrown
<1>5. ASSUME command.cell # 0, NEW x
      PROVE  Grown(Composed, [Composed EXCEPT !.cells[Slot].status = x])
  <2> DEFINE cell == [ComposedCell EXCEPT !.status = x]
  <2>1. [Composed EXCEPT !.cells[Slot].status = x] = [Composed EXCEPT !.cells[Slot] = cell]
    BY DEF ComposedCell
  <2>2. Slot \in DOMAIN Composed.cells => IsCell(cell) /\ cell.rows = ComposedCell.rows
    BY <1>1, <1>5, StatusCell DEF IsJournal, ComposedCell
  <2> QED
    BY <1>1, <1>5, <2>1, <2>2, CellGrown DEF ComposedCell
<1>6. ASSUME CompositionFails, command.cell # 0
      PROVE  Landed /\ command'.kind = "ended" /\ command'.code # 0
  <2>1. command'.kind = "ended" /\ command'.code # 0
    BY <1>6 DEF CompositionFails, Exit
  <2>2. Grown(Composed, Composed)
    BY <1>1, <1>6 DEF Grown
  <2> QED
    BY <1>3, <1>5, <1>6, <2>1, <2>2 DEF CompositionFails
<1>7. CASE CompositionStart
  <2>1. IsJournal(NewComposition) /\ IsSeq(NewComposition.cells)
    BY EmptyIsSeq DEF NewComposition, IsJournal
  <2>2. command.resume => \/ command'.kind = "ended" /\ command'.code # 0
                          \/ command' = [command EXCEPT !.cell = 1] /\ Composed # Nothing
    BY <1>7 DEF CompositionStart, Exit
  <2>3. command.resume => UNCHANGED output
    BY <1>7 DEF CompositionStart, Exit
  <2>4. ~ command.resume => \/ UNCHANGED output /\ command'.kind = "ended" /\ command'.code # 0
                            \/ /\ Composed = Nothing /\ SaveComposition(NewComposition)
                               /\ command' = [command EXCEPT !.cell = 1]
    BY <1>7 DEF CompositionStart, Exit
  <2>5. CASE command.resume
    <3>1. UNCHANGED output /\ ~ Complete(Phase) /\ (Composed # Nothing => output'[Phase] # Nothing)
      BY <1>1, <2>3, <2>5 DEF Composed
    <3>2. CASE command'.kind = "ended"
      BY <1>1, <2>2, <2>5, <3>1, <3>2 DEF CommandStep, KeepsOrWrites
    <3>3. CASE command' = [command EXCEPT !.cell = 1] /\ Composed # Nothing
      <4>1. /\ {"kind", "cell", "flying", "resume"} \subseteq DOMAIN command'
            /\ command'.cell = 1 /\ command'.kind = command.kind /\ command'.resume = command.resume
        BY <1>1, <3>3
      <4>2. output'[Phase] # Nothing /\ ~ Complete(Phase)
        BY <3>1, <3>3
      <4> QED
        BY <1>1, <3>1, <4>1, <4>2 DEF CommandStep, KeepsOrWrites
    <3> QED
      BY <2>2, <2>5, <3>2, <3>3
  <2>6. CASE ~ command.resume
    BY <1>1, <1>2, <2>1, <2>4, <2>6 DEF CommandStep, KeepsOrWrites
  <2> QED
    BY <2>5, <2>6
<1> DEFINE Same == command' = command \/ command' = [command EXCEPT !.cell = @ + 1]
                      \/ command' = [command EXCEPT !.flying = TRUE] \/ command' = [command EXCEPT !.flying = FALSE]
<1>8. ASSUME command.cell # 0, UNCHANGED output \/ Landed,
             Same \/ (command'.kind = "ended" /\ (command'.code = 0 => Landed))
      PROVE  CommandStep /\ command.kind = "composition"
  BY <1>1, <1>8 DEF CommandStep, KeepsOrWrites, Composed
<1>9. CompositionOpen => command.cell # 0
  BY DEF CompositionOpen, Slot
<1> HIDE DEF Landed, Same
<1>10. CASE OpenCell
  <2>1. Same /\ command.cell # 0
    BY <1>9, <1>10 DEF OpenCell, Same
  <2> DEFINE w == Workload(ComposedIds[Slot])
             cell == [id |-> w.id, status |-> "pending", portfolios |-> Portfolios(w), rows |-> <<>>]
  <2>2. SaveComposition([Composed EXCEPT !.cells = Append(@, cell)])
    BY <1>10 DEF OpenCell
  <2>3. IsCell(cell)
    BY EmptyIsSeq DEF IsCell
  <2>4. Grown(Composed, [Composed EXCEPT !.cells = Append(@, cell)])
    BY <1>1, <2>1, <2>3, AppendIsSeq DEF Grown, IsJournal
  <2> QED
    BY <1>3, <1>8, <2>1, <2>2, <2>4
<1>11. CASE LaunchComposition
  <2>1. command.cell # 0 /\ \/ UNCHANGED output /\ command'.kind = "ended" /\ command'.code # 0
                            \/ CompositionFails
                            \/ UNCHANGED output /\ Same
    BY <1>9, <1>11 DEF LaunchComposition, Exit, Same
  <2> QED
    BY <1>6, <1>8, <2>1
<1>12. CASE RecordComposition
  <2>1. command.cell # 0
    BY <1>9, <1>12 DEF RecordComposition
  <2>2. CASE CompositionFails
    BY <1>6, <1>8, <2>1, <2>2
  <2>3. CASE ~ CompositionFails
    <3> DEFINE Gated(row) == [Composed EXCEPT !.preflight = Append(@, row)]
               cell(row) == [ComposedCell EXCEPT !.status = "partial", !.rows = Append(@, row)]
               Timed(row) == [Composed EXCEPT !.cells[Slot] = cell(row)]
    <3>1. /\ Same
          /\ \E row : (SaveComposition(Gated(row)) \/ SaveComposition(Timed(row)))
      BY <1>12, <2>3 DEF RecordComposition, Sample, Same
    <3>2. PICK row : SaveComposition(Gated(row)) \/ SaveComposition(Timed(row))
      BY <3>1
    <3>3. Grown(Composed, Gated(row))
      BY <1>1, <2>1 DEF Grown, IsJournal
    <3>4. Grown(Composed, Timed(row))
      <4>1. Slot \in DOMAIN Composed.cells =>
               IsCell(cell(row)) /\ ToSet(ComposedCell.rows) \subseteq ToSet(cell(row).rows)
        BY <1>1, <2>1, <3>2, RowCell DEF IsJournal, ComposedCell
      <4> HIDE DEF cell
      <4> QED
        BY <1>1, <2>1, <4>1, CellGrown DEF ComposedCell
    <3> HIDE DEF Gated, Timed
    <3> QED
      BY <1>3, <1>8, <2>1, <3>1, <3>2, <3>3, <3>4
  <2> QED
    BY <2>2, <2>3
<1>13. CASE CompleteComposition
  <2>1. /\ command.cell # 0
        /\ \/ UNCHANGED output /\ command'.kind = "ended" /\ command'.code # 0
           \/ /\ SaveComposition([Composed EXCEPT !.cells[Slot].status = "complete"])
              /\ Same
    BY <1>9, <1>13 DEF CompleteComposition, Exit, Same
  <2> QED
    BY <1>3, <1>5, <1>8, <2>1
<1>14. CASE CompositionEnds
  <2>1. command.cell # 0 /\ command'.kind = "ended" /\ SaveComposition([Composed EXCEPT !.status = "complete"])
    BY <1>1, <1>14 DEF CompositionEnds, Exit, Slot
  <2> QED
    BY <1>4, <1>8, <2>1
<1> QED
  BY <1>1, <1>7, <1>10, <1>11, <1>12, <1>13, <1>14 DEF Composition

----------------------------------------------------------------------------
(* What the conductor does.                                                *)

LEMMA OutputSame ==
    ASSUME ResearchInv, UNCHANGED output
    PROVE  OutputTypes' /\ EvidenceStays /\ Composed' = Composed
  BY DEF ResearchInv, OutputTypes, Composed, EvidenceStays, RowsIn

\* A step that leaves the files and the campaign's phases alone.
LEMMA FilesSame ==
    ASSUME ResearchInv, UNCHANGED <<output, campaign>>,
           ConductorTypes', CommandTypes', Walking' => Walking,
           conductor'.at \in {"probes", "guarding"} => ~ Complete(Phase)'
    PROVE  ResearchInv' /\ EvidenceStays /\ PhasesStay
<1>1. CampaignTypes' /\ PhasesStay
  BY OutputSame DEF ResearchInv, CampaignTypes, Complete, PhasesStay
<1> QED
  BY <1>1, OutputSame DEF ResearchInv

LEMMA PrecompileSteps ==
    ASSUME ResearchInv, StartPrecompile \/ Precompile \/ PrecompileInterrupted
    PROVE  ResearchInv' /\ EvidenceStays /\ PhasesStay
<1>1. /\ UNCHANGED <<output, campaign, command>> /\ conductor.at \in {"idle", "precompile"}
      /\ \/ conductor' = [at |-> "precompile", phase |-> 0, waiting |-> Modules]
         \/ conductor.at = "precompile" /\ \E w : conductor' = [conductor EXCEPT !.waiting = w]
         \/ conductor' = Idle
  BY DEF StartPrecompile, Precompile, PrecompileInterrupted, WorkerEnds, PrecompileEnds
<1>2. ConductorTypes' /\ conductor'.at \in {"idle", "precompile"}
  <2>1. CASE conductor' = [at |-> "precompile", phase |-> 0, waiting |-> Modules]
    BY <2>1 DEF ConductorTypes
  <2>2. CASE conductor' = Idle
    BY <2>2 DEF ConductorTypes, Idle
  <2>3. ASSUME conductor.at = "precompile", NEW w, conductor' = [conductor EXCEPT !.waiting = w]
        PROVE  ConductorTypes' /\ conductor'.at = "precompile"
    BY <2>3 DEF ResearchInv, ConductorTypes
  <2> QED
    BY <1>1, <2>1, <2>2, <2>3 DEF Idle
<1>3. CommandTypes'
  BY <1>1, <1>2 DEF ResearchInv, CommandTypes
<1> QED
  BY <1>1, <1>2, <1>3, FilesSame DEF Walking

LEMMA ResearchSame ==
    ASSUME ResearchInv, UNCHANGED <<output, campaign, command, conductor>>
    PROVE  ResearchInv' /\ EvidenceStays /\ PhasesStay
  BY FilesSame DEF Walking, ResearchInv, ConductorTypes, CommandTypes, CampaignTypes, Complete, Phase, Journal, Composed

LEMMA WorldSteps ==
    ASSUME ResearchInv,
           (\E m \in Modules : Evict(m)) \/ ClientArrives \/ ClientLeaves \/ InputsChange
    PROVE  ResearchInv' /\ EvidenceStays /\ PhasesStay
<1>1. UNCHANGED <<output, campaign, command, conductor>>
  BY DEF Evict, ClientArrives, ClientLeaves, InputsChange
<1> QED
  BY <1>1, ResearchSame

LEMMA NextPhase ==
    ASSUME ConductorTypes, conductor.at = "phase", conductor' = [conductor EXCEPT !.phase = @ + 1]
    PROVE  ConductorTypes' /\ conductor'.at = "phase"
<1>1. {"at", "phase"} \subseteq DOMAIN conductor' /\ conductor'.phase \in Nat /\ conductor'.phase # 0
  BY DEF ConductorTypes
<1>2. conductor'.at = "phase"
  BY DEF ConductorTypes
<1> QED
  BY <1>1, <1>2 DEF ConductorTypes

LEMMA HandSteps ==
    ASSUME ResearchInv, ComposeByHand \/ HandEnds \/ PowerLoss \/ ProbeReturns \/ PassGroup
    PROVE  ResearchInv' /\ EvidenceStays /\ PhasesStay
<1>1. UNCHANGED <<output, campaign>>
  BY DEF ComposeByHand, HandEnds, PowerLoss, ProbeReturns, PassGroup
<1>2. CASE ComposeByHand
  <2>1. /\ conductor' = [at |-> "by hand", phase |-> Len(Phases) - 1]
        /\ command' = [kind |-> "composition", resume |-> FALSE, cell |-> 0, flying |-> FALSE]
    BY <1>2 DEF ComposeByHand, CommandOf
  <2>2. Phase' = "composed"
    BY <2>1, PhasesAre DEF Phase
  <2>3. ConductorTypes' /\ CommandTypes'
    <3>1. Len(Phases) - 1 \in Nat /\ Len(Phases) - 1 \in DOMAIN Phases
      BY PhasesAre
    <3> QED
      BY <2>1, <2>2, <3>1 DEF ConductorTypes, CommandTypes
  <2> QED
    BY <1>1, <2>1, <2>3, FilesSame DEF Walking
<1>3. CASE HandEnds \/ PowerLoss
  <2>1. conductor' = Idle /\ command' = NoCommand
    BY <1>3 DEF HandEnds, PowerLoss
  <2>2. ConductorTypes' /\ CommandTypes' /\ conductor'.at = "idle"
    BY <2>1 DEF ConductorTypes, CommandTypes, Idle, NoCommand
  <2> QED
    BY <1>1, <2>2, FilesSame DEF Walking
<1>4. CASE ProbeReturns
  <2>1. UNCHANGED conductor /\ command.kind = "probe" /\ command'.kind = "ended" /\ Phase' = Phase
    BY <1>4 DEF ProbeReturns, Exit, Phase
  <2> QED
    BY <1>1, <2>1, FilesSame DEF Walking, ResearchInv, ConductorTypes, CommandTypes, CampaignTypes, Complete, Probed
<1>5. CASE PassGroup
  <2>1. conductor' = [conductor EXCEPT !.phase = @ + 1] /\ conductor.at = "phase" /\ UNCHANGED command
    BY <1>5 DEF PassGroup
  <2>2. ConductorTypes' /\ conductor'.at = "phase"
    BY <2>1, NextPhase DEF ResearchInv
  <2>3. CommandTypes'
    BY <1>1, <2>1, <2>2 DEF ResearchInv, CommandTypes
  <2> QED
    BY <1>1, <2>1, <2>2, <2>3, FilesSame DEF Walking
<1> QED
  BY <1>2, <1>3, <1>4, <1>5

\* A step that changes the campaign's status alone, or starts it.
LEMMA StatusSteps ==
    ASSUME ResearchInv, UNCHANGED output, DOMAIN campaign'.phases = DOMAIN campaign.phases,
           \A p \in DOMAIN campaign.phases : campaign'.phases[p] = campaign.phases[p],
           {"status", "phases"} \subseteq DOMAIN campaign', campaign'.status # "absent",
           ConductorTypes', CommandTypes',
           conductor'.at \in {"probes", "guarding"} => ~ Complete(Phase)'
    PROVE  ResearchInv' /\ EvidenceStays /\ PhasesStay
<1>1. CampaignTypes' /\ PhasesStay
  BY OutputSame DEF ResearchInv, CampaignTypes, Complete, PhasesStay
<1> QED
  BY <1>1, OutputSame DEF ResearchInv

LEMMA RunTargetStep ==
    ASSUME ResearchInv, NEW resume \in BOOLEAN, RunTarget(resume)
    PROVE  ResearchInv' /\ EvidenceStays /\ PhasesStay
<1>1. /\ UNCHANGED <<output, command>> /\ conductor.at = "idle"
      /\ conductor' = conductor \/ conductor' = [at |-> "phase", phase |-> 1]
  BY DEF RunTarget
<1>2. /\ {"status", "phases"} \subseteq DOMAIN campaign' /\ campaign'.status # "absent"
      /\ DOMAIN campaign'.phases = DOMAIN campaign.phases
      /\ \A p \in DOMAIN campaign.phases : campaign'.phases[p] = campaign.phases[p]
  <2> DEFINE begun == IF campaign.status = "absent"
                      THEN [NoCampaign EXCEPT !.identity = inputs, !.status = "prepared"] ELSE campaign
  <2>1. /\ {"status", "phases"} \subseteq DOMAIN begun /\ begun.status # "absent"
        /\ DOMAIN begun.phases = DOMAIN campaign.phases
        /\ \A p \in DOMAIN campaign.phases : begun.phases[p] = campaign.phases[p]
    BY DEF ResearchInv, CampaignTypes, NoCampaign
  <2> HIDE DEF begun
  <2>2. campaign' = begun \/ campaign' = [begun EXCEPT !.status = "interrupted"]
    BY DEF RunTarget, begun
  <2> QED
    BY <2>1, <2>2
<1>3. ConductorTypes' /\ conductor'.at \in {"idle", "phase"}
  <2>1. CASE conductor' = conductor
    BY <1>1, <2>1 DEF ResearchInv, ConductorTypes
  <2>2. CASE conductor' = [at |-> "phase", phase |-> 1]
    BY <2>2 DEF ConductorTypes
  <2> QED
    BY <1>1, <2>1, <2>2
<1>4. CommandTypes'
  BY <1>1, <1>3 DEF ResearchInv, CommandTypes
<1> QED
  BY <1>1, <1>2, <1>3, <1>4, StatusSteps

LEMMA EnterPhaseStep ==
    ASSUME ResearchInv, EnterPhase
    PROVE  ResearchInv' /\ EvidenceStays /\ PhasesStay
<1>1. /\ conductor.at = "phase" /\ {"at", "phase"} \subseteq DOMAIN conductor
      /\ conductor.phase \in Nat /\ conductor.phase \in DOMAIN Phases
      /\ UNCHANGED output
  BY PhasesAre DEF EnterPhase, ResearchInv, ConductorTypes
<1>2. command.kind \notin {"acceptance", "probe", "composition"}
  BY <1>1 DEF ResearchInv, CommandTypes
<1>3. CASE Complete(Phase) /\ campaign.phases[Phase] = output[Phase]
  <2>1. conductor' = [conductor EXCEPT !.phase = @ + 1] /\ UNCHANGED <<campaign, command>>
    BY <1>3 DEF EnterPhase
  <2>2. ConductorTypes' /\ conductor'.at = "phase"
    BY <1>1, <2>1, NextPhase DEF ResearchInv
  <2>3. CommandTypes'
    BY <1>2, <2>1, <2>2 DEF CommandTypes
  <2> QED
    BY <1>1, <2>1, <2>2, <2>3, FilesSame DEF Walking
<1>4. CASE Complete(Phase) /\ campaign.phases[Phase] # output[Phase]
  BY <1>4 DEF ResearchInv, CampaignTypes, Complete
<1>5. CASE ~ Complete(Phase)
  <2>1. \E x : x # "absent" /\ campaign' = [campaign EXCEPT !.status = x]
    BY <1>5 DEF EnterPhase
  <2>2. /\ {"status", "phases"} \subseteq DOMAIN campaign' /\ campaign'.status # "absent"
        /\ campaign'.phases = campaign.phases
    BY <2>1 DEF ResearchInv, CampaignTypes
  <2>3. \/ Phase \in Probed /\ conductor' = [conductor EXCEPT !.at = "probes"] /\ UNCHANGED command
        \/ conductor' = Idle /\ UNCHANGED command
        \/ /\ Phase \notin Probed /\ conductor' = [conductor EXCEPT !.at = "guarding"]
           /\ command' = CommandOf(Phase)
    BY <1>5 DEF EnterPhase, Probed
  <2>4. CASE conductor' = Idle /\ UNCHANGED command
    BY <1>1, <1>2, <2>2, <2>4, StatusSteps DEF ConductorTypes, CommandTypes, Idle
  <2>5. CASE Phase \in Probed /\ conductor' = [conductor EXCEPT !.at = "probes"] /\ UNCHANGED command
    <3>1. Phase' = Phase /\ ~ Complete(Phase)'
      BY <1>1, <1>5, <2>2, <2>5 DEF Phase, Complete
    <3> QED
      BY <1>1, <1>2, <2>2, <2>5, <3>1, StatusSteps DEF ConductorTypes, CommandTypes
  <2>6. CASE /\ Phase \notin Probed /\ conductor' = [conductor EXCEPT !.at = "guarding"]
             /\ command' = CommandOf(Phase)
    <3>1. Phase' = Phase /\ ~ Complete(Phase)'
      BY <1>1, <1>5, <2>2, <2>6 DEF Phase, Complete
    <3> QED
      BY <1>1, <2>2, <2>6, <3>1, StatusSteps DEF ConductorTypes, CommandTypes, CommandOf
  <2> QED
    BY <2>3, <2>4, <2>5, <2>6
<1> QED
  BY <1>3, <1>4, <1>5

\* The phase under way is complete.
LEMMA PhaseDoneKeeps ==
    ASSUME ResearchInv, PhaseDone, conductor.at \in {"probes", "guarding"}, UNCHANGED output,
           command'.kind \notin {"acceptance", "probe", "composition"},
           Phase = "composed" => Composed # Nothing
    PROVE  ResearchInv' /\ EvidenceStays /\ PhasesStay
<1>1. /\ campaign.phases = campaign.phases /\ Phase \in DOMAIN output /\ ~ Complete(Phase)
      /\ conductor' = [at |-> "phase", phase |-> conductor.phase + 1] /\ conductor.phase \in Nat
  BY PhasesAre DEF PhaseDone, ResearchInv, CampaignTypes, OutputTypes, ConductorTypes, Phase, ToSet
<1>2. /\ {"status", "phases"} \subseteq DOMAIN campaign' /\ campaign'.status = campaign.status
      /\ DOMAIN campaign'.phases = DOMAIN campaign.phases \cup {Phase}
      /\ \A p \in DOMAIN campaign.phases : campaign'.phases[p] = campaign.phases[p]
      /\ campaign'.phases[Phase] = output[Phase]
  BY <1>1 DEF PhaseDone, ResearchInv, CampaignTypes, Complete
<1>3. ConductorTypes' /\ CommandTypes'
  BY <1>1 DEF ConductorTypes, CommandTypes
<1>4. campaign.status # "absent"
  BY DEF ResearchInv, CampaignTypes, Walking
<1>5. CampaignTypes' /\ PhasesStay
  BY <1>1, <1>2, <1>4, OutputSame DEF ResearchInv, CampaignTypes, PhasesStay, Complete, Walking
<1> QED
  BY <1>3, <1>5, OutputSame DEF ResearchInv

\* An exception ends the call; the phase's files are as they are.
LEMMA InterruptKeeps ==
    ASSUME ResearchInv, Interrupt
    PROVE  /\ ConductorTypes' /\ CommandTypes' /\ ~ Walking'
           /\ {"status", "phases"} \subseteq DOMAIN campaign' /\ campaign'.status # "absent"
           /\ campaign'.phases = campaign.phases
           /\ UNCHANGED output => ResearchInv' /\ EvidenceStays /\ PhasesStay
<1>1. ConductorTypes' /\ CommandTypes' /\ conductor'.at = "idle"
  BY DEF Interrupt, ConductorTypes, CommandTypes, Idle, NoCommand
<1>2. /\ {"status", "phases"} \subseteq DOMAIN campaign' /\ campaign'.status # "absent"
      /\ campaign'.phases = campaign.phases
  BY DEF Interrupt, ResearchInv, CampaignTypes
<1> QED
  BY <1>1, <1>2, StatusSteps DEF Walking

\* The directory of an incomplete phase changes.
LEMMA DirectoryChanges ==
    ASSUME ResearchInv, conductor.at = "guarding", NEW files, output' = [output EXCEPT ![Phase] = files],
           OutputTypes',
           campaign'.phases = campaign.phases, {"status", "phases"} \subseteq DOMAIN campaign',
           campaign'.status # "absent", ConductorTypes', CommandTypes', Walking' => Phase' = Phase
    PROVE  ResearchInv' /\ PhasesStay
<1>1. ~ Complete(Phase) /\ DOMAIN output' = DOMAIN output
      /\ \A p \in DOMAIN output : p # Phase => output'[p] = output[p]
  BY DEF ResearchInv, CampaignTypes, OutputTypes
<1>2. \A p \in DOMAIN campaign.phases : p \in DOMAIN output /\ output'[p] = output[p]
  BY <1>1 DEF ResearchInv, CampaignTypes, Complete
<1>3. PhasesStay
  BY <1>2 DEF PhasesStay
<1>4. CampaignTypes'
  BY <1>1, <1>2 DEF ResearchInv, CampaignTypes, Complete, Composed, Walking
<1> QED
  BY <1>3, <1>4 DEF ResearchInv

LEMMA QuarantineKeeps ==
    ASSUME ResearchInv, Quarantine, conductor.at = "guarding", foreign
    PROVE  ResearchInv' /\ EvidenceStays /\ PhasesStay
<1>1. output' = [output EXCEPT ![Phase] = EmptyOutput[Phase]] /\ Interrupt
  BY DEF Quarantine
<1>2. Phase \in ToSet(Phases)
  BY DEF ResearchInv, ConductorTypes, Phase, ToSet
<1>3. EmptyOutput[Phase] = IF Phase \in Probed THEN Probes ELSE Nothing
  BY <1>2 DEF EmptyOutput, Probed
<1>4. OutputTypes'
  BY <1>1, <1>3, PhasesAre DEF ResearchInv, OutputTypes, Composed, Probed, Probes
<1>5. EvidenceStays
  BY <1>1 DEF EvidenceStays, RowsIn
<1> QED
  BY <1>1, <1>4, <1>5, InterruptKeeps, DirectoryChanges

LEMMA StopSteps ==
    ASSUME ResearchInv, CtrlC \/ Monitor \/ FinishCampaign
    PROVE  ResearchInv' /\ EvidenceStays /\ PhasesStay
<1>1. CASE CtrlC
  BY <1>1, InterruptKeeps DEF CtrlC
<1>2. CASE Monitor
  BY <1>2, QuarantineKeeps DEF Monitor, Guarding
<1>3. CASE FinishCampaign
  <2>1. /\ conductor' = Idle /\ UNCHANGED <<output, command>> /\ conductor.at = "phase"
        /\ campaign' = [campaign EXCEPT !.status = "resolved-declared-campaign"]
    BY <1>3 DEF FinishCampaign
  <2>2. ConductorTypes' /\ CommandTypes' /\ conductor'.at = "idle"
    BY <2>1 DEF ResearchInv, ConductorTypes, CommandTypes, Idle
  <2>3. /\ {"status", "phases"} \subseteq DOMAIN campaign' /\ campaign'.status # "absent"
        /\ campaign'.phases = campaign.phases
    BY <2>1 DEF ResearchInv, CampaignTypes
  <2> QED
    BY <2>1, <2>2, <2>3, StatusSteps
<1> QED
  BY <1>1, <1>2, <1>3

LEMMA NextProbeStep ==
    ASSUME ResearchInv, NextProbe
    PROVE  ResearchInv' /\ EvidenceStays /\ PhasesStay
<1>1. conductor.at = "probes" /\ Phase \in Probed /\ UNCHANGED output /\ ~ Complete(Phase)
  BY DEF NextProbe, ResearchInv, ConductorTypes, CampaignTypes
<1>2. command.kind \notin {"acceptance", "probe", "composition"}
  BY <1>1 DEF ResearchInv, CommandTypes
<1>3. CASE PhaseDone /\ UNCHANGED command
  BY <1>1, <1>2, <1>3, PhaseDoneKeeps DEF Probed
<1>4. CASE Interrupt
  BY <1>1, <1>4, InterruptKeeps
<1>5. CASE /\ command' = [kind |-> "probe", item |-> Remaining[1]]
           /\ conductor' = [conductor EXCEPT !.at = "guarding"] /\ UNCHANGED campaign
  <2>1. Phase' = Phase /\ conductor'.at = "guarding" /\ ~ Complete(Phase)' /\ Walking
    BY <1>1, <1>5 DEF ResearchInv, ConductorTypes, Phase, Complete, Walking
  <2>2. ConductorTypes'
    BY <1>1, <1>5, <2>1 DEF ResearchInv, ConductorTypes
  <2>3. CommandTypes'
    BY <1>1, <1>5, <2>1 DEF CommandTypes
  <2> QED
    BY <1>1, <1>5, <2>1, <2>2, <2>3, FilesSame
<1> QED
  BY <1>3, <1>4, <1>5 DEF NextProbe

LEMMA CommandEndsStep ==
    ASSUME ResearchInv, CommandEnds
    PROVE  ResearchInv' /\ EvidenceStays /\ PhasesStay
<1>1. conductor.at = "guarding" /\ command.kind = "ended"
  BY DEF CommandEnds, Guarding
<1>2. CASE foreign
  BY <1>1, <1>2, QuarantineKeeps DEF CommandEnds
<1>3. CASE ~ foreign /\ command.code # 0
  BY <1>3, InterruptKeeps DEF CommandEnds
<1>4. CASE ~ foreign /\ command.code = 0 /\ Phase \notin Probed
  <2>1. PhaseDone /\ command' = NoCommand /\ UNCHANGED output
    BY <1>4 DEF CommandEnds, Probed
  <2> QED
    BY <1>1, <1>4, <2>1, PhaseDoneKeeps DEF ResearchInv, CommandTypes, NoCommand
<1>5. CASE ~ foreign /\ command.code = 0 /\ Phase \in Probed
  <2> DEFINE item == Sample(command.item, 0)
             files(v) == [output[Phase] EXCEPT !.items = {row \in @ : row.name # command.item} \cup {item},
                                               !.validated = v]
  <2>1. PICK v : /\ output' = [output EXCEPT ![Phase] = files(v)]
                 /\ \/ /\ conductor' = [conductor EXCEPT !.at = "probes"]
                       /\ command' = NoCommand /\ UNCHANGED campaign
                    \/ Interrupt
    BY <1>5 DEF CommandEnds, Probed
  <2>2. item.name = command.item /\ item.trial = 0
    BY <1>5 DEF Sample
  <2>3. /\ {"items", "validated"} \subseteq DOMAIN output[Phase] /\ Phase \in DOMAIN output /\ Phase # "composed"
        /\ \A row \in output[Phase].items : row.trial = 0
    BY <1>1, <1>5 DEF ResearchInv, ConductorTypes, OutputTypes, Phase, ToSet, Probed
  <2>4. /\ {"items", "validated"} \subseteq DOMAIN files(v)
        /\ files(v).items = {row \in output[Phase].items : row.name # command.item} \cup {item}
    BY <2>3
  <2> HIDE DEF item, files
  <2>5. OutputTypes'
    BY <1>5, <2>1, <2>2, <2>3, <2>4 DEF ResearchInv, OutputTypes, Composed
  <2>6. EvidenceStays
    <3>1. SUFFICES ASSUME NEW p \in DOMAIN output
                   PROVE  {<<r.name, r.trial>> : r \in RowsIn(p)} \subseteq {<<r.name, r.trial>> : r \in RowsIn(p)'}
      BY DEF EvidenceStays
    <3>2. CASE p # Phase
      BY <2>1, <3>2 DEF RowsIn
    <3>3. CASE p = Phase
      <4>1. RowsIn(p) = output[p].items /\ RowsIn(p)' = files(v).items
        BY <1>5, <2>1, <2>3, <3>3 DEF RowsIn, Probed
      <4>2. item \in RowsIn(p)'
            /\ \A row \in RowsIn(p) : row \in RowsIn(p)' \/ (row.name = item.name /\ row.trial = item.trial)
        BY <2>2, <2>3, <2>4, <3>3, <4>1
      <4> QED
        BY <4>2
    <3> QED
      BY <3>2, <3>3
  <2>7. CASE Interrupt
    BY <1>1, <2>1, <2>5, <2>6, <2>7, InterruptKeeps, DirectoryChanges
  <2>8. CASE /\ conductor' = [conductor EXCEPT !.at = "probes"] /\ command' = NoCommand /\ UNCHANGED campaign
    <3>1. Phase' = Phase /\ conductor'.at = "probes"
      BY <1>1, <2>8 DEF ResearchInv, ConductorTypes, Phase
    <3>2. ConductorTypes' /\ CommandTypes'
      BY <1>1, <1>5, <2>8, <3>1 DEF ResearchInv, ConductorTypes, CommandTypes, NoCommand
    <3>3. {"status", "phases"} \subseteq DOMAIN campaign' /\ campaign'.status # "absent"
      BY <1>1, <2>8 DEF ResearchInv, CampaignTypes, Walking
    <3> QED
      BY <1>1, <2>1, <2>5, <2>6, <2>8, <3>1, <3>2, <3>3, DirectoryChanges
  <2> QED
    BY <2>1, <2>7, <2>8
<1> QED
  BY <1>2, <1>3, <1>4, <1>5

LEMMA ResearchSteps ==
    ASSUME ResearchInv, Next
    PROVE  ResearchInv' /\ EvidenceStays /\ PhasesStay
  BY PrecompileSteps, WorldSteps, HandSteps, RunTargetStep, EnterPhaseStep, NextProbeStep, CommandEndsStep,
     StopSteps, AcceptanceSteps, CompositionSteps, CommandStepKeeps DEF Next

LEMMA ResearchStarts ==
    ASSUME Init
    PROVE  ResearchInv
<1>1. \A p \in ToSet(Phases) : EmptyOutput[p] = IF p \in Probed THEN Probes ELSE Nothing
  BY DEF EmptyOutput, Probed
<1>2. output = EmptyOutput /\ DOMAIN output = ToSet(Phases) /\ output["composed"] = Nothing
  BY <1>1, PhasesAre DEF Init, EmptyOutput, Probed
<1>3. OutputTypes
  BY <1>1, <1>2 DEF OutputTypes, Composed, Probes
<1> QED
  BY <1>3 DEF Init, ResearchInv, ConductorTypes, CommandTypes, CampaignTypes, Idle, NoCommand, NoCampaign,
              Walking, Complete

----------------------------------------------------------------------------
(* The application study: who holds which lock, and the cell in memory.    *)

Ours(s) == lock[s] = "us" /\ journals[s].resolved
Held == \A s \in DOMAIN lock : Ours(s)

JournalsTyped ==
    /\ DOMAIN journals = Application!Studies
    /\ \A s \in DOMAIN journals : {"resolved", "digest"} \subseteq DOMAIN journals[s]

LockTypes ==
    /\ DOMAIN lock = ToSet(Earlier) /\ DOMAIN other = ToSet(Earlier)
    /\ \A s \in DOMAIN lock : other[s] # "none" <=> lock[s] = "other"

RunnerTypes ==
    /\ "at" \in DOMAIN runner
    /\ runner.at = "locking" =>
          /\ "next" \in DOMAIN runner /\ runner.next \in Nat \ {0}
          /\ \A i \in DOMAIN Earlier : i < runner.next => Ours(Earlier[i])
    /\ runner.at = "gate" => "flying" \in DOMAIN runner
    /\ runner.at \in {"gate", "cyclic", "composed"} => Held
    /\ runner.at = "composed" =>
          /\ {"next", "cell", "flying"} \subseteq DOMAIN runner /\ runner.next \in Nat \ {0}
          /\ runner.next # 1 => composed # Application!Absent
          /\ runner.cell # Application!Absent =>
                /\ IsCell(runner.cell)
                /\ runner.next \in DOMAIN Application!Cells =>
                      LET saved == Application!Cells[runner.next]
                      IN  saved.portfolios = runner.cell.portfolios /\ saved.rows = runner.cell.rows

ComposedTypes ==
    composed # Application!Absent => IsJournal(composed) /\ IsSeq(composed.cells)

AppInv == JournalsTyped /\ LockTypes /\ RunnerTypes /\ ComposedTypes

LEMMA CellsAre ==
    ASSUME AppInv
    PROVE  /\ IsSeq(Application!Cells)
           /\ \A c \in DOMAIN Application!Cells : IsCell(Application!Cells[c])
           /\ composed = Application!Absent => DOMAIN Application!Cells = {}
  BY EmptyIsSeq DEF AppInv, ComposedTypes, IsJournal, Application!Cells

LEMMA AppRests ==
    ASSUME AppInv
    PROVE  Application!EarlierAtRest
  BY DEF AppInv, LockTypes, RunnerTypes, Held, Ours, Application!EarlierAtRest

\* Whoever writes a journal, what was resolved stays resolved.
LEMMA ResolvedStays ==
    ASSUME AppInv,
           \/ UNCHANGED journals
           \/ Application!OwnSearch
           \/ \E s \in DOMAIN lock : Application!OtherResolves(s)
           \/ \E s \in Application!Studies : Application!Rewritten(s)
    PROVE  JournalsTyped' /\ \A s \in DOMAIN lock : journals[s].resolved => journals'[s].resolved
<1>1. JournalsTyped /\ DOMAIN lock \subseteq Application!Studies
  BY DEF AppInv, LockTypes, Application!Studies, Application!ToSet, ToSet
<1>2. CASE UNCHANGED journals
  BY <1>1, <1>2 DEF JournalsTyped
<1>3. CASE \E s, j : /\ journals' = [journals EXCEPT ![s] = j] /\ {"resolved", "digest"} \subseteq DOMAIN j
                     /\ s \in DOMAIN journals /\ journals[s].resolved => j.resolved
  BY <1>1, <1>3 DEF JournalsTyped
<1> DEFINE Found1(s) == [resolved |-> TRUE, known |-> Found[s], digest |-> 1]
<1>4. CASE Application!OwnSearch
  <2>1. UNCHANGED journals \/ journals' = [journals EXCEPT ![Application!Own] =
            IF journals[Application!Own].resolved THEN journals[Application!Own] ELSE Found1(Application!Own)]
    BY <1>4 DEF Application!OwnSearch
  <2>2. Application!Own \in DOMAIN journals
    BY <1>1 DEF JournalsTyped, Application!Studies
  <2> QED
    BY <1>1, <1>2, <1>3, <2>1, <2>2 DEF JournalsTyped
<1>5. CASE \E s \in DOMAIN lock : Application!OtherResolves(s)
  <2>1. PICK s \in DOMAIN lock : journals' = [journals EXCEPT ![s] = Found1(s)]
    BY <1>5 DEF Application!OtherResolves
  <2> QED
    BY <1>1, <1>3, <2>1 DEF JournalsTyped
<1>6. CASE \E s \in Application!Studies : Application!Rewritten(s)
  <2>1. PICK s \in Application!Studies : journals' = [journals EXCEPT ![s].digest = @ + 1]
    BY <1>6 DEF Application!Rewritten
  <2> DEFINE j == [journals[s] EXCEPT !.digest = @ + 1]
  <2>2. journals' = [journals EXCEPT ![s] = j] /\ s \in DOMAIN journals
    BY <1>1, <2>1 DEF JournalsTyped
  <2>3. DOMAIN j = DOMAIN journals[s] /\ j.resolved = journals[s].resolved
    BY <1>1, <2>2 DEF JournalsTyped
  <2> HIDE DEF j
  <2> QED
    BY <1>1, <1>3, <2>2, <2>3 DEF JournalsTyped
<1> QED
  BY <1>2, <1>4, <1>5, <1>6

LEMMA SameRows ==
    ASSUME AppInv, UNCHANGED composed
    PROVE  Application!RowsStay /\ Application!Cells' = Application!Cells
  BY CellsAre, SameSeq DEF Application!RowsStay, Application!Cells, IsCell

\* The runner is gone, and its locks are free.
LEMMA ExitKeeps ==
    ASSUME AppInv, Application!Exit, UNCHANGED other
    PROVE  LockTypes' /\ RunnerTypes'
  BY DEF AppInv, LockTypes, RunnerTypes, Application!Exit, Application!Idle

\* The other studies and the world.
LEMMA OthersKeep ==
    ASSUME AppInv, UNCHANGED <<composed, runner>>,
           \/ \E s \in DOMAIN lock :
                 Application!OtherStarts(s) \/ Application!OtherTurns(s) \/ Application!OtherResolves(s)
           \/ UNCHANGED <<lock, other>> /\ \E s \in Application!Studies : Application!Rewritten(s)
           \/ UNCHANGED <<lock, other, journals>>
    PROVE  AppInv' /\ Application!RowsStay
<1>1. LockTypes' /\ \A s \in DOMAIN lock : lock[s] = "us" => lock'[s] = "us"
  BY DEF AppInv, LockTypes, Application!OtherStarts, Application!OtherTurns, Application!OtherResolves
<1>2. JournalsTyped' /\ \A s \in DOMAIN lock : journals[s].resolved => journals'[s].resolved
  BY ResolvedStays DEF Application!OtherStarts, Application!OtherTurns
<1>3. DOMAIN lock' = DOMAIN lock /\ \A s \in DOMAIN lock : Ours(s) => Ours(s)'
  BY <1>1, <1>2 DEF AppInv, LockTypes, Ours
<1>4. \A i \in DOMAIN Earlier : Earlier[i] \in DOMAIN lock
  BY DEF AppInv, LockTypes, ToSet
<1>5. RunnerTypes'
  BY <1>3, <1>4, SameRows DEF AppInv, RunnerTypes, Held
<1> QED
  BY <1>1, <1>2, <1>5, SameRows DEF AppInv, ComposedTypes

\* A step of the runner before its own search has ended.
LEMMA LockingSteps ==
    ASSUME AppInv, Application!TakeLock \/ Application!Enter \/ Application!GateDone
                   \/ \E queued \in BOOLEAN : Application!Execute(queued)
    PROVE  AppInv' /\ Application!RowsStay
<1>1. UNCHANGED <<composed, other, journals>>
  BY DEF Application!TakeLock, Application!Enter, Application!Execute, Application!GateDone, Application!world
<1>2. SUFFICES LockTypes' /\ RunnerTypes'
  BY <1>1, ResolvedStays, SameRows DEF AppInv, ComposedTypes
<1>3. CASE Application!Exit
  BY <1>1, <1>3, ExitKeeps
<1>4. CASE \E queued \in BOOLEAN : Application!Execute(queued)
  <2>1. runner' = [at |-> "locking", next |-> 1] /\ UNCHANGED lock
    BY <1>4 DEF Application!Execute
  <2>2. LockTypes'
    BY <1>1, <2>1 DEF AppInv, LockTypes
  <2>3. \A i \in DOMAIN Earlier : i \in Nat /\ ~ i < 1
    BY StudyAssumption
  <2> QED
    BY <2>1, <2>2, <2>3 DEF RunnerTypes
<1>5. CASE Application!TakeLock /\ ~ Application!Exit
  <2> DEFINE s == Earlier[runner.next]
  <2>1. /\ runner.at = "locking" /\ runner.next <= Len(Earlier) /\ lock[s] = "free" /\ journals[s].resolved
        /\ lock' = [lock EXCEPT ![s] = "us"]
        /\ runner' = [runner EXCEPT !.next = @ + 1]
    BY <1>5 DEF Application!TakeLock
  <2>2. runner.next \in DOMAIN Earlier /\ s \in DOMAIN lock /\ {"at", "next"} \subseteq DOMAIN runner
    BY <2>1, StudyAssumption DEF AppInv, LockTypes, RunnerTypes, ToSet
  <2>3. LockTypes'
    BY <1>1, <2>1, <2>2 DEF AppInv, LockTypes
  <2>4. runner'.at = "locking" /\ runner'.next = runner.next + 1 /\ {"at", "next"} \subseteq DOMAIN runner'
    BY <2>1, <2>2
  <2>5. \A i \in DOMAIN Earlier : i < runner'.next => Ours(Earlier[i])'
    <3>1. TAKE i \in DOMAIN Earlier
    <3>2. Earlier[i] \in DOMAIN lock /\ i \in Nat /\ runner.next \in Nat
      BY <2>1, StudyAssumption DEF AppInv, LockTypes, RunnerTypes, ToSet
    <3>3. i < runner.next => Ours(Earlier[i])
      BY <2>1 DEF AppInv, RunnerTypes
    <3> QED
      BY <1>1, <2>1, <2>2, <2>4, <3>2, <3>3 DEF Ours
  <2> QED
    BY <2>1, <2>3, <2>4, <2>5 DEF AppInv, RunnerTypes
<1>6. CASE Application!Enter /\ ~ Application!Exit
  <2>1. /\ runner.at = "locking" /\ runner.next > Len(Earlier) /\ UNCHANGED lock
        /\ runner' = [at |-> "gate", flying |-> FALSE]
    BY <1>6 DEF Application!Enter
  <2>2. Held
    BY <2>1, StudyAssumption DEF AppInv, LockTypes, RunnerTypes, Held, ToSet
  <2> QED
    BY <1>1, <2>1, <2>2 DEF AppInv, LockTypes, RunnerTypes, Held, Ours
<1>7. CASE Application!GateDone
  BY <1>1, <1>7 DEF Application!GateDone, Application!world, AppInv, LockTypes, RunnerTypes, Held, Ours
<1> QED
  BY <1>3, <1>4, <1>5, <1>6, <1>7

\* A step of the runner that holds its locks and saves no cell.
LEMMA HoldingSteps ==
    ASSUME AppInv, \/ Application!LaunchGate \/ Application!LandGate \/ Application!OwnSearch
                   \/ Application!OpenCell
    PROVE  AppInv' /\ Application!RowsStay
<1>1. UNCHANGED <<composed, other>> /\ (UNCHANGED journals \/ Application!OwnSearch)
  BY DEF Application!LaunchGate, Application!LandGate, Application!OwnSearch, Application!OpenCell, Application!world
<1>2. SUFFICES LockTypes' /\ RunnerTypes'
  BY <1>1, ResolvedStays, SameRows DEF AppInv, ComposedTypes
<1>3. CASE Application!Exit
  BY <1>1, <1>3, ExitKeeps
<1>4. CASE ~ Application!Exit
  <2>1. UNCHANGED lock /\ Held
    BY <1>4 DEF Application!LaunchGate, Application!LandGate, Application!OwnSearch, Application!OpenCell,
                Application!GateOpen, Application!Timing, AppInv, RunnerTypes
  <2>2. LockTypes' /\ Held'
    BY <1>1, <2>1, ResolvedStays DEF AppInv, LockTypes, Held, Ours
  <2>3. CASE Application!LaunchGate \/ Application!LandGate
    <3>1. runner.at = "gate" /\ \E b : runner' = [runner EXCEPT !.flying = b]
      BY <1>4, <2>3 DEF Application!LaunchGate, Application!LandGate, Application!GateOpen
    <3> QED
      BY <2>2, <3>1 DEF AppInv, RunnerTypes
  <2>4. CASE Application!OwnSearch
    <3>1. runner' = [at |-> "composed", next |-> 1, cell |-> Application!Absent, flying |-> FALSE]
      BY <1>4, <2>4 DEF Application!OwnSearch
    <3> QED
      BY <2>2, <3>1 DEF RunnerTypes
  <2>5. CASE Application!OpenCell
    <3>1. PICK cell : /\ runner.at = "composed" /\ runner' = [runner EXCEPT !.cell = cell]
                      /\ \/ runner.next \notin DOMAIN Application!Cells /\ cell = Application!NewCell(Application!WorkloadNow)
                         \/ runner.next \in DOMAIN Application!Cells /\ cell = Application!Cells[runner.next]
      BY <1>4, <2>5 DEF Application!OpenCell, Application!Timing
    <3>2. IsCell(cell)
      BY <3>1, CellsAre, EmptyIsSeq DEF Application!NewCell, IsCell
    <3>3. /\ runner'.at = "composed" /\ runner'.next = runner.next /\ runner'.cell = cell
          /\ {"at", "next", "cell", "flying"} \subseteq DOMAIN runner' /\ runner.next \in Nat \ {0}
          /\ runner.next # 1 => composed # Application!Absent
      BY <3>1 DEF AppInv, RunnerTypes
    <3> QED
      BY <1>1, <2>2, <3>1, <3>2, <3>3, SameRows DEF RunnerTypes
  <2> QED
    BY <2>2, <2>3, <2>4, <2>5
<1> QED
  BY <1>3, <1>4

\* The cell under way is written, with the rows it had or more.
LEMMA SaveKeeps ==
    ASSUME AppInv, runner.at = "composed", runner.cell # Application!Absent,
           NEW cell, IsCell(cell), cell.portfolios = runner.cell.portfolios,
           SubSeq(cell.rows, 1, Len(runner.cell.rows)) = runner.cell.rows,
           Application!Save(cell)
    PROVE  /\ ComposedTypes' /\ Application!RowsStay /\ composed' # Application!Absent
           /\ runner.next \in DOMAIN Application!Cells' => Application!Cells'[runner.next] = cell
<1> DEFINE next == IF runner.next \in DOMAIN Application!Cells
                   THEN [Application!Cells EXCEPT ![runner.next] = cell] ELSE Append(Application!Cells, cell)
<1>1. /\ {"status", "cells"} \subseteq DOMAIN composed' /\ composed'.cells = next
      /\ composed' # Application!Absent
  BY DEF Application!Save, Application!Absent
<1>2. Application!Cells' = next
  BY <1>1 DEF Application!Cells
<1>3. /\ IsSeq(next) /\ DOMAIN Application!Cells \subseteq DOMAIN next
      /\ \A c \in DOMAIN next : \/ c = runner.next /\ next[c] = cell
                                \/ c \in DOMAIN Application!Cells /\ c # runner.next /\ next[c] = Application!Cells[c]
                                \/ c \notin DOMAIN Application!Cells /\ next[c] = cell
  <2>1. CASE runner.next \in DOMAIN Application!Cells
    <3>1. next = [Application!Cells EXCEPT ![runner.next] = cell]
      BY <2>1
    <3> QED
      BY <2>1, <3>1, CellsAre, ExceptSequence
  <2>2. CASE runner.next \notin DOMAIN Application!Cells
    <3>1. next = Append(Application!Cells, cell)
      BY <2>2
    <3> HIDE DEF next
    <3> QED
      BY <2>2, <3>1, CellsAre, AppendIsSeq
  <2> QED
    BY <2>1, <2>2
<1> HIDE DEF next
<1>4. \A c \in DOMAIN next : IsCell(next[c])
  BY <1>3, CellsAre
<1>5. ComposedTypes'
  BY <1>1, <1>3, <1>4 DEF ComposedTypes, IsJournal
<1>6. Application!RowsStay
  <2>1. SUFFICES ASSUME NEW c \in DOMAIN Application!Cells
                 PROVE  /\ c \in DOMAIN next /\ next[c].portfolios = Application!Cells[c].portfolios
                        /\ SubSeq(next[c].rows, 1, Len(Application!Cells[c].rows)) = Application!Cells[c].rows
    BY <1>2 DEF Application!RowsStay
  <2>2. CASE c = runner.next
    BY <1>3, <2>2 DEF AppInv, RunnerTypes
  <2>3. CASE c # runner.next
    BY <1>3, <2>3, CellsAre, SameSeq DEF IsCell
  <2> QED
    BY <2>2, <2>3
<1> QED
  BY <1>1, <1>2, <1>3, <1>5, <1>6

\* A step of the runner that saves the cell under way.
LEMMA SavingSteps ==
    ASSUME AppInv, Application!LaunchTrial \/ Application!LandTrial \/ Application!CompleteCell
    PROVE  AppInv' /\ Application!RowsStay
<1>1. /\ UNCHANGED <<other, journals>> /\ runner.at = "composed" /\ runner.cell # Application!Absent
      /\ IsCell(runner.cell) /\ Held
      /\ {"at", "next", "cell", "flying"} \subseteq DOMAIN runner /\ runner.next \in Nat \ {0}
  BY DEF Application!LaunchTrial, Application!LandTrial, Application!CompleteCell, Application!CellOpen,
         Application!Timing, Application!world, AppInv, RunnerTypes
<1> DEFINE Saved(cell) == [runner.cell EXCEPT !.status = cell]
<1>2. ASSUME NEW x, Application!Save(Saved(x))
      PROVE  ComposedTypes' /\ Application!RowsStay /\ composed' # Application!Absent
  <2>1. /\ IsCell(Saved(x)) /\ Saved(x).rows = runner.cell.rows
        /\ Saved(x).portfolios = runner.cell.portfolios
    BY <1>1, StatusCell
  <2>2. SubSeq(Saved(x).rows, 1, Len(runner.cell.rows)) = runner.cell.rows
    BY <1>1, <2>1, SameSeq DEF IsCell
  <2> HIDE DEF Saved
  <2> QED
    BY <1>1, <1>2, <2>1, <2>2, SaveKeeps
<1>3. ASSUME NEW x, Application!Fails(x)
      PROVE  AppInv' /\ Application!RowsStay
  BY <1>1, <1>2, <1>3, ExitKeeps, ResolvedStays DEF Application!Fails, AppInv
<1>4. JournalsTyped' /\ (UNCHANGED lock => LockTypes' /\ Held')
  BY <1>1, ResolvedStays DEF AppInv, LockTypes, Held, Ours
<1>5. CASE Application!LaunchTrial
  <2>1. \/ Application!Fails("interrupted")
        \/ runner' = [runner EXCEPT !.flying = TRUE] /\ UNCHANGED <<lock, composed>>
    BY <1>5 DEF Application!LaunchTrial
  <2>2. CASE runner' = [runner EXCEPT !.flying = TRUE] /\ UNCHANGED <<lock, composed>>
    <3>1. /\ DOMAIN runner' = DOMAIN runner /\ runner'.at = "composed" /\ runner'.next = runner.next
          /\ runner'.cell = runner.cell
      BY <1>1, <2>2
    <3>2. RunnerTypes'
      BY <1>1, <1>4, <2>2, <3>1, SameRows DEF AppInv, RunnerTypes
    <3> QED
      BY <1>4, <2>2, <3>2, SameRows DEF AppInv, ComposedTypes
  <2> QED
    BY <1>3, <2>1, <2>2
<1>6. CASE Application!LandTrial
  <2> DEFINE row == [slot |-> Application!Missing(runner.cell)[1]]
             cell == [runner.cell EXCEPT !.rows = Append(@, row), !.status = "partial"]
  <2>1. \/ \E x : Application!Fails(x)
        \/ /\ ~ Application!Clients /\ Application!Save(cell) /\ UNCHANGED lock
           /\ runner' = [runner EXCEPT !.cell = cell, !.flying = FALSE]
    BY <1>6 DEF Application!LandTrial
  <2>2. CASE /\ ~ Application!Clients /\ Application!Save(cell) /\ UNCHANGED lock
             /\ runner' = [runner EXCEPT !.cell = cell, !.flying = FALSE]
    <3>1. cell = [runner.cell EXCEPT !.status = "partial", !.rows = Append(@, row)]
      BY <2>2
    <3> HIDE DEF row
    <3>2. IsCell(cell) /\ cell.rows = Append(runner.cell.rows, row) /\ cell.portfolios = runner.cell.portfolios
      BY <1>1, <3>1, RowCell DEF IsCell
    <3>3. SubSeq(cell.rows, 1, Len(runner.cell.rows)) = runner.cell.rows
      BY <1>1, <3>2, AppendIsSeq DEF IsCell
    <3> HIDE DEF cell
    <3>4. /\ ComposedTypes' /\ Application!RowsStay /\ composed' # Application!Absent
          /\ runner.next \in DOMAIN Application!Cells' => Application!Cells'[runner.next] = cell
      BY <1>1, <2>2, <3>2, <3>3, SaveKeeps
    <3>5. /\ DOMAIN runner' = DOMAIN runner /\ runner'.at = "composed" /\ runner'.next = runner.next
          /\ runner'.cell = cell
      BY <1>1, <2>2
    <3>6. RunnerTypes'
      BY <1>1, <1>4, <2>2, <3>2, <3>4, <3>5 DEF RunnerTypes
    <3> QED
      BY <1>4, <2>2, <3>4, <3>6 DEF AppInv
  <2> QED
    BY <1>3, <2>1, <2>2
<1>7. CASE Application!CompleteCell
  <2>1. /\ Application!Save(Saved("complete")) /\ UNCHANGED lock
        /\ runner' = [runner EXCEPT !.next = @ + 1, !.cell = Application!Absent]
    BY <1>7 DEF Application!CompleteCell, Application!world
  <2>2. /\ DOMAIN runner' = DOMAIN runner /\ runner'.at = "composed" /\ runner'.next = runner.next + 1
        /\ runner'.cell = Application!Absent
    BY <1>1, <2>1
  <2>3. ComposedTypes' /\ Application!RowsStay /\ composed' # Application!Absent
    BY <1>2, <2>1
  <2>4. RunnerTypes'
    BY <1>1, <1>4, <2>1, <2>2, <2>3 DEF RunnerTypes
  <2> QED
    BY <1>4, <2>1, <2>3, <2>4 DEF AppInv
<1> QED
  BY <1>5, <1>6, <1>7

LEMMA FinishStep ==
    ASSUME AppInv, Application!Finish
    PROVE  AppInv' /\ Application!RowsStay
<1>1. /\ runner.at = "composed" /\ runner.next > Len(Workloads) /\ Application!Exit /\ UNCHANGED <<other, journals>>
      /\ composed' = [composed EXCEPT !.status = "complete"]
  BY DEF Application!Finish, Application!world
<1>2. Len(Workloads) \in Nat \ {0}
  BY StudyAssumption
<1>3. composed # Application!Absent /\ IsJournal(composed) /\ IsSeq(composed.cells)
  BY <1>1, <1>2 DEF AppInv, RunnerTypes, ComposedTypes
<1>4. IsJournal(composed') /\ composed'.cells = composed.cells /\ composed' # Application!Absent
  BY <1>1, <1>3 DEF IsJournal, Application!Absent
<1>5. Application!Cells' = Application!Cells
  BY <1>3, <1>4 DEF Application!Cells
<1>6. Application!RowsStay
  BY <1>5, CellsAre, SameSeq DEF Application!RowsStay, IsCell
<1> QED
  BY <1>1, <1>3, <1>4, <1>6, ExitKeeps, ResolvedStays DEF AppInv, ComposedTypes

LEMMA AppSteps ==
    ASSUME AppInv, Application!Next
    PROVE  AppInv' /\ Application!RowsStay
<1>1. CASE Application!Killed
  <2>1. Application!Exit /\ UNCHANGED <<composed, other, journals>>
    BY <1>1 DEF Application!Killed, Application!world
  <2> QED
    BY <2>1, ExitKeeps, ResolvedStays, SameRows DEF AppInv, ComposedTypes
<1>2. CASE \/ Application!Prepare \/ Application!Report \/ Application!Precompiled
           \/ Application!Stranger \/ Application!InputsChange
           \/ \E s \in Application!Studies : Application!Rewritten(s)
  <2>1. /\ UNCHANGED <<composed, runner, lock, other>>
        /\ UNCHANGED journals \/ \E s \in Application!Studies : Application!Rewritten(s)
    BY <1>2 DEF Application!Prepare, Application!Report, Application!Precompiled, Application!Stranger,
                Application!InputsChange, Application!Rewritten, Application!ours
  <2> QED
    BY <2>1, OthersKeep
<1>3. CASE \E s \in DOMAIN lock :
              Application!OtherStarts(s) \/ Application!OtherTurns(s) \/ Application!OtherResolves(s)
  <2>1. UNCHANGED <<composed, runner>>
    BY <1>3 DEF Application!OtherStarts, Application!OtherTurns, Application!OtherResolves, Application!ours
  <2> QED
    BY <1>3, <2>1, OthersKeep
<1>4. CASE \/ Application!TakeLock \/ Application!Enter \/ Application!GateDone
           \/ \E queued \in BOOLEAN : Application!Execute(queued)
  BY <1>4, LockingSteps
<1>5. CASE \/ Application!LaunchGate \/ Application!LandGate \/ Application!OwnSearch
           \/ Application!OpenCell
  BY <1>5, HoldingSteps
<1>6. CASE \/ Application!LaunchTrial \/ Application!LandTrial \/ Application!CompleteCell
  BY <1>6, SavingSteps
<1>7. CASE Application!Study
  BY <1>1, <1>2, <1>4, <1>5, <1>6, <1>7, FinishStep DEF Application!Study
<1> QED
  BY <1>2, <1>3, <1>7 DEF Application!Next

LEMMA AppStarts ==
    ASSUME Application!Init
    PROVE  AppInv
<1>1. lock = [s \in ToSet(Earlier) |-> "free"] /\ other = [s \in ToSet(Earlier) |-> "none"]
  BY DEF Application!Init, Application!ToSet, ToSet
<1>3. LockTypes
  BY <1>1 DEF LockTypes
<1>4. JournalsTyped
  BY DEF Application!Init, JournalsTyped
<1>2. runner = [at |-> "idle"] /\ composed = Application!Absent
  BY DEF Application!Init, Application!Idle
<1> QED
  BY <1>2, <1>3, <1>4 DEF AppInv, RunnerTypes, ComposedTypes

----------------------------------------------------------------------------
(* The sweep: rows in files, in memory and on their way.                   *)

IsRow(row) == {"text", "index"} \subseteq DOMAIN row

AreRows(s) == IsSeq(s) /\ \A row \in ToSet(s) : IsRow(row)

IsFile(file) == {"present", "rows", "torn"} \subseteq DOMAIN file /\ AreRows(file.rows)

Whole(s) == {row \in ToSet(s) : row.text = "whole"}

SweeperTypes ==
    /\ "stage" \in DOMAIN sweeper
    /\ sweeper.stage # "none" =>
          /\ {"request", "completed", "at", "trial", "records", "fresh"} \subseteq DOMAIN sweeper
          /\ AreRows(sweeper.records) /\ AreRows(sweeper.fresh)
          /\ ToSet(sweeper.fresh) \subseteq ToSet(sweeper.records)
    /\ sweeper.stage = "append" => sweeper.fresh # <<>>
    /\ sweeper.stage \in {"check", "run", "append"} => Whole(partial.rows) \subseteq ToSet(sweeper.records)
    /\ sweeper.stage = "unlink" => Whole(partial.rows) \subseteq ToSet(table.rows)

SweepInv == IsFile(partial) /\ IsFile(table) /\ SweeperTypes

LEMMA AnySeq ==
    ASSUME NEW S, NEW s \in Seq(S)
    PROVE  IsSeq(s) /\ ToSet(s) \subseteq S
<1>1. DOMAIN s = 1 .. Len(s) /\ Len(s) \in Nat /\ s \in [1 .. Len(s) -> S]
  OBVIOUS
<1>2. s \in [1 .. Len(s) -> ToSet(s)] /\ ToSet(s) \subseteq S
  BY <1>1 DEF ToSet
<1>3. s \in Seq(ToSet(s))
  BY <1>1, <1>2
<1> QED
  BY <1>2, <1>3 DEF IsSeq

LEMMA JoinIsSeq ==
    ASSUME NEW a, IsSeq(a), NEW b, IsSeq(b)
    PROVE  IsSeq(a \o b) /\ ToSet(a \o b) = ToSet(a) \cup ToSet(b)
<1> DEFINE T == ToSet(a) \cup ToSet(b)
           c == a \o b
<1>1. a \in Seq(T) /\ b \in Seq(T)
  BY DEF IsSeq
<1>2. /\ Len(a) \in Nat /\ Len(b) \in Nat /\ DOMAIN a = 1 .. Len(a) /\ DOMAIN b = 1 .. Len(b)
      /\ c \in Seq(T) /\ DOMAIN c = 1 .. Len(a) + Len(b)
      /\ \A i \in 1 .. Len(a) + Len(b) : c[i] = IF i <= Len(a) THEN a[i] ELSE b[i - Len(a)]
  BY <1>1
<1> HIDE DEF c
<1>3. IsSeq(c) /\ ToSet(c) \subseteq T
  BY <1>2, AnySeq
<1>4. ToSet(a) \subseteq ToSet(c)
  BY <1>2 DEF ToSet
<1>5. ToSet(b) \subseteq ToSet(c)
  <2>1. SUFFICES ASSUME NEW i \in DOMAIN b
                 PROVE  \E j \in DOMAIN c : c[j] = b[i]
    BY DEF ToSet
  <2>2. i + Len(a) \in DOMAIN c /\ c[i + Len(a)] = b[i]
    BY <1>2
  <2> QED
    BY <2>2
<1> QED
  BY <1>3, <1>4, <1>5 DEF c

LEMMA TailIsSeq ==
    ASSUME NEW s, IsSeq(s), s # <<>>
    PROVE  IsSeq(Tail(s)) /\ ToSet(Tail(s)) \subseteq ToSet(s)
<1>1. Tail(s) \in Seq(ToSet(s))
  BY DEF IsSeq
<1> QED
  BY <1>1, AnySeq

LEMMA FrontIsSeq ==
    ASSUME NEW s, IsSeq(s), NEW k \in 0 .. Len(s)
    PROVE  IsSeq(SubSeq(s, 1, k)) /\ ToSet(SubSeq(s, 1, k)) \subseteq ToSet(s)
<1>1. SubSeq(s, 1, k) \in Seq(ToSet(s))
  BY DEF IsSeq
<1> QED
  BY <1>1, AnySeq

\* What an append keeps and what it adds.
LEMMA AppendedRows ==
    ASSUME NEW file, IsFile(file), NEW rows, AreRows(rows), rows # <<>>
    PROVE  /\ IsFile(Sweep!Appended(file, rows))
           /\ Whole(file.rows) \subseteq Whole(Sweep!Appended(file, rows).rows)
           /\ Whole(Sweep!Appended(file, rows).rows) \subseteq Whole(file.rows) \cup ToSet(rows)
<1> DEFINE n == Len(file.rows)
           next == Sweep!Appended(file, rows)
<1>1. CASE n > 0 /\ file.rows[n].text = "cut"
  <2> DEFINE old == [file.rows EXCEPT ![n].text = "long"]
  <2>1. next = [file EXCEPT !.rows = old \o Tail(rows)]
    BY <1>1 DEF Sweep!Appended, IsFile
  <2>2. /\ IsSeq(file.rows) /\ n \in Nat /\ DOMAIN file.rows = 1 .. n /\ n \in DOMAIN file.rows
        /\ IsRow(file.rows[n])
    BY <1>1, SameSeq DEF IsFile, AreRows, ToSet
  <2>3. IsSeq(old) /\ DOMAIN old = DOMAIN file.rows
    BY <2>2, ExceptSequence
  <2>4. /\ \A i \in DOMAIN old : i # n => old[i] = file.rows[i]
        /\ old[n] = [file.rows[n] EXCEPT !.text = "long"]
    BY <2>2
  <2>5. IsRow(old[n]) /\ old[n].text = "long"
    BY <2>2, <2>4 DEF IsRow
  <2> HIDE DEF old
  <2>6. \A row \in ToSet(old) : IsRow(row)
    BY <2>2, <2>3, <2>4, <2>5 DEF IsFile, AreRows, ToSet
  <2>10. Whole(old) = Whole(file.rows)
    <3>1. /\ \A i \in DOMAIN old : old[i].text = "whole" => i # n
          /\ \A i \in DOMAIN old : file.rows[i].text = "whole" => i # n
      BY <1>1, <2>5
    <3> QED
      BY <2>3, <2>4, <3>1 DEF Whole, ToSet
  <2>7. next.rows = old \o Tail(rows) /\ {"present", "rows", "torn"} \subseteq DOMAIN next
    BY <2>1 DEF IsFile
  <2> HIDE DEF next
  <2>8. IsSeq(next.rows) /\ ToSet(next.rows) = ToSet(old) \cup ToSet(Tail(rows))
        /\ ToSet(Tail(rows)) \subseteq ToSet(rows)
    BY <2>3, <2>7, JoinIsSeq, TailIsSeq DEF AreRows
  <2>9. IsFile(next)
    BY <2>6, <2>7, <2>8 DEF IsFile, AreRows
  <2> QED
    BY <2>8, <2>9, <2>10 DEF Whole, next
<1>2. CASE ~ (n > 0 /\ file.rows[n].text = "cut")
  <2>1. next = [file EXCEPT !.present = TRUE, !.rows = file.rows \o rows]
    BY <1>2 DEF Sweep!Appended, IsFile
  <2>2. next.rows = file.rows \o rows /\ {"present", "rows", "torn"} \subseteq DOMAIN next
    BY <2>1 DEF IsFile
  <2> HIDE DEF next
  <2>3. IsSeq(next.rows) /\ ToSet(next.rows) = ToSet(file.rows) \cup ToSet(rows)
    BY <2>2, JoinIsSeq DEF IsFile, AreRows
  <2>4. IsFile(next)
    BY <2>2, <2>3 DEF IsFile, AreRows
  <2> QED
    BY <2>3, <2>4 DEF Whole, next
<1> QED
  BY <1>1, <1>2

LEMMA PieceRows ==
    ASSUME NEW rows, AreRows(rows), NEW k \in 0 .. Len(rows) - 1, NEW piece \in Sweep!Pieces(rows, k)
    PROVE  AreRows(piece)
<1> DEFINE front == SubSeq(rows, 1, k)
           cut(i) == [rows[k + 1] EXCEPT !.text = "cut", !.index = i]
<1>1. /\ Len(rows) \in Nat /\ k \in 0 .. Len(rows) /\ k + 1 \in DOMAIN rows
  BY SameSeq DEF AreRows
<1>2. AreRows(front)
  BY <1>1, FrontIsSeq DEF AreRows
<1>3. IsRow(rows[k + 1])
  BY <1>1 DEF AreRows, ToSet
<1>4. ASSUME NEW i
      PROVE  IsRow(cut(i))
  <2>1. DOMAIN cut(i) = DOMAIN rows[k + 1]
    BY <1>3 DEF IsRow
  <2> QED
    BY <1>3, <2>1 DEF IsRow
<1>5. piece = front \/ piece = Append(front, cut(0)) \/ piece = Append(front, cut(rows[k + 1].index))
  BY DEF Sweep!Pieces
<1> HIDE DEF front, cut
<1>6. ASSUME NEW i
      PROVE  AreRows(Append(front, cut(i)))
  BY <1>2, <1>4, AppendIsSeq DEF AreRows
<1> QED
  BY <1>2, <1>5, <1>6

LEMMA SweepSame ==
    ASSUME SweepInv, UNCHANGED partial
    PROVE  Sweep!RowsKept
  BY DEF Sweep!RowsKept

LEMMA RestingKeeps ==
    ASSUME SweepInv, UNCHANGED <<partial, table>>, sweeper' = Sweep!Resting
    PROVE  SweepInv' /\ Sweep!RowsKept
<1>1. SweeperTypes'
  BY DEF SweeperTypes, Sweep!Resting
<1> QED
  BY <1>1, SweepSame DEF SweepInv

LEMMA BeginStep ==
    ASSUME SweepInv, NEW request, NEW resume, Sweep!Begin(request, resume)
    PROVE  SweepInv' /\ Sweep!RowsKept
<1>1. /\ UNCHANGED <<partial, table>>
      /\ {"stage", "request", "completed", "at", "trial", "records", "fresh"} = DOMAIN sweeper'
      /\ sweeper'.stage = "check" /\ sweeper'.records = partial.rows /\ sweeper'.fresh = <<>>
  BY DEF Sweep!Begin
<1>2. AreRows(<<>>) /\ ToSet(<<>>) = {}
  BY EmptyIsSeq DEF AreRows
<1>3. SweeperTypes'
  BY <1>1, <1>2 DEF SweepInv, IsFile, SweeperTypes, Whole
<1> QED
  BY <1>1, <1>3, SweepSame DEF SweepInv

LEMMA MeasureStep ==
    ASSUME SweepInv, Sweep!Measure
    PROVE  SweepInv' /\ Sweep!RowsKept
<1>1. /\ UNCHANGED <<partial, table>> /\ sweeper.stage = "check"
      /\ sweeper' = [sweeper EXCEPT !.stage = "run"]
  BY DEF Sweep!Measure, Sweep!Measuring
<1>2. /\ DOMAIN sweeper' = DOMAIN sweeper /\ sweeper'.stage = "run"
      /\ sweeper'.records = sweeper.records /\ sweeper'.fresh = sweeper.fresh
  BY <1>1 DEF SweepInv, SweeperTypes
<1>3. SweeperTypes'
  BY <1>1, <1>2 DEF SweepInv, SweeperTypes
<1> QED
  BY <1>1, <1>3, SweepSame DEF SweepInv

LEMMA LandStep ==
    ASSUME SweepInv, Sweep!Land
    PROVE  SweepInv' /\ Sweep!RowsKept
<1> DEFINE row == Sweep!RowNow
<1>1. /\ UNCHANGED <<partial, table>> /\ sweeper.stage = "run"
      /\ \E x \in {"append", "check"} :
            sweeper' = [sweeper EXCEPT !.records = Append(@, row), !.fresh = Append(@, row),
                                       !.trial = @ + 1, !.stage = x]
  BY DEF Sweep!Land
<1>2. IsRow(row)
  BY DEF IsRow, Sweep!RowNow
<1> HIDE DEF row
<1>3. /\ DOMAIN sweeper' = DOMAIN sweeper /\ sweeper'.stage \in {"append", "check"}
      /\ sweeper'.records = Append(sweeper.records, row) /\ sweeper'.fresh = Append(sweeper.fresh, row)
  BY <1>1 DEF SweepInv, SweeperTypes
<1>4. /\ AreRows(sweeper.records) /\ AreRows(sweeper.fresh)
      /\ ToSet(sweeper.fresh) \subseteq ToSet(sweeper.records)
      /\ Whole(partial.rows) \subseteq ToSet(sweeper.records)
  BY <1>1 DEF SweepInv, SweeperTypes
<1>5. /\ AreRows(sweeper'.records) /\ AreRows(sweeper'.fresh) /\ sweeper'.fresh # <<>>
      /\ ToSet(sweeper'.fresh) \subseteq ToSet(sweeper'.records)
      /\ Whole(partial.rows) \subseteq ToSet(sweeper'.records)
  <2>1. /\ IsSeq(sweeper'.records) /\ ToSet(sweeper'.records) = ToSet(sweeper.records) \cup {row}
        /\ IsSeq(sweeper'.fresh) /\ ToSet(sweeper'.fresh) = ToSet(sweeper.fresh) \cup {row}
    BY <1>3, <1>4, AppendIsSeq DEF AreRows
  <2>2. sweeper'.fresh # <<>>
    BY <2>1 DEF ToSet
  <2> QED
    BY <1>2, <1>4, <2>1, <2>2 DEF AreRows
<1>6. SweeperTypes'
  BY <1>1, <1>3, <1>5 DEF SweepInv, SweeperTypes
<1> QED
  BY <1>1, <1>6, SweepSame DEF SweepInv

LEMMA CheckpointStep ==
    ASSUME SweepInv, Sweep!Checkpoint
    PROVE  SweepInv' /\ Sweep!RowsKept
<1>1. /\ sweeper.stage = "append" /\ partial' = Sweep!Appended(partial, sweeper.fresh)
      /\ UNCHANGED table /\ sweeper' = Sweep!Advanced
  BY DEF Sweep!Checkpoint
<1>2. /\ AreRows(sweeper.records) /\ AreRows(sweeper.fresh) /\ sweeper.fresh # <<>> /\ IsFile(partial)
      /\ ToSet(sweeper.fresh) \subseteq ToSet(sweeper.records)
      /\ Whole(partial.rows) \subseteq ToSet(sweeper.records)
  BY <1>1 DEF SweepInv, SweeperTypes
<1>3. /\ IsFile(partial') /\ Whole(partial.rows) \subseteq Whole(partial'.rows)
      /\ Whole(partial'.rows) \subseteq ToSet(sweeper.records)
  BY <1>1, <1>2, AppendedRows
<1>4. /\ DOMAIN sweeper' = DOMAIN sweeper /\ sweeper'.stage = "check"
      /\ sweeper'.records = sweeper.records /\ sweeper'.fresh = <<>>
  BY <1>1 DEF Sweep!Advanced, SweepInv, SweeperTypes
<1>5. AreRows(<<>>) /\ ToSet(<<>>) = {}
  BY EmptyIsSeq DEF AreRows
<1>6. SweeperTypes'
  BY <1>1, <1>2, <1>3, <1>4, <1>5 DEF SweepInv, SweeperTypes
<1>7. Sweep!RowsKept
  BY <1>3 DEF Sweep!RowsKept, Whole, ToSet
<1> QED
  BY <1>1, <1>3, <1>6, <1>7 DEF SweepInv

LEMMA OutputSteps ==
    ASSUME SweepInv, Sweep!Write \/ Sweep!Unlink
    PROVE  SweepInv' /\ Sweep!RowsKept
<1>1. CASE Sweep!Write
  <2>1. /\ sweeper.stage = "check" /\ UNCHANGED partial /\ sweeper' = [sweeper EXCEPT !.stage = "unlink"]
        /\ table'.rows = sweeper.records /\ {"present", "rows", "torn"} \subseteq DOMAIN table'
    BY <1>1 DEF Sweep!Write
  <2>2. /\ DOMAIN sweeper' = DOMAIN sweeper /\ sweeper'.stage = "unlink"
        /\ sweeper'.records = sweeper.records /\ sweeper'.fresh = sweeper.fresh
    BY <2>1 DEF SweepInv, SweeperTypes
  <2>3. IsFile(table')
    BY <2>1 DEF SweepInv, SweeperTypes, IsFile
  <2>4. SweeperTypes'
    BY <2>1, <2>2 DEF SweepInv, SweeperTypes
  <2> QED
    BY <2>1, <2>3, <2>4, SweepSame DEF SweepInv
<1>2. CASE Sweep!Unlink
  <2>1. sweeper.stage = "unlink" /\ partial' = Sweep!NoFile /\ UNCHANGED table /\ sweeper' = Sweep!Resting
    BY <1>2 DEF Sweep!Unlink
  <2>2. IsFile(partial')
    BY <2>1, EmptyIsSeq DEF Sweep!NoFile, IsFile, AreRows
  <2>3. SweeperTypes'
    BY <2>1 DEF SweeperTypes, Sweep!Resting
  <2>4. Whole(partial.rows) \subseteq ToSet(table'.rows)
    BY <2>1 DEF SweepInv, SweeperTypes
  <2>5. Sweep!RowsKept
    BY <2>4 DEF Sweep!RowsKept, Whole, ToSet
  <2> QED
    BY <2>1, <2>2, <2>3, <2>5 DEF SweepInv
<1> QED
  BY <1>1, <1>2

LEMMA KilledAppendingStep ==
    ASSUME SweepInv, Sweep!KilledAppending
    PROVE  SweepInv' /\ Sweep!RowsKept
<1>1. sweeper.stage = "append" /\ UNCHANGED table /\ sweeper' = Sweep!Resting
  BY DEF Sweep!KilledAppending
<1>0. PICK k \in 0 .. Len(sweeper.fresh) - 1 : \E piece \in Sweep!Pieces(sweeper.fresh, k) :
          piece # <<>> /\ partial' = [Sweep!Appended(partial, piece) EXCEPT !.torn = TRUE]
  BY DEF Sweep!KilledAppending
<1>2. PICK piece \in Sweep!Pieces(sweeper.fresh, k) :
          piece # <<>> /\ partial' = [Sweep!Appended(partial, piece) EXCEPT !.torn = TRUE]
  BY <1>0
<1>3. AreRows(sweeper.fresh) /\ IsFile(partial)
  BY <1>1 DEF SweepInv, SweeperTypes
<1>4. AreRows(piece)
  BY <1>3, PieceRows
<1> DEFINE next == Sweep!Appended(partial, piece)
<1>5. IsFile(next) /\ Whole(partial.rows) \subseteq Whole(next.rows)
  BY <1>2, <1>3, <1>4, AppendedRows
<1> HIDE DEF next
<1>6. partial' = [next EXCEPT !.torn = TRUE]
  BY <1>2 DEF next
<1>7. IsFile(partial') /\ partial'.rows = next.rows
  BY <1>5, <1>6 DEF IsFile
<1>8. SweeperTypes'
  BY <1>1 DEF SweeperTypes, Sweep!Resting
<1>9. Sweep!RowsKept
  BY <1>5, <1>7 DEF Sweep!RowsKept, Whole, ToSet
<1> QED
  BY <1>1, <1>7, <1>8, <1>9 DEF SweepInv

LEMMA SweepSteps ==
    ASSUME SweepInv, Sweep!Next
    PROVE  SweepInv' /\ Sweep!RowsKept
<1>1. CASE Sweep!Raises \/ Sweep!Ends
  BY <1>1, RestingKeeps DEF Sweep!Raises, Sweep!Ends
<1>2. CASE Sweep!Arrives \/ Sweep!Leaves \/ Sweep!Rebuild
  <2>1. UNCHANGED <<partial, table, sweeper>>
    BY <1>2 DEF Sweep!Arrives, Sweep!Leaves, Sweep!Rebuild
  <2> QED
    BY <2>1, SweepSame DEF SweepInv, SweeperTypes
<1>3. CASE \E request \in Requests, resume \in BOOLEAN : Sweep!Begin(request, resume)
  BY <1>3, BeginStep
<1> QED
  BY <1>1, <1>2, <1>3, MeasureStep, LandStep, CheckpointStep, OutputSteps, KilledAppendingStep DEF Sweep!Next

LEMMA SweepStarts ==
    ASSUME Sweep!Init
    PROVE  SweepInv
  BY EmptyIsSeq DEF Sweep!Init, Sweep!NoFile, Sweep!Resting, SweepInv, IsFile, AreRows, SweeperTypes

----------------------------------------------------------------------------
(* The controlled experiment: the document in memory, the journal on disk, *)
(* and how far the call has come.                                          *)

AllRan(s, rows) == \A t \in 0 .. s.trials - 1 : Controlled!Recorded(rows, t)

IsCase(s, c, case) ==
    /\ {"preflight", "trials", "comparisons", "status"} \subseteq DOMAIN case
    /\ DOMAIN case.preflight = DOMAIN s.cases[c].variants
    /\ DOMAIN case.trials = DOMAIN s.cases[c].variants
    /\ \A v \in DOMAIN case.trials :
          /\ IsSeq(case.trials[v])
          /\ \A i, j \in DOMAIN case.trials[v] : case.trials[v][i].trial = case.trials[v][j].trial => i = j
    /\ DOMAIN case.comparisons = DOMAIN s.cases[c].comparisons
    /\ \A k \in DOMAIN case.comparisons : case.comparisons[k].status = "measured" =>
          LET comparison == s.cases[c].comparisons[k]
          IN  /\ case.comparisons[k] = Controlled!ComparisonResult(case, comparison)
              /\ AllRan(s, case.trials[comparison.baseline]) /\ AllRan(s, case.trials[comparison.treatment])

IsDocument(d) ==
    /\ {"status", "study", "identity", "cases"} \subseteq DOMAIN d
    /\ d.study \in Experiments /\ Controlled!ValidStudy(d.study)
    /\ DOMAIN d.cases = DOMAIN d.study.cases
    /\ \A c \in DOMAIN d.cases : IsCase(d.study, c, d.cases[c])

IsPlace(s, at) ==
    /\ DOMAIN at = {"step", "case", "trial", "turn"}
    /\ at.step \in {"preflight", "measure", "evaluate", "finish"}
    /\ at.case \in DOMAIN s.cases /\ at.trial \in 0 .. s.trials - 1
    /\ at.turn \in 1 .. Len(s.cases[at.case].order)
    /\ at.step = "preflight" => at.trial = 0

\* What earlier steps of this call have done to the case they were about.
Ready(case, v) == case.preflight[v].status # "none"
Ran(case, v, t) == case.preflight[v].status = "accepted" => Controlled!Recorded(case.trials[v], t)
Nth(s, at, k) == Controlled!Turn(s, [at EXCEPT !.turn = k])

Reached(s, case, at) ==
    /\ at.step = "preflight" => \A k \in 1 .. at.turn - 1 : Ready(case, s.cases[at.case].order[k])
    /\ at.step \in {"measure", "evaluate"} => \A v \in DOMAIN case.preflight : Ready(case, v)
    /\ at.step = "measure" =>
          /\ \A t \in 0 .. at.trial - 1, v \in DOMAIN case.preflight : Ran(case, v, t)
          /\ \A k \in 1 .. at.turn - 1 : Ran(case, Nth(s, at, k), at.trial)
    /\ at.step = "evaluate" =>
          \A t \in 0 .. s.trials - 1, v \in DOMAIN case.preflight : Ran(case, v, t)

\* The effect of the step at this place.
Effect(s, case, at) ==
    /\ at.step = "preflight" => Ready(case, s.cases[at.case].order[at.turn])
    /\ at.step = "measure" => Ran(case, Nth(s, at, at.turn), at.trial)

KeptCase(before, after) ==
    \A v \in DOMAIN before.preflight :
        /\ before.preflight[v].status # "none" => after.preflight[v] = before.preflight[v]
        /\ SubSeq(after.trials[v], 1, Len(before.trials[v])) = before.trials[v]
        /\ \A i, j \in DOMAIN after.trials[v] : after.trials[v][i].trial = after.trials[v][j].trial => i = j
        /\ \A k \in DOMAIN before.comparisons : before.comparisons[k].status = "measured" =>
              after.comparisons[k] = before.comparisons[k]

Kept(before, after) == \A c \in DOMAIN before.cases : KeptCase(before.cases[c], after.cases[c])

JournalTypes ==
    /\ journal.status = "absent" => journal = Controlled!Absent
    /\ journal.status # "absent" => IsDocument(journal)
    /\ journal.status = "prepared" => journal = Controlled!PreparedDocument(journal.study)

DriverTypes ==
    LET d == driver.document at == driver.at
    IN  /\ {"at", "dirty", "document"} \subseteq DOMAIN driver
        /\ at.step = "none" => ~ driver.dirty
        /\ at.step # "none" =>
              /\ IsDocument(d) /\ d.status \notin {"absent", "prepared"} /\ IsPlace(d.study, at)
              /\ ~ driver.dirty => journal = d /\ Reached(d.study, d.cases[at.case], at)
              /\ driver.dirty =>
                    /\ Kept(journal, d)
                    /\ at.step # "finish" =>
                          /\ Reached(d.study, d.cases[at.case], at)
                          /\ Effect(d.study, d.cases[at.case], at)

ControlledInv == study \in Experiments /\ JournalTypes /\ DriverTypes

LEMMA StudyIs ==
    ASSUME NEW s \in Experiments, Controlled!ValidStudy(s)
    PROVE  /\ s.trials \in Nat \ {0} /\ s.cases \in Seq(ToSet(s.cases)) /\ Len(s.cases) \in Nat \ {0}
           /\ DOMAIN s.cases = 1 .. Len(s.cases)
           /\ \A c \in DOMAIN s.cases :
                 LET ids == s.cases[c].order
                 IN  /\ Len(ids) \in Nat \ {0} /\ DOMAIN ids = 1 .. Len(ids)
                     /\ \A k \in 1 .. Len(ids) : ids[k] \in DOMAIN s.cases[c].variants
                     /\ \A v \in DOMAIN s.cases[c].variants : \E k \in 1 .. Len(ids) : ids[k] = v
                     /\ \A k \in DOMAIN s.cases[c].comparisons :
                           /\ s.cases[c].comparisons[k].baseline \in DOMAIN s.cases[c].variants
                           /\ s.cases[c].comparisons[k].treatment \in DOMAIN s.cases[c].variants
<1>1. s.trials \in Nat \ {0} /\ s.cases \in Seq(ToSet(s.cases)) /\ s.cases # <<>>
  BY StudyAssumption DEF Controlled!ValidStudy
<1>2. Len(s.cases) \in Nat \ {0} /\ DOMAIN s.cases = 1 .. Len(s.cases)
  BY <1>1
<1>3. ASSUME NEW c \in DOMAIN s.cases
      PROVE  LET ids == s.cases[c].order
             IN  /\ Len(ids) \in Nat \ {0} /\ DOMAIN ids = 1 .. Len(ids)
                 /\ \A k \in 1 .. Len(ids) : ids[k] \in DOMAIN s.cases[c].variants
                 /\ \A v \in DOMAIN s.cases[c].variants : \E k \in 1 .. Len(ids) : ids[k] = v
                 /\ \A k \in DOMAIN s.cases[c].comparisons :
                       /\ s.cases[c].comparisons[k].baseline \in DOMAIN s.cases[c].variants
                       /\ s.cases[c].comparisons[k].treatment \in DOMAIN s.cases[c].variants
  <2> DEFINE case == s.cases[c]
             ids == case.order
             listed == case.comparisons
  <2>1. case \in ToSet(s.cases)
    BY DEF ToSet
  <2>2. /\ ids \in Seq(DOMAIN case.variants) /\ ToSet(ids) = DOMAIN case.variants
        /\ listed \in Seq(ToSet(listed))
    BY <2>1, StudyAssumption
  <2>3. /\ listed # <<>>
        /\ \A k \in DOMAIN listed : {listed[k].baseline, listed[k].treatment} \subseteq DOMAIN case.variants
    BY DEF Controlled!ValidStudy, Controlled!ValidComparison
  <2> HIDE DEF case, ids, listed
  <2>4. 1 \in DOMAIN listed
    BY <2>2, <2>3
  <2>5. DOMAIN ids = 1 .. Len(ids) /\ Len(ids) \in Nat
    BY <2>2
  <2>6. \A v \in DOMAIN case.variants : \E k \in 1 .. Len(ids) : ids[k] = v
    BY <2>2, <2>5 DEF ToSet
  <2>7. Len(ids) # 0
    BY <2>3, <2>4, <2>5, <2>6
  <2>8. \A k \in 1 .. Len(ids) : ids[k] \in DOMAIN case.variants
    BY <2>2, <2>5
  <2> QED
    BY <2>3, <2>5, <2>6, <2>7, <2>8 DEF case, ids, listed
<1> QED
  BY <1>1, <1>2, <1>3

\* A call comes from one place to the next with what it did behind it.
LEMMA Advances ==
    ASSUME NEW s \in Experiments, Controlled!ValidStudy(s), NEW at, IsPlace(s, at), at.step # "finish",
           NEW case, DOMAIN case.preflight = DOMAIN s.cases[at.case].variants,
           Reached(s, case, at), Effect(s, case, at)
    PROVE  LET next == Controlled!Following(s, at)
           IN  /\ IsPlace(s, next)
               /\ next.case = at.case => Reached(s, case, next)
               /\ next.case # at.case => next.step = "preflight" /\ next.turn = 1
<1> DEFINE next == Controlled!Following(s, at)
           ids == s.cases[at.case].order
           count == Len(ids)
<1>1. /\ s.trials \in Nat \ {0} /\ Len(s.cases) \in Nat \ {0} /\ DOMAIN s.cases = 1 .. Len(s.cases)
      /\ count \in Nat \ {0} /\ DOMAIN ids = 1 .. count
      /\ \A v \in DOMAIN case.preflight : \E k \in 1 .. count : ids[k] = v
  BY StudyIs DEF IsPlace
<1>2. at.turn \in 1 .. count /\ at.trial \in 0 .. s.trials - 1 /\ at.case \in 1 .. Len(s.cases)
  BY <1>1 DEF IsPlace
<1>3. \A k, t : [at EXCEPT !.turn = k].case = at.case /\ [at EXCEPT !.turn = k].trial = at.trial
                /\ [at EXCEPT !.turn = k].turn = k
  BY DEF IsPlace
<1>4. \A k : Nth(s, at, k) = IF at.trial % 2 = 1 THEN ids[count + 1 - k] ELSE ids[k]
  BY <1>3 DEF Nth, Controlled!Turn
<1>5. \A v \in DOMAIN case.preflight : \E k \in 1 .. count : Nth(s, at, k) = v
  <2>1. TAKE v \in DOMAIN case.preflight
  <2>2. PICK k \in 1 .. count : ids[k] = v
    BY <1>1
  <2>3. count + 1 - k \in 1 .. count /\ count + 1 - (count + 1 - k) = k
    BY <1>1
  <2> QED
    BY <1>4, <2>2, <2>3
<1>6. CASE at.step \in {"preflight", "measure"} /\ at.turn < count
  <2>1. next = [at EXCEPT !.turn = at.turn + 1]
    BY <1>6 DEF Controlled!Following
  <2>2. /\ DOMAIN next = DOMAIN at /\ next.step = at.step /\ next.case = at.case /\ next.trial = at.trial
        /\ next.turn = at.turn + 1
    BY <2>1 DEF IsPlace
  <2> HIDE DEF next
  <2>3. IsPlace(s, next)
    BY <1>1, <1>2, <1>6, <2>2 DEF IsPlace
  <2>4. \A k : Nth(s, next, k) = Nth(s, at, k)
    <3>1. \A k : /\ [next EXCEPT !.turn = k].case = next.case /\ [next EXCEPT !.turn = k].trial = next.trial
                 /\ [next EXCEPT !.turn = k].turn = k
      BY <2>2 DEF IsPlace
    <3> QED
      BY <1>4, <2>2, <3>1 DEF Nth, Controlled!Turn
  <2>5. \A k \in 1 .. next.turn - 1 : k \in 1 .. at.turn - 1 \/ k = at.turn
    BY <1>2, <2>2
  <2>6. Reached(s, case, next)
    BY <1>6, <2>2, <2>4, <2>5 DEF Reached, Effect
  <2> QED
    BY <2>2, <2>3, <2>6 DEF next
<1>7. \A k \in 1 .. count : at.turn = count => k \in 1 .. at.turn - 1 \/ k = at.turn
  BY <1>1, <1>2
<1>8. CASE at.step = "preflight" /\ at.turn = count
  <2>1. next = [at EXCEPT !.step = "measure", !.turn = 1]
    BY <1>1, <1>8 DEF Controlled!Following
  <2>2. /\ DOMAIN next = DOMAIN at /\ next.step = "measure" /\ next.case = at.case /\ next.trial = 0
        /\ next.turn = 1
    BY <1>8, <2>1 DEF IsPlace
  <2> HIDE DEF next
  <2>3. IsPlace(s, next)
    BY <1>1, <1>2, <2>2 DEF IsPlace
  <2>4. \A v \in DOMAIN case.preflight : Ready(case, v)
    BY <1>1, <1>7, <1>8 DEF Reached, Effect
  <2>5. Reached(s, case, next)
    BY <2>2, <2>4 DEF Reached
  <2> QED
    BY <2>2, <2>3, <2>5 DEF next
<1>9. CASE at.step = "measure" /\ at.turn = count
  <2>1. \A v \in DOMAIN case.preflight : Ready(case, v)
    BY <1>9 DEF Reached
  <2>2. \A t \in 0 .. at.trial, v \in DOMAIN case.preflight : Ran(case, v, t)
    <3>1. TAKE t \in 0 .. at.trial, v \in DOMAIN case.preflight
    <3>2. CASE t = at.trial
      <4>1. PICK k \in 1 .. count : Nth(s, at, k) = v
        BY <1>5
      <4> QED
        BY <1>7, <1>9, <3>2, <4>1 DEF Reached, Effect
    <3>3. CASE t # at.trial
      BY <1>2, <1>9, <3>3 DEF Reached
    <3> QED
      BY <3>2, <3>3
  <2>3. CASE at.trial + 1 < s.trials
    <3>1. next = [at EXCEPT !.trial = at.trial + 1, !.turn = 1]
      BY <1>1, <1>9, <2>3 DEF Controlled!Following
    <3>2. /\ DOMAIN next = DOMAIN at /\ next.step = "measure" /\ next.case = at.case
          /\ next.trial = at.trial + 1 /\ next.turn = 1
      BY <1>9, <3>1 DEF IsPlace
    <3> HIDE DEF next
    <3>3. IsPlace(s, next)
      BY <1>1, <1>2, <2>3, <3>2 DEF IsPlace
    <3>4. Reached(s, case, next)
      BY <1>2, <2>1, <2>2, <3>2 DEF Reached
    <3> QED
      BY <3>2, <3>3, <3>4 DEF next
  <2>4. CASE ~ (at.trial + 1 < s.trials)
    <3>1. next = [at EXCEPT !.step = "evaluate"]
      BY <1>1, <1>9, <2>4 DEF Controlled!Following
    <3>2. /\ DOMAIN next = DOMAIN at /\ next.step = "evaluate" /\ next.case = at.case
          /\ next.trial = at.trial /\ next.turn = at.turn
      BY <1>9, <3>1 DEF IsPlace
    <3> HIDE DEF next
    <3>3. IsPlace(s, next)
      BY <1>1, <1>2, <3>2 DEF IsPlace
    <3>4. \A t \in 0 .. s.trials - 1 : t \in 0 .. at.trial
      BY <1>1, <1>2, <2>4
    <3>5. Reached(s, case, next)
      BY <2>1, <2>2, <3>2, <3>4 DEF Reached
    <3> QED
      BY <3>2, <3>3, <3>5 DEF next
  <2> QED
    BY <2>3, <2>4
<1>10. CASE at.step = "evaluate" /\ at.case < Len(s.cases)
  <2>1. next = [step |-> "preflight", case |-> at.case + 1, trial |-> 0, turn |-> 1]
    BY <1>10 DEF Controlled!Following, Controlled!First
  <2>2. next.case \in DOMAIN s.cases /\ next.case # at.case
    BY <1>1, <1>2, <1>10, <2>1
  <2>3. Len(s.cases[next.case].order) \in Nat \ {0}
    BY <2>2, StudyIs
  <2>4. IsPlace(s, next)
    BY <1>1, <2>1, <2>2, <2>3 DEF IsPlace
  <2> QED
    BY <2>1, <2>2, <2>4
<1>11. CASE at.step = "evaluate" /\ ~ (at.case < Len(s.cases))
  <2>1. next = [at EXCEPT !.step = "finish"]
    BY <1>11 DEF Controlled!Following
  <2>2. /\ DOMAIN next = DOMAIN at /\ next.step = "finish" /\ next.case = at.case
        /\ next.trial = at.trial /\ next.turn = at.turn
    BY <1>11, <2>1 DEF IsPlace
  <2> HIDE DEF next
  <2>3. IsPlace(s, next)
    BY <1>1, <1>2, <2>2 DEF IsPlace
  <2>4. Reached(s, case, next)
    BY <2>2 DEF Reached
  <2> QED
    BY <2>2, <2>3, <2>4 DEF next
<1>12. at.step \in {"preflight", "measure", "evaluate"} /\ (at.turn < count \/ at.turn = count)
  BY <1>1, <1>2 DEF IsPlace
<1> HIDE DEF next, count
<1> QED
  BY <1>6, <1>8, <1>9, <1>10, <1>11, <1>12

LEMMA SameCase ==
    ASSUME NEW s, NEW c, NEW case, IsCase(s, c, case)
    PROVE  KeptCase(case, case)
  BY SameSeq DEF IsCase, KeptCase

LEMMA SameDocument ==
    ASSUME NEW d, IsDocument(d)
    PROVE  Kept(d, d)
  BY SameCase DEF IsDocument, Kept

LEMMA JournalSame ==
    ASSUME ControlledInv, UNCHANGED journal
    PROVE  Controlled!JournalStays
<1>1. Kept(journal, journal)
  BY SameDocument DEF ControlledInv, JournalTypes, Kept, Controlled!Absent
<1> QED
  BY <1>1 DEF Kept, KeptCase, Controlled!JournalStays

LEMMA PreparedIs ==
    ASSUME NEW s \in Experiments, Controlled!ValidStudy(s)
    PROVE  IsDocument(Controlled!PreparedDocument(s))
<1> DEFINE d == Controlled!PreparedDocument(s)
<1>1. {"status", "study", "identity", "cases"} \subseteq DOMAIN d /\ d.study = s /\ DOMAIN d.cases = DOMAIN s.cases
  BY DEF Controlled!PreparedDocument
<1>2. ASSUME NEW c \in DOMAIN s.cases
      PROVE  IsCase(s, c, d.cases[c])
  <2> DEFINE variants == s.cases[c].variants
             comparisons == s.cases[c].comparisons
  <2>1. d.cases[c] = [preflight |-> [v \in DOMAIN variants |-> Controlled!NoPreflight],
                      trials |-> [v \in DOMAIN variants |-> <<>>],
                      comparisons |-> [k \in DOMAIN comparisons |-> Controlled!Blocked],
                      status |-> "pending"]
    BY DEF Controlled!PreparedDocument
  <2> HIDE DEF d
  <2>2. Controlled!Blocked.status # "measured"
    BY DEF Controlled!Blocked
  <2> QED
    BY <2>1, <2>2, EmptyIsSeq DEF IsCase
<1> HIDE DEF d
<1> QED
  BY <1>1, <1>2 DEF IsDocument, d

\* The status and the identity of a document say nothing of its cases.
LEMMA Relabelled ==
    ASSUME NEW d, IsDocument(d), NEW e, DOMAIN e = DOMAIN d, e.study = d.study, e.cases = d.cases
    PROVE  IsDocument(e)
  BY DEF IsDocument

LEMMA CalledSteps ==
    ASSUME ControlledInv, NEW resume \in BOOLEAN, Controlled!Prepare(resume) \/ \E gpu \in Gpus : Controlled!Start(resume, gpu)
    PROVE  ControlledInv' /\ Controlled!JournalStays
<1>1. UNCHANGED study /\ study \in Experiments /\ Controlled!ValidStudy(study) /\ driver.at.step = "none"
  <2>1. CASE Controlled!Prepare(resume)
    BY <2>1 DEF ControlledInv, Controlled!Prepare, Controlled!Called
  <2>2. CASE \E gpu \in Gpus : Controlled!Start(resume, gpu)
    <3>1. PICK gpu \in Gpus : Controlled!Start(resume, gpu)
      BY <2>2
    <3>2. UNCHANGED study /\ Controlled!ValidStudy(study) /\ driver.at.step = "none"
      BY <3>1 DEF Controlled!Start, Controlled!Called
    <3> QED
      BY <3>2 DEF ControlledInv
  <2> QED
    BY <2>1, <2>2
<1> DEFINE fresh == Controlled!PreparedDocument(study)
<1>2. IsDocument(fresh) /\ fresh.study = study /\ fresh.status = "prepared"
  BY <1>1, PreparedIs DEF Controlled!PreparedDocument
<1>3. ASSUME NEW d, d.cases = journal.cases, UNCHANGED <<>>, journal' = d
      PROVE  Controlled!JournalStays
  <2>1. Kept(journal, journal)
    BY SameDocument DEF ControlledInv, JournalTypes, Kept, Controlled!Absent
  <2> QED
    BY <1>3, <2>1 DEF Kept, KeptCase, Controlled!JournalStays
<1>4. journal.status = "absent" => Controlled!JournalStays
  BY DEF ControlledInv, JournalTypes, Controlled!Absent, Controlled!JournalStays
<1> HIDE DEF fresh
<1>5. CASE Controlled!Prepare(resume)
  <2>1. /\ journal' = fresh /\ UNCHANGED driver
        /\ \/ journal.status = "absent"
           \/ journal.status = "prepared" /\ journal.study = study
    BY <1>5 DEF Controlled!Prepare, Controlled!PreparedCompatible, fresh
  <2>2. Controlled!JournalStays
    BY <1>3, <1>4, <2>1 DEF ControlledInv, JournalTypes, fresh
  <2>3. JournalTypes'
    BY <1>1, <1>2, <2>1 DEF JournalTypes, fresh
  <2>4. DriverTypes'
    BY <1>1, <2>1 DEF ControlledInv, DriverTypes
  <2> QED
    BY <1>1, <2>2, <2>3, <2>4 DEF ControlledInv
<1>6. CASE \E gpu \in Gpus : Controlled!Start(resume, gpu)
  <2> DEFINE existing == Controlled!Existing
  <2>0. PICK gpu \in Gpus : Controlled!Start(resume, gpu)
    BY <1>6
  <2> DEFINE identity == Controlled!RuntimeIdentity(gpu)
  <2>1. /\ journal' = [existing EXCEPT !.identity = identity, !.status = "running"]
        /\ driver' = [at |-> Controlled!First, dirty |-> FALSE, document |-> journal']
        /\ journal.status # "absent" => journal.study = study
    BY <2>0 DEF Controlled!Start, Controlled!PreparedCompatible
  <2>2. IsDocument(existing) /\ existing.study = study
    BY <1>2, <2>1 DEF ControlledInv, JournalTypes, Controlled!Existing, fresh
  <2>3. journal.status # "absent" => existing.cases = journal.cases
    BY DEF Controlled!Existing
  <2> HIDE DEF existing
  <2>4. /\ DOMAIN journal' = DOMAIN existing /\ journal'.study = study
        /\ journal'.cases = existing.cases /\ journal'.status = "running"
    BY <2>1, <2>2 DEF IsDocument
  <2>5. IsDocument(journal')
    BY <2>2, <2>4, Relabelled
  <2>6. Controlled!JournalStays
    BY <1>3, <1>4, <2>3, <2>4
  <2>7. IsPlace(study, Controlled!First)
    <3>1. study.trials \in Nat \ {0} /\ 1 \in DOMAIN study.cases
      BY <1>1, StudyIs
    <3>2. Len(study.cases[1].order) \in Nat \ {0}
      BY <1>1, <3>1, StudyIs
    <3> QED
      BY <3>1, <3>2 DEF IsPlace, Controlled!First
  <2>8. \A case : Reached(study, case, Controlled!First)
    BY DEF Reached, Controlled!First
  <2>9. driver'.at = Controlled!First /\ ~ driver'.dirty /\ driver'.document = journal'
        /\ DOMAIN driver' = {"at", "dirty", "document"} /\ driver'.at.step = "preflight"
    BY <2>1 DEF Controlled!First
  <2>10. DriverTypes'
    BY <2>4, <2>5, <2>7, <2>8, <2>9 DEF DriverTypes
  <2>11. JournalTypes'
    BY <2>4, <2>5 DEF JournalTypes
  <2> QED
    BY <1>1, <2>6, <2>10, <2>11 DEF ControlledInv
<1> QED
  BY <1>5, <1>6

\* A step changes the case under way in memory.
LEMMA DidKeeps ==
    ASSUME ControlledInv, ~ driver.dirty, driver.at.step \notin {"none", "finish"},
           UNCHANGED <<study, journal>>, NEW case, Controlled!Did(case),
           IsCase(driver.document.study, driver.at.case, case),
           KeptCase(Controlled!CaseNow, case),
           Reached(driver.document.study, case, driver.at),
           Effect(driver.document.study, case, driver.at)
    PROVE  ControlledInv' /\ Controlled!JournalStays
<1> DEFINE d == driver.document
           at == driver.at
           e == [d EXCEPT !.cases[at.case] = case]
<1>1. IsDocument(d) /\ d.status \notin {"absent", "prepared"} /\ IsPlace(d.study, at) /\ journal = d
      /\ {"at", "dirty", "document"} \subseteq DOMAIN driver
  BY DEF ControlledInv, DriverTypes
<1>2. driver' = [driver EXCEPT !.dirty = TRUE, !.document = e]
  BY <1>1 DEF Controlled!Did
<1>3. driver'.dirty /\ driver'.document = e /\ driver'.at = at /\ DOMAIN driver' = DOMAIN driver
  BY <1>1, <1>2
<1>4. DOMAIN e = DOMAIN d /\ e.status = d.status /\ e.study = d.study /\ e.cases = [d.cases EXCEPT ![at.case] = case]
  BY <1>1 DEF IsDocument
<1>5. at.case \in DOMAIN d.cases
  BY <1>1 DEF IsPlace, IsDocument
<1> HIDE DEF e
<1>6. /\ DOMAIN e.cases = DOMAIN d.cases /\ e.cases[at.case] = case
      /\ \A c \in DOMAIN d.cases : c # at.case => e.cases[c] = d.cases[c]
  BY <1>4, <1>5
<1>7. IsDocument(e)
  BY <1>1, <1>4, <1>6 DEF IsDocument
<1>8. Kept(d, e)
  BY <1>1, <1>6, SameCase DEF Kept, IsDocument, Controlled!CaseNow
<1>9. DriverTypes'
  BY <1>1, <1>3, <1>4, <1>6, <1>7, <1>8 DEF DriverTypes
<1> QED
  BY <1>9, JournalSame DEF ControlledInv, JournalTypes

LEMMA Mirror ==
    ASSUME NEW n \in Nat, NEW k \in 1 .. n
    PROVE  n + 1 - k \in 1 .. n
  OBVIOUS

LEMMA Before ==
    ASSUME NEW n \in Nat, NEW m \in 1 .. n, NEW k \in 1 .. m - 1
    PROVE  k \in 1 .. n
  OBVIOUS

LEMMA VerdictNeeds ==
    ASSUME NEW case, NEW comparison, Controlled!ComparisonResult(case, comparison).status = "measured"
    PROVE  /\ case.preflight[comparison.baseline].status = "accepted"
           /\ case.preflight[comparison.treatment].status = "accepted"
  BY DEF Controlled!ComparisonResult, Controlled!Verdict, Controlled!Blocked

\* The case under way, and the variant its next step is about.
LEMMA UnderWay ==
    ASSUME ControlledInv, ~ driver.dirty, driver.at.step \in {"preflight", "measure", "evaluate"}
    PROVE  LET s == driver.document.study at == driver.at v == Controlled!Turn(s, at)
           IN  /\ s \in Experiments /\ Controlled!ValidStudy(s) /\ IsPlace(s, at)
               /\ IsCase(s, at.case, Controlled!CaseNow) /\ Reached(s, Controlled!CaseNow, at)
               /\ v \in DOMAIN Controlled!CaseNow.preflight /\ v = Nth(s, at, at.turn)
               /\ at.step = "preflight" => v = s.cases[at.case].order[at.turn]
               /\ Controlled!StudyNow = s.cases[at.case]
<1> DEFINE s == driver.document.study
           at == driver.at
           ids == s.cases[at.case].order
<1>1. /\ s \in Experiments /\ Controlled!ValidStudy(s) /\ IsPlace(s, at) /\ IsDocument(driver.document)
      /\ Reached(s, Controlled!CaseNow, at)
  BY DEF ControlledInv, DriverTypes, IsDocument, Controlled!CaseNow
<1>2. IsCase(s, at.case, Controlled!CaseNow)
  BY <1>1 DEF IsDocument, IsPlace, Controlled!CaseNow
<1>3. /\ Len(ids) \in Nat \ {0} /\ at.turn \in 1 .. Len(ids)
      /\ \A k \in 1 .. Len(ids) : ids[k] \in DOMAIN s.cases[at.case].variants
  BY <1>1, StudyIs DEF IsPlace
<1>4. Controlled!Turn(s, at) = IF at.trial % 2 = 1 THEN ids[Len(ids) + 1 - at.turn] ELSE ids[at.turn]
  BY DEF Controlled!Turn
<1>5. Controlled!Turn(s, at) \in DOMAIN Controlled!CaseNow.preflight
  <2>1. Len(ids) + 1 - at.turn \in 1 .. Len(ids)
    BY <1>3, Mirror
  <2> HIDE DEF ids, at, s
  <2> QED
    BY <1>2, <1>3, <1>4, <2>1 DEF IsCase, ids
<1>6. Nth(s, at, at.turn) = Controlled!Turn(s, at)
  <2>1. /\ [at EXCEPT !.turn = at.turn].case = at.case /\ [at EXCEPT !.turn = at.turn].trial = at.trial
        /\ [at EXCEPT !.turn = at.turn].turn = at.turn
    BY <1>1 DEF IsPlace
  <2> QED
    BY <2>1 DEF Nth, Controlled!Turn
<1>7. at.step = "preflight" => Controlled!Turn(s, at) = ids[at.turn]
  <2>1. at.step = "preflight" => at.trial = 0
    BY <1>1 DEF IsPlace
  <2>2. at.step = "preflight" => at.trial % 2 # 1
    <3>1. 0 % 2 # 1
      OBVIOUS
    <3> QED
      BY <2>1, <3>1
  <2> HIDE DEF s, at, ids
  <2> QED
    BY <1>4, <2>2
<1> QED
  BY <1>1, <1>2, <1>5, <1>6, <1>7 DEF Controlled!StudyNow

LEMMA PreflightKeeps ==
    ASSUME ControlledInv, Controlled!PreflightVariant
    PROVE  ControlledInv' /\ Controlled!JournalStays
<1> DEFINE s == driver.document.study
           at == driver.at
           v == Controlled!Turn(s, at)
           case == Controlled!CaseNow
<1>1. ~ driver.dirty /\ at.step = "preflight" /\ UNCHANGED <<study, journal>>
  BY DEF Controlled!PreflightVariant, Controlled!Running
<1>2. /\ IsCase(s, at.case, case) /\ Reached(s, case, at)
      /\ v \in DOMAIN case.preflight /\ v = s.cases[at.case].order[at.turn]
  BY <1>1, UnderWay
<1>3. CASE case.preflight[v].status # "none"
  <2>1. Controlled!Did(case)
    BY <1>3 DEF Controlled!PreflightVariant
  <2>2. Effect(s, case, at)
    BY <1>1, <1>2, <1>3 DEF Effect, Ready
  <2>3. KeptCase(case, case)
    BY <1>2, SameCase
  <2> QED
    BY <1>1, <1>2, <2>1, <2>2, <2>3, DidKeeps
<1>4. CASE case.preflight[v].status = "none"
  <2>1. PICK o : o.status # "none" /\ Controlled!Did([case EXCEPT !.preflight[v] = o])
    <3>1. \/ \E o \in Controlled!PreflightOutcomes(Controlled!StudyNow.variants[v]) :
                Controlled!Did([case EXCEPT !.preflight[v] = o])
          \/ \E status \in {"error", "rejected"} :
                Controlled!Did([case EXCEPT !.preflight[v] = [Controlled!NoPreflight EXCEPT !.status = status]])
      BY <1>4 DEF Controlled!PreflightVariant
    <3>2. \A o \in Controlled!PreflightOutcomes(Controlled!StudyNow.variants[v]) : o.status # "none"
      BY DEF Controlled!PreflightOutcomes
    <3>3. \A status \in {"error", "rejected"} : [Controlled!NoPreflight EXCEPT !.status = status].status # "none"
      BY DEF Controlled!NoPreflight
    <3> QED
      BY <3>1, <3>2, <3>3
  <2> DEFINE after == [case EXCEPT !.preflight[v] = o]
  <2>2. /\ DOMAIN after = DOMAIN case /\ after.preflight = [case.preflight EXCEPT ![v] = o]
        /\ after.trials = case.trials /\ after.comparisons = case.comparisons
    BY <1>2 DEF IsCase
  <2>3. /\ DOMAIN after.preflight = DOMAIN case.preflight /\ after.preflight[v] = o
        /\ \A w : w \in DOMAIN case.preflight /\ w # v => after.preflight[w] = case.preflight[w]
    BY <1>2, <2>2
  <2> HIDE DEF after
  <2>4. ASSUME NEW k \in DOMAIN case.comparisons, case.comparisons[k].status = "measured"
        PROVE  LET comparison == s.cases[at.case].comparisons[k]
               IN  /\ case.comparisons[k] = Controlled!ComparisonResult(after, comparison)
                   /\ AllRan(s, after.trials[comparison.baseline]) /\ AllRan(s, after.trials[comparison.treatment])
    <3> DEFINE comparison == s.cases[at.case].comparisons[k]
    <3>1. /\ comparison.baseline \in DOMAIN case.preflight /\ comparison.treatment \in DOMAIN case.preflight
          /\ case.comparisons[k] = Controlled!ComparisonResult(case, comparison)
          /\ AllRan(s, case.trials[comparison.baseline]) /\ AllRan(s, case.trials[comparison.treatment])
      BY <1>1, <1>2, <2>4, UnderWay, StudyIs DEF IsCase, IsPlace
    <3>2. comparison.baseline # v /\ comparison.treatment # v
      BY <1>4, <2>4, <3>1, VerdictNeeds
    <3> QED
      BY <2>2, <2>3, <3>1, <3>2 DEF Controlled!ComparisonResult
  <2> HIDE DEF case, at, s
  <2>5. IsCase(s, at.case, after)
    <3>1. /\ {"preflight", "trials", "comparisons", "status"} \subseteq DOMAIN after
          /\ DOMAIN after.preflight = DOMAIN s.cases[at.case].variants
          /\ DOMAIN after.trials = DOMAIN s.cases[at.case].variants
          /\ DOMAIN after.comparisons = DOMAIN s.cases[at.case].comparisons
          /\ \A w \in DOMAIN after.trials :
                /\ IsSeq(after.trials[w])
                /\ \A i, j \in DOMAIN after.trials[w] : after.trials[w][i].trial = after.trials[w][j].trial => i = j
      <4>1. /\ {"preflight", "trials", "comparisons", "status"} \subseteq DOMAIN case
            /\ DOMAIN case.preflight = DOMAIN s.cases[at.case].variants
            /\ DOMAIN case.trials = DOMAIN s.cases[at.case].variants
            /\ DOMAIN case.comparisons = DOMAIN s.cases[at.case].comparisons
            /\ \A w \in DOMAIN case.trials :
                  /\ IsSeq(case.trials[w])
                  /\ \A i, j \in DOMAIN case.trials[w] : case.trials[w][i].trial = case.trials[w][j].trial => i = j
        BY <1>2 DEF IsCase
      <4> QED
        BY <2>2, <2>3, <4>1
    <3> QED
      BY <2>2, <2>4, <3>1 DEF IsCase
  <2>6. KeptCase(case, after)
    <3>1. KeptCase(case, case)
      BY <1>2, SameCase
    <3> QED
      BY <1>4, <2>2, <2>3, <3>1 DEF KeptCase
  <2> USE DEF case, at, s
  <2>7. Reached(s, after, at)
    <3>1. \A w : w \in DOMAIN case.preflight /\ Ready(case, w) => Ready(after, w)
      BY <2>1, <2>3 DEF Ready
    <3>2. \A k \in 1 .. at.turn - 1 : s.cases[at.case].order[k] \in DOMAIN case.preflight
      <4>1. at.turn \in 1 .. Len(s.cases[at.case].order) /\ Len(s.cases[at.case].order) \in Nat
            /\ \A k \in 1 .. Len(s.cases[at.case].order) : s.cases[at.case].order[k] \in DOMAIN case.preflight
        BY <1>1, <1>2, UnderWay, StudyIs DEF IsPlace, IsCase
      <4> QED
        BY <4>1, Before
    <3> QED
      BY <1>1, <1>2, <3>1, <3>2 DEF Reached
  <2>8. Effect(s, after, at)
    BY <1>1, <1>2, <2>1, <2>3 DEF Effect, Ready
  <2> QED
    BY <1>1, <2>1, <2>5, <2>6, <2>7, <2>8, DidKeeps DEF after
<1> QED
  BY <1>3, <1>4

LEMMA MeasureKeeps ==
    ASSUME ControlledInv, Controlled!MeasureTrial
    PROVE  ControlledInv' /\ Controlled!JournalStays
<1> DEFINE s == driver.document.study
           at == driver.at
           v == Controlled!Turn(s, at)
           case == Controlled!CaseNow
<1>1. ~ driver.dirty /\ at.step = "measure" /\ UNCHANGED <<study, journal>>
  BY DEF Controlled!MeasureTrial, Controlled!Running
<1>2. /\ IsCase(s, at.case, case) /\ Reached(s, case, at) /\ at.trial \in 0 .. s.trials - 1
      /\ v \in DOMAIN case.preflight /\ v = Nth(s, at, at.turn)
  BY <1>1, UnderWay DEF IsPlace
<1>3. CASE case.preflight[v].status # "accepted" \/ Controlled!Recorded(case.trials[v], at.trial)
  <2>1. Controlled!Did(case)
    BY <1>3 DEF Controlled!MeasureTrial
  <2>2. Effect(s, case, at)
    BY <1>1, <1>2, <1>3 DEF Effect, Ran
  <2>3. KeptCase(case, case)
    BY <1>2, SameCase
  <2> QED
    BY <1>1, <1>2, <2>1, <2>2, <2>3, DidKeeps
<1>4. CASE ~ (case.preflight[v].status # "accepted" \/ Controlled!Recorded(case.trials[v], at.trial))
  <2>1. PICK row : row.trial = at.trial /\ Controlled!Did([case EXCEPT !.trials[v] = Append(@, row)])
    BY <1>4 DEF Controlled!MeasureTrial
  <2> DEFINE after == [case EXCEPT !.trials[v] = Append(@, row)]
  <2>2. /\ DOMAIN after = DOMAIN case /\ after.preflight = case.preflight
        /\ after.trials = [case.trials EXCEPT ![v] = Append(case.trials[v], row)]
        /\ after.comparisons = case.comparisons
    BY <1>2 DEF IsCase
  <2>3. /\ DOMAIN after.trials = DOMAIN case.trials /\ after.trials[v] = Append(case.trials[v], row)
        /\ \A w : w \in DOMAIN case.trials /\ w # v => after.trials[w] = case.trials[w]
        /\ v \in DOMAIN case.trials /\ IsSeq(case.trials[v])
    BY <1>2, <2>2 DEF IsCase
  <2> HIDE DEF after
  <2> DEFINE old == case.trials[v]
             new == after.trials[v]
  <2>4. /\ IsSeq(new) /\ DOMAIN old \subseteq DOMAIN new /\ SubSeq(new, 1, Len(old)) = old
        /\ \A i \in DOMAIN old : new[i] = old[i]
        /\ \A i \in DOMAIN new \ DOMAIN old : new[i] = row /\ i = Len(old) + 1
        /\ Len(old) + 1 \in DOMAIN new \ DOMAIN old
    <3>1. /\ Len(old) \in Nat /\ DOMAIN old = 1 .. Len(old) /\ DOMAIN new = 1 .. Len(old) + 1
      BY <2>3 DEF IsSeq
    <3> QED
      BY <2>3, <3>1, AppendIsSeq
  <2>5. \A i, j \in DOMAIN new : new[i].trial = new[j].trial => i = j
    <3>1. \A i \in DOMAIN old : old[i].trial # at.trial
      BY <1>4 DEF Controlled!Recorded
    <3>2. \A i, j \in DOMAIN old : old[i].trial = old[j].trial => i = j
      BY <1>2, <2>3 DEF IsCase
    <3> HIDE DEF old, new
    <3> QED
      BY <2>1, <2>4, <3>1, <3>2
  <2>6. \A w \in DOMAIN case.trials : \A t :
           Controlled!Recorded(case.trials[w], t) => Controlled!Recorded(after.trials[w], t)
    <3>1. TAKE w \in DOMAIN case.trials
    <3>2. CASE w = v
      BY <2>4, <3>2 DEF Controlled!Recorded
    <3> QED
      BY <2>3, <3>2
  <2>7. Controlled!Recorded(new, at.trial)
    BY <2>1, <2>4 DEF Controlled!Recorded
  <2>8. ASSUME NEW k \in DOMAIN case.comparisons, case.comparisons[k].status = "measured"
        PROVE  LET comparison == s.cases[at.case].comparisons[k]
               IN  /\ case.comparisons[k] = Controlled!ComparisonResult(after, comparison)
                   /\ AllRan(s, after.trials[comparison.baseline]) /\ AllRan(s, after.trials[comparison.treatment])
    <3> DEFINE comparison == s.cases[at.case].comparisons[k]
    <3>1. /\ comparison.baseline \in DOMAIN case.trials /\ comparison.treatment \in DOMAIN case.trials
          /\ case.comparisons[k] = Controlled!ComparisonResult(case, comparison)
          /\ AllRan(s, case.trials[comparison.baseline]) /\ AllRan(s, case.trials[comparison.treatment])
      BY <1>1, <1>2, <2>8, UnderWay, StudyIs DEF IsCase, IsPlace
    <3>2. comparison.baseline # v /\ comparison.treatment # v
      BY <1>2, <1>4, <3>1 DEF AllRan
    <3>3. after.trials[comparison.baseline] = case.trials[comparison.baseline]
          /\ after.trials[comparison.treatment] = case.trials[comparison.treatment]
      BY <2>3, <3>1, <3>2
    <3> QED
      BY <2>2, <3>1, <3>3 DEF Controlled!ComparisonResult
  <2>9. IsCase(s, at.case, after)
    <3>1. \A w \in DOMAIN after.trials :
             /\ IsSeq(after.trials[w])
             /\ \A i, j \in DOMAIN after.trials[w] : after.trials[w][i].trial = after.trials[w][j].trial => i = j
      <4>1. TAKE w \in DOMAIN after.trials
      <4>2. CASE w = v
        BY <2>4, <2>5, <4>2
      <4>3. CASE w # v
        <5>1. w \in DOMAIN case.trials /\ after.trials[w] = case.trials[w]
          BY <2>3, <4>1, <4>3
        <5> QED
          BY <1>2, <5>1 DEF IsCase
      <4> QED
        BY <4>2, <4>3
    <3> QED
      BY <1>2, <2>2, <2>3, <2>8, <3>1 DEF IsCase
  <2>10. KeptCase(case, after)
    <3>1. \A w \in DOMAIN case.trials : SubSeq(after.trials[w], 1, Len(case.trials[w])) = case.trials[w]
      BY <1>2, <2>3, <2>4, SameSeq DEF IsCase
    <3> QED
      BY <1>2, <2>2, <2>9, <3>1 DEF KeptCase, IsCase
  <2>11. \A w \in DOMAIN case.preflight : \A t : Ran(case, w, t) => Ran(after, w, t)
    BY <1>2, <2>2, <2>6 DEF Ran, IsCase
  <2>12. \A k \in 1 .. at.turn - 1 : Nth(s, at, k) \in DOMAIN case.preflight
    <3> DEFINE ids == s.cases[at.case].order
    <3>1. /\ at.turn \in 1 .. Len(ids) /\ Len(ids) \in Nat /\ IsPlace(s, at)
          /\ \A k \in 1 .. Len(ids) : ids[k] \in DOMAIN case.preflight
      BY <1>1, <1>2, UnderWay, StudyIs DEF IsPlace, IsCase
    <3>2. TAKE k \in 1 .. at.turn - 1
    <3>3. [at EXCEPT !.turn = k].case = at.case /\ [at EXCEPT !.turn = k].trial = at.trial
          /\ [at EXCEPT !.turn = k].turn = k
      BY <3>1 DEF IsPlace
    <3>4. Nth(s, at, k) = IF at.trial % 2 = 1 THEN ids[Len(ids) + 1 - k] ELSE ids[k]
      BY <3>3 DEF Nth, Controlled!Turn
    <3>5. k \in 1 .. Len(ids)
      BY <3>1, Before
    <3>6. Len(ids) + 1 - k \in 1 .. Len(ids)
      BY <3>1, <3>5, Mirror
    <3> QED
      BY <3>1, <3>4, <3>5, <3>6
  <2>13. Reached(s, after, at)
    BY <1>1, <1>2, <2>2, <2>11, <2>12 DEF Reached, Ready
  <2>14. Effect(s, after, at)
    BY <1>1, <1>2, <2>7 DEF Effect, Ran
  <2> QED
    BY <1>1, <2>1, <2>9, <2>10, <2>13, <2>14, DidKeeps DEF after
<1> QED
  BY <1>3, <1>4

LEMMA EvaluateKeeps ==
    ASSUME ControlledInv, Controlled!EvaluateCase
    PROVE  ControlledInv' /\ Controlled!JournalStays
<1> DEFINE s == driver.document.study
           at == driver.at
           case == Controlled!CaseNow
           comparisons == s.cases[at.case].comparisons
           after == Controlled!EvaluatedCase(case, comparisons)
           results == [k \in DOMAIN comparisons |-> Controlled!ComparisonResult(case, comparisons[k])]
<1>1. /\ ~ driver.dirty /\ at.step = "evaluate" /\ UNCHANGED <<study, journal>>
      /\ Controlled!Did(after)
  BY DEF Controlled!EvaluateCase, Controlled!Running, Controlled!StudyNow
<1>2. IsCase(s, at.case, case) /\ Reached(s, case, at) /\ IsPlace(s, at) /\ s \in Experiments /\ Controlled!ValidStudy(s)
  BY <1>1, UnderWay
<1>3. /\ DOMAIN after = DOMAIN case /\ after.preflight = case.preflight
      /\ after.trials = case.trials /\ after.comparisons = results
  BY <1>2 DEF Controlled!EvaluatedCase, IsCase
<1> HIDE DEF after
<1>4. \A k \in DOMAIN comparisons :
         results[k] = Controlled!ComparisonResult(after, comparisons[k])
  BY <1>3 DEF Controlled!ComparisonResult
<1>5. ASSUME NEW k \in DOMAIN comparisons, results[k].status = "measured"
      PROVE  AllRan(s, case.trials[comparisons[k].baseline]) /\ AllRan(s, case.trials[comparisons[k].treatment])
  <2>1. /\ case.preflight[comparisons[k].baseline].status = "accepted"
        /\ case.preflight[comparisons[k].treatment].status = "accepted"
    BY <1>5, VerdictNeeds
  <2>2. comparisons[k].baseline \in DOMAIN case.preflight /\ comparisons[k].treatment \in DOMAIN case.preflight
    BY <1>2, StudyIs DEF IsPlace, IsCase
  <2> QED
    BY <1>1, <1>2, <2>1, <2>2 DEF Reached, Ran, AllRan
<1>6. DOMAIN results = DOMAIN case.comparisons
  BY <1>2 DEF IsCase
<1>7. IsCase(s, at.case, after)
  <2> HIDE DEF results
  <2> QED
    BY <1>2, <1>3, <1>4, <1>5, <1>6 DEF IsCase
<1>8. \A k \in DOMAIN case.comparisons : case.comparisons[k].status = "measured" => results[k] = case.comparisons[k]
  BY <1>2 DEF IsCase
<1>9. KeptCase(case, after)
  <2> HIDE DEF results
  <2> QED
    BY <1>2, <1>3, <1>8, SameCase DEF KeptCase
<1>10. Reached(s, after, at) /\ Effect(s, after, at)
  BY <1>1, <1>2, <1>3 DEF Reached, Effect, Ready, Ran
<1> QED
  BY <1>1, <1>7, <1>9, <1>10, DidKeeps

LEMMA KeptStays ==
    ASSUME Kept(journal, journal')
    PROVE  Controlled!JournalStays
  BY DEF Kept, KeptCase, Controlled!JournalStays

\* What is written at the end of a call or when it is interrupted.
LEMMA FinishKeeps ==
    ASSUME ControlledInv, Controlled!Finish
    PROVE  ControlledInv' /\ Controlled!JournalStays
<1> DEFINE d == driver.document
<1>1. /\ ~ driver.dirty /\ driver.at.step = "finish" /\ UNCHANGED <<study, journal>>
      /\ {"at", "dirty", "document"} \subseteq DOMAIN driver
      /\ IsDocument(d) /\ IsPlace(d.study, driver.at) /\ journal = d
  BY DEF Controlled!Finish, Controlled!Running, ControlledInv, DriverTypes
<1>2. PICK status \in {"complete", "complete-with-gaps"} :
          driver' = [driver EXCEPT !.dirty = TRUE, !.document.status = status]
  BY DEF Controlled!Finish
<1> DEFINE e == [d EXCEPT !.status = status]
<1>3. driver'.dirty /\ driver'.at = driver.at /\ DOMAIN driver' = DOMAIN driver /\ driver'.document = e
  BY <1>1, <1>2
<1>4. DOMAIN e = DOMAIN d /\ e.study = d.study /\ e.cases = d.cases /\ e.status = status
  BY <1>1 DEF IsDocument
<1> HIDE DEF e
<1>5. IsDocument(e)
  BY <1>1, <1>4, Relabelled
<1>6. Kept(d, e)
  BY <1>1, <1>4, SameDocument DEF Kept
<1>7. DriverTypes'
  BY <1>1, <1>3, <1>4, <1>5, <1>6 DEF DriverTypes
<1> QED
  BY <1>1, <1>7, JournalSame DEF ControlledInv, JournalTypes

LEMMA AtomicWriteKeeps ==
    ASSUME ControlledInv, Controlled!AtomicWrite
    PROVE  ControlledInv' /\ Controlled!JournalStays
<1> DEFINE d == driver.document
           at == driver.at
           s == d.study
           next == Controlled!Following(s, at)
<1>1. /\ driver.dirty /\ at.step # "none" /\ UNCHANGED study /\ journal' = d
      /\ {"at", "dirty", "document"} \subseteq DOMAIN driver
      /\ IsDocument(d) /\ d.status \notin {"absent", "prepared"} /\ IsPlace(s, at) /\ Kept(journal, d)
      /\ at.step # "finish" => Reached(s, d.cases[at.case], at) /\ Effect(s, d.cases[at.case], at)
  BY DEF Controlled!AtomicWrite, ControlledInv, DriverTypes
<1>2. JournalTypes' /\ Controlled!JournalStays
  BY <1>1, KeptStays DEF JournalTypes
<1>3. CASE at.step = "finish"
  <2>1. driver' = Controlled!Idle
    BY <1>3 DEF Controlled!AtomicWrite
  <2>2. DriverTypes'
    BY <2>1 DEF DriverTypes, Controlled!Idle
  <2> QED
    BY <1>1, <1>2, <2>2 DEF ControlledInv
<1>4. CASE at.step # "finish"
  <2>1. driver' = [driver EXCEPT !.dirty = FALSE, !.at = next]
    BY <1>4 DEF Controlled!AtomicWrite
  <2>2. ~ driver'.dirty /\ driver'.at = next /\ driver'.document = d /\ DOMAIN driver' = DOMAIN driver
    BY <1>1, <2>1
  <2>3. /\ s \in Experiments /\ Controlled!ValidStudy(s)
        /\ DOMAIN d.cases[at.case].preflight = DOMAIN s.cases[at.case].variants
    BY <1>1 DEF IsDocument, IsPlace, IsCase
  <2>4. /\ IsPlace(s, next)
        /\ next.case = at.case => Reached(s, d.cases[at.case], next)
        /\ next.case # at.case => next.step = "preflight" /\ next.turn = 1
    BY <1>1, <1>4, <2>3, Advances
  <2> HIDE DEF next
  <2>5. Reached(s, d.cases[next.case], next)
    BY <2>4 DEF Reached
  <2>6. next.step # "none"
    BY <2>4 DEF IsPlace
  <2>7. DriverTypes'
    BY <1>1, <2>2, <2>4, <2>5, <2>6 DEF DriverTypes
  <2> QED
    BY <1>1, <1>2, <2>7 DEF ControlledInv
<1> QED
  BY <1>3, <1>4

LEMMA InterruptedKeeps ==
    ASSUME ControlledInv, Controlled!Interrupted
    PROVE  ControlledInv' /\ Controlled!JournalStays
<1> DEFINE d == driver.document
           e == [d EXCEPT !.status = "interrupted"]
<1>1. /\ driver.at.step # "none" /\ UNCHANGED study /\ journal' = e /\ driver' = Controlled!Idle
      /\ IsDocument(d)
  BY DEF Controlled!Interrupted, ControlledInv, DriverTypes
<1>2. Kept(journal, d)
  BY <1>1, SameDocument DEF ControlledInv, DriverTypes
<1>3. DOMAIN e = DOMAIN d /\ e.study = d.study /\ e.cases = d.cases /\ e.status = "interrupted"
  BY <1>1 DEF IsDocument
<1> HIDE DEF e
<1>4. IsDocument(journal') /\ Kept(journal, journal') /\ journal'.status = "interrupted"
  BY <1>1, <1>2, <1>3, Relabelled DEF Kept
<1>5. JournalTypes' /\ DriverTypes'
  BY <1>1, <1>4 DEF JournalTypes, DriverTypes, Controlled!Idle
<1> QED
  BY <1>1, <1>4, <1>5, KeptStays DEF ControlledInv

LEMMA ControlledSteps ==
    ASSUME ControlledInv, Controlled!Next
    PROVE  ControlledInv' /\ Controlled!JournalStays
<1>1. CASE \E resume \in BOOLEAN : Controlled!Prepare(resume) \/ \E gpu \in Gpus : Controlled!Start(resume, gpu)
  BY <1>1, CalledSteps
<1>2. CASE Controlled!Work
  BY <1>2, PreflightKeeps, MeasureKeeps, EvaluateKeeps, FinishKeeps, AtomicWriteKeeps DEF Controlled!Work
<1>3. CASE Controlled!Killed
  <2>1. UNCHANGED <<study, journal>> /\ driver' = Controlled!Idle
    BY <1>3 DEF Controlled!Killed
  <2>2. JournalTypes' /\ DriverTypes'
    BY <2>1 DEF ControlledInv, JournalTypes, DriverTypes, Controlled!Idle
  <2> QED
    BY <2>1, <2>2, JournalSame DEF ControlledInv
<1>4. CASE Controlled!Rebuild \/ Controlled!EditStudy
  <2>1. UNCHANGED <<journal, driver>> /\ study' \in Experiments
    BY <1>4 DEF Controlled!Rebuild, Controlled!EditStudy, ControlledInv
  <2>2. JournalTypes' /\ DriverTypes'
    BY <2>1 DEF ControlledInv, JournalTypes, DriverTypes
  <2> QED
    BY <2>1, <2>2, JournalSame DEF ControlledInv
<1> QED
  BY <1>1, <1>2, <1>3, <1>4, InterruptedKeeps DEF Controlled!Next

LEMMA ControlledStarts ==
    ASSUME Controlled!Init
    PROVE  ControlledInv
  BY DEF Controlled!Init, Controlled!Idle, Controlled!Absent, ControlledInv, JournalTypes, DriverTypes

----------------------------------------------------------------------------
(* The four programs.                                                      *)

\* The inductive invariant: that of the program that runs.
MCInv == /\ program = "research" => ResearchInv
         /\ program = "controlled" => ControlledInv
         /\ program = "application" => AppInv
         /\ program = "sweep" => SweepInv

LEMMA MCStarts == MCInit => MCInv
  BY ResearchStarts, ControlledStarts, AppStarts, SweepStarts DEF MCInit, MCInv

LEMMA MCSteps ==
    ASSUME MCInv, MCNext
    PROVE  /\ MCInv'
           /\ program = "research" => (EvidenceStays /\ PhasesStay)
           /\ program = "controlled" => Controlled!JournalStays
           /\ program = "application" => Application!RowsStay
           /\ program = "sweep" => Sweep!RowsKept
<1>1. UNCHANGED program
  BY DEF MCNext
<1>2. CASE program = "research" /\ Next
  BY <1>1, <1>2, ResearchSteps DEF MCInv
<1>3. CASE program = "controlled" /\ Controlled!Next
  BY <1>1, <1>3, ControlledSteps DEF MCInv
<1>4. CASE program = "application" /\ Application!Next
  BY <1>1, <1>4, AppSteps DEF MCInv
<1>5. CASE program = "sweep" /\ Sweep!Next
  BY <1>1, <1>5, SweepSteps DEF MCInv
<1> QED
  BY <1>2, <1>3, <1>4, <1>5 DEF MCNext

\* A step that changes nothing of a program keeps its invariant.
LEMMA MCStutters ==
    ASSUME MCInv, UNCHANGED mvars
    PROVE  MCInv'
<1>1. UNCHANGED <<program, OfResearch, OfControlled, OfApplication, OfSweep, World>>
  BY DEF mvars
<1>2. UNCHANGED <<program, campaign, output, conductor, command, compilation, study, journal, driver>>
  BY <1>1 DEF OfResearch, OfControlled
<1>3. UNCHANGED <<journals, lock, other, composed, runner, partial, table, sweeper, foreign>>
  BY <1>1 DEF OfApplication, OfSweep, World
<1>4. ResearchInv => ResearchInv'
  BY <1>2, ResearchSame
<1>5. ControlledInv => ControlledInv'
  BY <1>2 DEF ControlledInv, JournalTypes, DriverTypes
<1>6. AppInv => AppInv'
  BY <1>3, OthersKeep
<1>7. SweepInv => SweepInv'
  BY <1>3 DEF SweepInv, SweeperTypes
<1> QED
  BY <1>2, <1>4, <1>5, <1>6, <1>7 DEF MCInv

LEMMA Carried == MCInv /\ [MCNext]_mvars => MCInv'
  BY MCSteps, MCStutters

LEMMA MCAlways == MCSpec => []MCInv
<1> QED
  BY MCStarts, Carried, PTL DEF MCSpec

\* While the application study measures, every earlier study has resolved its matrix, its lock
\* is the study's own and its process is gone, for any number of earlier studies and whenever
\* they start, time, resolve or are written again (acquire_locks, execute).
THEOREM EarlierStudiesAtRest == MCSpec => []EarlierStudiesRest
<1>1. MCInv => EarlierStudiesRest
  BY AppRests DEF MCInv, EarlierStudiesRest
<1> QED
  BY <1>1, MCAlways, PTL

\* No call loses, replaces or measures a second time what an earlier one wrote, except what was
\* contaminated, and a completed phase stays as it is (the journals written after every
\* benchmark, resume, quarantine_output).
THEOREM NothingMeasuredIsLost == MCSpec => MeasurementsKept
<1>1. MCInv /\ [MCNext]_mvars =>
        [ /\ program = "research" => (EvidenceStays /\ PhasesStay)
          /\ program = "controlled" => Controlled!JournalStays
          /\ program = "application" => Application!RowsStay
          /\ program = "sweep" => Sweep!RowsKept ]_mvars
  BY MCSteps
<1> QED
  BY <1>1, MCAlways, PTL DEF MCSpec, MeasurementsKept
=============================================================================
