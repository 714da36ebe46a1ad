------------------------ MODULE ControlledExperiment ------------------------
(***************************************************************************)
(* Paired one-factor experiments (run_controlled_experiment).  A study     *)
(* names, per case, variants of a mapping and the comparisons between two  *)
(* of them that may differ in declared axes only.  The runner proves every *)
(* variant correct once (preflight), times all of them in alternating      *)
(* order, and writes its journal after every benchmark invocation.  Runs   *)
(* fail, are interrupted or killed; meanwhile the benchmark may be rebuilt *)
(* and the study edited.                                                   *)
(***************************************************************************)
EXTENDS Naturals, Sequences, FiniteSets, TLC

CONSTANTS Studies,          \* the contents the study file may have
          Derived,          \* axes of a mapping that are not controls
          Boundaries,       \* the axes holding one record per stage boundary
          Resolutions,      \* requested mapping -> the mappings it may resolve to
          Builds, Gpus,
          MaxCalls, MaxSetbacks

VARIABLES study,            \* the study file
          build,            \* the benchmark binaries
          journal,          \* the output file
          driver,           \* the running call
          calls, setbacks

experiment == <<study, build, journal, driver, calls, setbacks>>

Absent == [status |-> "absent", study |-> CHOOSE s \in Studies : TRUE,
           identity |-> <<>>, cases |-> <<>>]
Idle == [at |-> [step |-> "none"], dirty |-> FALSE, document |-> Absent]

-----------------------------------------------------------------------------
(* The study *)

Axes(left, right) == DOMAIN left \cup DOMAIN right

\* The axes in which two mappings differ, a missing axis being unset.
MappingDiff(left, right) ==
    {axis \in Axes(left, right) :
        ~ (axis \in DOMAIN left /\ axis \in DOMAIN right /\ left[axis] = right[axis])}

ValidComparison(variants, comparison) ==
    /\ {comparison.baseline, comparison.treatment} \subseteq DOMAIN variants
    /\ comparison.baseline # comparison.treatment
    /\ LET requested == MappingDiff(variants[comparison.baseline],
                                    variants[comparison.treatment]) \ Derived
       IN  requested # {} /\ requested \subseteq comparison.axes

ValidStudy(s) ==
    /\ s.trials >= 1
    /\ s.cases # <<>>
    /\ \A c \in DOMAIN s.cases :
          /\ s.cases[c].comparisons # <<>>
          /\ \A k \in DOMAIN s.cases[c].comparisons :
                ValidComparison(s.cases[c].variants, s.cases[c].comparisons[k])

\* A case's variants are proved correct, then timed trial by trial, then compared.
First == [step |-> "preflight", case |-> 1, trial |-> 0, turn |-> 1]

Following(s, at) ==
    IF at.step \in {"preflight", "measure"} /\ at.turn < Len(s.cases[at.case].order)
    THEN [at EXCEPT !.turn = @ + 1]
    ELSE IF at.step = "preflight" THEN [at EXCEPT !.step = "measure", !.turn = 1]
    ELSE IF at.step = "measure" /\ at.trial + 1 < s.trials
    THEN [at EXCEPT !.trial = @ + 1, !.turn = 1]
    ELSE IF at.step = "measure" THEN [at EXCEPT !.step = "evaluate"]
    ELSE IF at.case < Len(s.cases) THEN [First EXCEPT !.case = at.case + 1]
    ELSE [at EXCEPT !.step = "finish"]

\* Odd trials take the variants in reverse.
Turn(s, at) == LET ids == s.cases[at.case].order
               IN  IF at.trial % 2 = 1 THEN ids[Len(ids) + 1 - at.turn] ELSE ids[at.turn]

-----------------------------------------------------------------------------
(* The journal *)

NoPreflight == [status |-> "none", build |-> 0, gpu |-> 0, mapping |-> <<>>]
Blocked == [status |-> "blocked", pairs |-> {}, baseline |-> <<>>, treatment |-> <<>>]

PreparedDocument(s) ==
    [status |-> "prepared", study |-> s, identity |-> <<>>,
     cases |-> [c \in DOMAIN s.cases |->
                  [preflight |-> [v \in DOMAIN s.cases[c].variants |-> NoPreflight],
                   trials |-> [v \in DOMAIN s.cases[c].variants |-> <<>>],
                   comparisons |-> [k \in DOMAIN s.cases[c].comparisons |-> Blocked],
                   status |-> "pending"]]]

\* A journal of the same study, protocol and commands.
PreparedCompatible(document, s) == document.study = s

\* What a journal is bound to when its first run starts.
RuntimeIdentity(gpu) == <<study, build, gpu>>

Recorded(rows, t) == \E i \in DOMAIN rows : rows[i].trial = t

-----------------------------------------------------------------------------
(* The outcome of a comparison *)

\* A uniform list of boundary records stands for its policy, whatever its length.
ControlMapping(mapping) ==
    [axis \in DOMAIN mapping \ Derived |->
        IF axis \in Boundaries /\ mapping[axis] # <<>>
           /\ \A i \in DOMAIN mapping[axis] : mapping[axis][i] = mapping[axis][1]
        THEN <<mapping[axis][1]>> ELSE mapping[axis]]

\* Both variants proved correct, resolved to mappings that differ in declared
\* axes only, and every trial of either was accepted on both sides.
Verdict(bp, tp, baseline, treatment, axes) ==
    LET diff == MappingDiff(ControlMapping(bp.mapping), ControlMapping(tp.mapping))
        Ran(rows) == {rows[i].trial : i \in DOMAIN rows}
        trials == Ran(baseline) \cup Ran(treatment)
        \* Of rows of the same trial the last one counts.
        Row(rows, t) == rows[CHOOSE i \in DOMAIN rows :
                           /\ rows[i].trial = t
                           /\ \A j \in DOMAIN rows : rows[j].trial = t => j <= i]
        Accepted(rows, t) == t \in Ran(rows) /\ Row(rows, t).status = "measured"
    IN  IF /\ bp.status = "accepted" /\ tp.status = "accepted"
           /\ diff # {} /\ diff \subseteq axes
           /\ trials # {}
           /\ \A t \in trials : Accepted(baseline, t) /\ Accepted(treatment, t)
        THEN [status |-> "measured",
              pairs |-> {<<Row(baseline, t), Row(treatment, t)>> : t \in trials},
              baseline |-> bp.mapping, treatment |-> tp.mapping]
        ELSE Blocked

ComparisonResult(case, comparison) ==
    LET b == comparison.baseline t == comparison.treatment
    IN  Verdict(case.preflight[b], case.preflight[t], case.trials[b], case.trials[t], comparison.axes)

EvaluatedCase(case, comparisons) ==
    LET results == [k \in DOMAIN comparisons |-> ComparisonResult(case, comparisons[k])]
        valid == \A v \in DOMAIN case.preflight : case.preflight[v].status = "accepted" =>
                    \A i \in DOMAIN case.trials[v] : case.trials[v][i].status = "measured"
    IN  [case EXCEPT !.comparisons = results,
                     !.status = IF valid /\ \A k \in DOMAIN results : results[k].status = "measured"
                                THEN "complete" ELSE "complete-with-gaps"]

-----------------------------------------------------------------------------
(* The calls *)

Init == /\ study \in Studies /\ build \in Builds
        /\ journal = Absent /\ driver = Idle
        /\ calls = 0 /\ setbacks = 0

Called == /\ driver.at.step = "none" /\ calls < MaxCalls
          /\ ValidStudy(study)
          /\ calls' = calls + 1

\* --mode prepare: lower the study without a GPU; never over a run's journal.
Prepare(resume) ==
    /\ Called
    /\ \/ journal.status = "absent"
       \/ resume /\ journal.status = "prepared" /\ PreparedCompatible(journal, study)
    /\ journal' = PreparedDocument(study)
    /\ UNCHANGED <<study, build, driver, setbacks>>

Existing == IF journal.status = "absent" THEN PreparedDocument(study) ELSE journal

\* --mode run, up to the first benchmark: the journal must be of this study and,
\* once a run was started, of this build and this GPU.
Start(resume, gpu) ==
    /\ Called
    /\ journal.status \notin {"absent", "prepared"} =>
          resume /\ journal.identity = RuntimeIdentity(gpu)
    /\ journal.status # "absent" => PreparedCompatible(journal, study)
    /\ journal' = [Existing EXCEPT !.identity = RuntimeIdentity(gpu), !.status = "running"]
    /\ driver' = [at |-> First, dirty |-> FALSE, document |-> journal']
    /\ UNCHANGED <<study, build, setbacks>>

Running(step) == ~ driver.dirty /\ driver.at.step = step
CaseNow == driver.document.cases[driver.at.case]
StudyNow == driver.document.study.cases[driver.at.case]

\* A step's effect in memory; the atomic write of the journal follows.
Did(case) == driver' = [driver EXCEPT !.dirty = TRUE, !.document.cases[driver.at.case] = case]

Setback == setbacks < MaxSetbacks /\ setbacks' = setbacks + 1

\* The benchmark ran on the current build and reports what a correctness run found.
PreflightOutcomes(requested) ==
    {[status |-> "accepted", build |-> build, gpu |-> driver.document.identity[3], mapping |-> m] :
        m \in Resolutions[requested]}

PreflightVariant ==
    /\ Running("preflight")
    /\ LET v == Turn(driver.document.study, driver.at)
           Outcome(o) == Did([CaseNow EXCEPT !.preflight[v] = o])
       IN  IF CaseNow.preflight[v].status # "none"
           THEN Did(CaseNow) /\ UNCHANGED setbacks
           ELSE \/ /\ \E o \in PreflightOutcomes(StudyNow.variants[v]) : Outcome(o)
                   /\ UNCHANGED setbacks
                \/ /\ \E status \in {"error", "rejected"} :
                        Outcome([NoPreflight EXCEPT !.status = status])
                   /\ Setback
    /\ UNCHANGED <<study, build, journal, calls>>

\* Mutant: a timed sample is taken whatever program produced it.
TrialOutcomeUnchecked(preflight) == "measured"

\* A timed sample counts only from the program and the mapping proved correct.
TrialOutcome(preflight) == IF build = preflight.build THEN "measured" ELSE "rejected"

MeasureTrial ==
    /\ Running("measure")
    /\ LET v == Turn(driver.document.study, driver.at)
           Result(status) ==
               Did([CaseNow EXCEPT !.trials[v] = Append(@, [trial |-> driver.at.trial, status |-> status,
                        build |-> build, gpu |-> driver.document.identity[3]])])
       IN  IF CaseNow.preflight[v].status # "accepted" \/ Recorded(CaseNow.trials[v], driver.at.trial)
           THEN Did(CaseNow) /\ UNCHANGED setbacks
           ELSE \/ Result(TrialOutcome(CaseNow.preflight[v])) /\ UNCHANGED setbacks
                \/ Setback /\ \E status \in {"error", "rejected"} : Result(status)
    /\ UNCHANGED <<study, build, journal, calls>>

EvaluateCase ==
    /\ Running("evaluate")
    /\ Did(EvaluatedCase(CaseNow, StudyNow.comparisons))
    /\ UNCHANGED <<study, build, journal, calls, setbacks>>

Finish ==
    /\ Running("finish")
    /\ LET done == \A c \in DOMAIN driver.document.cases : driver.document.cases[c].status = "complete"
           status == IF done THEN "complete" ELSE "complete-with-gaps"
       IN  driver' = [driver EXCEPT !.dirty = TRUE, !.document.status = status]
    /\ UNCHANGED <<study, build, journal, calls, setbacks>>

\* The atomic write after a step; the last one ends the call.
AtomicWrite ==
    /\ driver.dirty
    /\ journal' = driver.document
    /\ driver' = IF driver.at.step = "finish" THEN Idle
                 ELSE [driver EXCEPT !.dirty = FALSE, !.at = Following(driver.document.study, @)]
    /\ UNCHANGED <<study, build, calls, setbacks>>

\* Another process on the GPU, before or after a benchmark, or ctrl-C: the
\* sample in flight is discarded and the journal says so.
Interrupted ==
    /\ driver.at.step # "none" /\ Setback
    /\ journal' = [driver.document EXCEPT !.status = "interrupted"]
    /\ driver' = Idle
    /\ UNCHANGED <<study, build, calls>>

Killed ==
    /\ driver.at.step # "none" /\ Setback
    /\ driver' = Idle
    /\ UNCHANGED <<study, build, journal, calls>>

-----------------------------------------------------------------------------
(* The world around the runner *)

\* A rebuild from changed sources: a program no sample came from before.
Rebuild == /\ Setback
           /\ \E b \in Builds : b > build /\ build' = b
           /\ UNCHANGED <<study, journal, driver, calls>>

EditStudy == /\ Setback
             /\ \E s \in Studies \ {study} : study' = s
             /\ UNCHANGED <<build, journal, driver, calls>>

Work == PreflightVariant \/ MeasureTrial \/ EvaluateCase \/ Finish \/ AtomicWrite

Next == \/ \E resume \in BOOLEAN : Prepare(resume) \/ \E gpu \in Gpus : Start(resume, gpu)
        \/ Work \/ Interrupted \/ Killed \/ Rebuild \/ EditStudy

Spec == Init /\ [][Next]_experiment

-----------------------------------------------------------------------------
(* Properties *)

Verdicts == {ck \in UNION {{c} \X DOMAIN journal.cases[c].comparisons : c \in DOMAIN journal.cases} :
                journal.cases[ck[1]].comparisons[ck[2]].status = "measured"}

\* A verdict rests on one program on one GPU: the correctness run of either
\* variant and every timed trial of the comparison come from the same build and
\* the GPU the journal is bound to, however often the runner was killed and
\* resumed and the benchmark rebuilt meanwhile, and the two resolved mappings
\* differ in the declared axes only ("can be resumed without mixing targets or
\* protocols", run_controlled_experiment.py:14).
OneTargetPerVerdict ==
    \A ck \in Verdicts :
        LET case == journal.cases[ck[1]]
            comparison == journal.study.cases[ck[1]].comparisons[ck[2]]
            verdict == case.comparisons[ck[2]]
            sources == {case.preflight[comparison.baseline], case.preflight[comparison.treatment]}
            origins == {<<s.build, s.gpu>> : s \in sources}
                       \cup {<<p[i].build, p[i].gpu>> : p \in verdict.pairs, i \in 1..2}
        IN  /\ Cardinality(origins) = 1
            /\ \A o \in origins : o[2] = journal.identity[3]
            /\ MappingDiff(ControlMapping(verdict.baseline), ControlMapping(verdict.treatment))
                  \subseteq comparison.axes

\* A journal that says complete holds, for every comparison of its study, exactly
\* one accepted pair per trial of the protocol.
CompleteIsPaired ==
    journal.status = "complete" =>
        \A c \in DOMAIN journal.cases : \A k \in DOMAIN journal.cases[c].comparisons :
            LET verdict == journal.cases[c].comparisons[k]
                comparison == journal.study.cases[c].comparisons[k]
            IN  /\ verdict.status = "measured"
                /\ {p[1].trial : p \in verdict.pairs} = 0..(journal.study.trials - 1)
                /\ \A v \in {comparison.baseline, comparison.treatment} :
                      Len(journal.cases[c].trials[v]) = journal.study.trials

\* Nothing a run journalled is lost, replaced or measured a second time by a later
\* call: correctness runs stay as they are, the rows of trials only grow, by trials
\* that had none, and a verdict is the same when it is derived again (the journal
\* is written after every benchmark).
JournalStays ==
    \A c \in DOMAIN journal.cases :
        \A v \in DOMAIN journal.cases[c].preflight :
            LET before == journal.cases[c] after == journal'.cases[c]
            IN  /\ before.preflight[v].status # "none" => after.preflight[v] = before.preflight[v]
                /\ SubSeq(after.trials[v], 1, Len(before.trials[v])) = before.trials[v]
                /\ \A i, j \in DOMAIN after.trials[v] :
                      after.trials[v][i].trial = after.trials[v][j].trial => i = j
                /\ \A k \in DOMAIN before.comparisons : before.comparisons[k].status = "measured" =>
                      after.comparisons[k] = before.comparisons[k]

EvidenceKept == [][JournalStays]_experiment

=============================================================================
