--------------------------- MODULE HardwareTuner ----------------------------
(***************************************************************************)
(* tune_hardware.py: rounds of calibrate_hardware.py with a growing search *)
(* budget, under a time budget that is shared by every invocation.  The    *)
(* rounds are in tuner_state.json, renamed into place.  The installation   *)
(* and its calibration run in a session of their own, which the tuner ends *)
(* when the time is up.  Around them: kills, binaries that are built anew  *)
(* between two invocations, and the promotions of other GPUs.              *)
(***************************************************************************)
EXTENDS HardwareCalibration

CONSTANTS
    BaseBudget, RoundBudget, MaxRounds,
    Watching,         \* whether an invocation waits for a busy GPU: what it may be
    MaxSetbacks,      \* a bound
    PeerCandidates    \* what the other promoters have measured: per promoter

ASSUME TunerAssumption ==
    /\ BaseBudget \in Nat /\ RoundBudget \in Nat \ {0} /\ MaxRounds \in Nat \ {0}
    /\ Watching \subseteq BOOLEAN /\ MaxSetbacks \in Nat

VARIABLES
    tuner,          \* tuner_state.json
    tun,            \* the running invocation
    build,          \* the identity of the installed binaries
    peers,          \* the other promoters that have not promoted yet
    promised        \* the records whose promotion has returned

tunervars == <<tuner, tun, build, peers, promised>>
vars == <<searchvars, registryvars, calvars, migvars, tunervars, setbacks>>

below == <<searchvars, registryvars, calvars, migvars>>

Others == Promoter \ {Promoting}

Init ==
    /\ SearchInit /\ RegistryInit(Empty) /\ CalibrationInit
    /\ \E full \in BOOLEAN : MigrationInit(full)
    /\ tuner = Absent /\ tun = Out
    /\ build = 1
    /\ peers = Others
    /\ setbacks = MaxSetbacks
    /\ promised = {}

SearchBudget(round) == BaseBudget + round * RoundBudget

----------------------------------------------------------------------------
(* The invocation.                                                         *)
NewState == [status |-> "planned", completed |-> 0, next |-> 1, expired |-> FALSE]
Loaded ==
    IF tuner = Absent THEN NewState
    ELSE [tuner EXCEPT !.next = IF @ > tuner.completed THEN @ ELSE tuner.completed + 1]
Finished == {"complete", "complete-with-warning"}

StartTuner ==
    /\ tun = Out
    /\ \/ /\ Loaded.status \in Finished
          /\ tuner' = Loaded /\ UNCHANGED tun
       \/ /\ Loaded.status \notin Finished /\ Loaded.completed >= MaxRounds
          /\ tuner' = [Loaded EXCEPT !.status = "complete-with-warning"] /\ UNCHANGED tun
       \/ /\ Loaded.status \notin Finished /\ Loaded.completed < MaxRounds
          /\ tuner' = Loaded
          /\ \E watch \in Watching :
                tun' = [pc |-> "round", watch |-> watch, late |-> Loaded.expired]
    /\ UNCHANGED <<below, build, peers, promised, setbacks>>

\* The time budget of this and the earlier invocations is used up.
TimePasses ==
    /\ tun # Out /\ ~ tun.late
    /\ tun' = [tun EXCEPT !.late = TRUE]
    /\ Setback
    /\ UNCHANGED <<below, tuner, build, peers, promised>>

Save(status, completed, next) ==
    tuner' = [status |-> status, completed |-> completed, next |-> next, expired |-> tun.late]
Same(status) == Save(status, tuner.completed, tuner.next)

\* No time is left, or the GPU is busy and the invocation does not wait for it.
Pause ==
    /\ tun # Out /\ tun.pc = "round"
    /\ \/ tun.late /\ UNCHANGED setbacks
       \/ ~ tun.late /\ ~ tun.watch /\ "busy" \in Outcomes /\ Setback
    /\ Same("paused") /\ tun' = Out
    /\ UNCHANGED <<below, build, peers, promised>>

OpenRound ==
    /\ tun # Out /\ tun.pc = "round" /\ ~ tun.late
    /\ Same("running") /\ tun' = [tun EXCEPT !.pc = "run"]
    /\ UNCHANGED <<below, build, peers, promised, setbacks>>

RunCalibrator ==
    /\ tun # Out /\ tun.pc = "run"
    /\ StartMigration(SearchBudget(tuner.next))
    /\ tun' = [tun EXCEPT !.pc = "wait"]
    /\ UNCHANGED <<searchvars, registryvars, calvars, tuner, build, peers, promised>>

\* What is left of the session when it is ended: the files.
EndSession ==
    /\ search' = Idle /\ cal' = Out /\ mig' = Out
    /\ AbandonRegistry(Promoting)
    /\ UNCHANGED <<coverage, journal, snapshot, files, migration, results, replay>>

TimedOut ==
    /\ tun # Out /\ tun.pc = "wait" /\ tun.late /\ mig.pc # "exit"
    /\ EndSession
    /\ Same("paused") /\ tun' = Out
    /\ UNCHANGED <<build, peers, promised, setbacks>>

Returned(code) == tun # Out /\ tun.pc = "wait" /\ mig.pc = "exit" /\ mig.code = code
\* Mutant: the finished installation is left behind.
LeftBehind == UNCHANGED <<searchvars, registryvars, calvars, migvars>>

Reaped == mig' = Out /\ UNCHANGED <<searchvars, registryvars, calvars, migration, results, replay>>

ReturnedBusy ==
    /\ Returned(1) /\ mig.cause = "busy"
    /\ Reaped
    /\ IF tun.watch /\ ~ tun.late
       THEN Same("running") /\ tun' = [tun EXCEPT !.pc = "round"]
       ELSE Same("paused") /\ tun' = Out
    /\ UNCHANGED <<build, peers, promised, setbacks>>

ReturnedFailed ==
    /\ Returned(1) /\ mig.cause # "busy"
    /\ Reaped
    /\ Same("failed") /\ tun' = Out
    /\ UNCHANGED <<build, peers, promised, setbacks>>

\* The round counts, whatever its grade; an incomplete one is a warning.
ReturnedGraded ==
    /\ Returned(0)
    /\ Reaped
    /\ LET completed == tuner.completed + 1
       IN IF migration.status = "complete"
          THEN Save("complete", completed, completed + 1) /\ tun' = Out
          ELSE /\ Save("running", completed, completed + 1)
               /\ tun' = [tun EXCEPT !.pc = IF completed >= MaxRounds THEN "close" ELSE "round"]
    /\ UNCHANGED <<build, peers, promised, setbacks>>

CloseTuning ==
    /\ tun # Out /\ tun.pc = "close"
    /\ Same("complete-with-warning") /\ tun' = Out
    /\ UNCHANGED <<below, build, peers, promised, setbacks>>

----------------------------------------------------------------------------
(* The session, and the world around it.                                   *)

\* A step of the session that leaves what the tuner keeps alone.
Session ==
    /\ \/ StartChild(build) /\ UNCHANGED <<searchvars, registryvars>>
       \/ (ChildFailed \/ ChildDone) /\ UNCHANGED <<searchvars, registryvars>>
       \/ (Replay \/ NoteReplay \/ Grade) /\ UNCHANGED <<searchvars, registryvars, calvars>>
       \/ CalibrationStep /\ UNCHANGED <<searchvars, registryvars, migvars>>
       \/ StartSearch /\ UNCHANGED <<registryvars, migvars>>
       \/ SearchStep /\ cal # Out /\ UNCHANGED <<registryvars, calvars, migvars>>
       \/ (SearchReturns \/ SearchRaised) /\ UNCHANGED <<registryvars, migvars>>
       \/ LockRegistry /\ UNCHANGED <<searchvars, migvars>>
    /\ UNCHANGED tunervars

Publish ==
    /\ PublishRegistry
    /\ promised' = promised \cup {id \in DOMAIN document[Promoting] : id[1] = Hardware}
    /\ UNCHANGED <<searchvars, migvars, tuner, tun, build, peers, setbacks>>

\* Somebody kills everything, at any moment.
Kill ==
    /\ tun # Out /\ Setback
    /\ EndSession
    /\ tun' = Out
    /\ UNCHANGED <<tuner, build, peers, promised>>

\* The binaries change while nothing runs.
Rebuild ==
    /\ tun = Out /\ Setback
    /\ build' = build + 1
    /\ UNCHANGED <<below, tuner, tun, peers, promised>>

\* The calibration of another GPU promotes what it has measured, once.
PeerReads(p) ==
    /\ p \in peers /\ peers' = peers \ {p}
    /\ ReadRegistry(p, p, PeerCandidates[p])
    /\ UNCHANGED <<searchvars, calvars, migvars, tuner, tun, build, promised, setbacks>>
PeerWrites(p) ==
    /\ WriteRegistry(p)
    /\ promised' = promised \cup {id \in DOMAIN document[p] : id[1] = p}
    /\ UNCHANGED <<searchvars, calvars, migvars, tuner, tun, build, peers, setbacks>>

Tuning ==
    \/ TimePasses \/ Pause \/ OpenRound \/ RunCalibrator \/ TimedOut
    \/ ReturnedBusy \/ ReturnedFailed \/ ReturnedGraded \/ CloseTuning

Running == Tuning \/ Session \/ Publish

Next ==
    \/ StartTuner \/ Running \/ Kill \/ Rebuild
    \/ \E p \in Others : PeerReads(p) \/ PeerWrites(p)

\* Processes run and time passes, and a promoter that has the lock gets on with it;
\* nobody has to invoke, kill, build or promote.
Spec ==
    /\ Init /\ [][Next]_vars
    /\ WF_vars(Running) /\ WF_vars(\E p \in Others : PeerWrites(p))

----------------------------------------------------------------------------
(* Properties.                                                             *)

Rows == IF journal = Absent THEN Empty ELSE journal

\* The processes and the files fit together: a session has its invocation, a
\* calibration its installation, a search its calibration.
TypeOK ==
    /\ tun = Out => mig = Out
    /\ mig = Out => cal = Out
    /\ cal = Out => search = Idle
    /\ Cardinality(held) <= 1
    /\ Promoting \in held => cal # Out
    /\ tuner # Absent => tuner.completed \in 0..MaxRounds
    /\ setbacks \in 0..MaxSetbacks

\* A workload that the audit on disk calls complete is skipped by every later run, so
\* the journal on disk has everything that was selected for it, and full trials of
\* what it calls measured (run_compiled_search).
CellsBacked ==
    coverage # Absent =>
        \A i \in DOMAIN coverage.cells :
            LET cell == coverage.cells[i]
            IN cell.complete =>
                \A c \in Members(cell.order) :
                    /\ c \in DOMAIN Rows
                    /\ cell.status[c] = "measured" =>
                          ~ Rows[c].correct \/ Rows[c].samples >= Trials

\* What the tuner reports as complete is installed and backed: the registry of this
\* GPU has a mapping of every workload, confirmed by full trials of the binaries whose
\* search the audit describes, and no cell of the audit, complete or not in the tuner's
\* eyes, claims more than the journal has (tune_hardware.main,
\* calibrate_hardware._execution_summary, run_compiled_search).
CompleteIsInstalled ==
    /\ CellsBacked
    /\ (tuner # Absent /\ tuner.status = "complete") =>
          \A w \in Members(Workloads) :
              \E id \in DOMAIN registry :
                  /\ id[1] = Hardware
                  /\ registry[id].work = w /\ registry[id].samples >= Trials

\* Trials that were paid for are not lost: once the audit exists, a row of correct
\* full trials stays in the journal, and only a failing trial takes its correctness
\* (run_compiled_search, save_measurements).
EvidenceKept ==
    [][coverage # Absent =>
        \A c \in DOMAIN Rows :
            (Rows[c].full /\ Rows[c].correct) =>
                /\ c \in DOMAIN Rows'
                /\ \/ Rows'[c].full /\ Rows'[c].samples >= Rows[c].samples
                   \/ ~ Rows'[c].correct]_vars

\* A promotion that has returned is never undone by another (hardware_registry).
PromotionsKept == promised \subseteq DOMAIN registry

\* Every invocation of the tuner comes to an end, and so does its session.
InvocationEnds == (tun # Out) ~> (tun = Out)

=============================================================================
