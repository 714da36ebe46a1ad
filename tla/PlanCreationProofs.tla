------------------------- MODULE PlanCreationProofs -------------------------
(***************************************************************************)
(* What plan creation keeps for any number of processes, threads, keys and *)
(* mappings, whatever is killed or cut.                                    *)
(*                                                                         *)
(* The module cache: a compiler works on a mapping alone, because it holds *)
(* compile.lock from the moment it has looked at the directory until it    *)
(* has published; so what it saw of the directory stays true.  A compiler  *)
(* in nvcc, or about to write its time back, holds the budget file, so the *)
(* number it has read stays the truth.                                     *)
(*                                                                         *)
(* The selection cache: a writer is alone with the file from its lock to   *)
(* its newline, text without a newline is not read, and lines that are     *)
(* there do not change; so the answer for a key is its last complete       *)
(* record, unless a record was joined to a cut one.                        *)
(***************************************************************************)
EXTENDS PlanCreation, TLAPS, SequenceTheorems, WellFoundedInduction

Nobody == Module!Nobody

----------------------------------------------------------------------------
(* What a call and a compiler process are made of.                         *)

CompilerState ==
    {[pc |-> "out"]}
    \cup [pc : {"exited"}, ok : BOOLEAN]
    \cup [pc : {"identified", "locked"}, mapping : Mapping]
    \cup [pc : {"nvcc"}, mapping : Mapping, spent : Nat, limit : Nat]
    \cup [pc : {"charge"}, mapping : Mapping, spent : Nat, build : Nat]
    \cup [pc : {"built", "described"}, mapping : Mapping, build : Nat]

CallerState ==
    {[pc |-> "out"], [pc |-> "thrown"], [pc |-> "dead"]}
    \cup [pc : {"mutex", "compiling", "prepared", "thrown"}, mapping : Mapping]

ModuleTypes ==
    /\ modules \in [Process -> [Mapping -> Nat]]
    /\ caller \in [Client -> CallerState]
    /\ compiler \in [Client -> CompilerState]
    /\ compile_lock \in [Mapping -> Client \cup {Nobody}]
    /\ budget_lock \in Client \cup {Nobody}
    /\ manifest \in [Mapping -> Nat]
    /\ published \in [Mapping -> Nat]
    /\ builds \in Nat /\ spent \in Nat /\ burned \in Nat

\* A compiler has the lock of its mapping while it builds.
Building == {"nvcc", "charge", "built", "described"}
LockHeld ==
    \A c \in Client :
        compiler[c].pc \in Building \cup {"locked"} => compile_lock[compiler[c].mapping] = c

\* Nothing is published of a mapping that is being built.
Unpublished ==
    \A c \in Client : compiler[c].pc \in Building => published[compiler[c].mapping] = 0

\* The manifest describes what is about to be published.
DescribesNext ==
    \A c \in Client :
        compiler[c].pc = "described" => manifest[compiler[c].mapping] = compiler[c].build

BuildInv == LockHeld /\ Unpublished /\ DescribesNext /\ BuildsPublished

\* A thread that has not entered prepare has no compiler.
NoCompiler ==
    \A c \in Client : caller[c].pc \in {"out", "mutex"} => compiler[c].pc = "out"

\* With a budget, nvcc runs and its time is written back under the budget's lock.
Charging == {"nvcc", "charge"}
BudgetHeld ==
    Budget # 0 => \A c \in Client : compiler[c].pc \in Charging => budget_lock = c

\* What a compiler has read or will write, and the file if none is about to write, is
\* the time that was spent; nvcc's limit is within the rest.
SpentTrue ==
    (Budget # 0 /\ ~uncharged) =>
        /\ burned <= Budget
        /\ \A c \in Client :
            /\ compiler[c].pc \in Charging => compiler[c].spent = burned
            /\ compiler[c].pc = "nvcc" => compiler[c].limit \in 1..(Budget - burned)
        /\ (\A c \in Client : compiler[c].pc # "charge") => spent = burned

BudgetInv == NoCompiler /\ BudgetHeld /\ SpentTrue

ModuleInv == ModuleTypes /\ BuildInv /\ BudgetInv

----------------------------------------------------------------------------
(* One compiler moves; the others stay where they are.                     *)
Moves(c, state) == compiler' = [compiler EXCEPT ![c] = state]

LEMMA Moved ==
    ASSUME ModuleTypes, NEW c \in Client, NEW state, state \in CompilerState, Moves(c, state)
    PROVE  /\ compiler' \in [Client -> CompilerState]
           /\ compiler'[c] = state
           /\ \A d \in Client \ {c} : compiler'[d] = compiler[d]
BY DEF ModuleTypes, Moves

\* The locks of the others survive the exit of a compiler.
LEMMA Unlocked ==
    ASSUME ModuleTypes, NEW c \in Client, Module!Unlock(c)
    PROVE  /\ compile_lock' \in [Mapping -> Client \cup {Nobody}]
           /\ budget_lock' \in Client \cup {Nobody}
           /\ \A m \in Mapping : compile_lock[m] # c => compile_lock'[m] = compile_lock[m]
           /\ budget_lock # c => budget_lock' = budget_lock
BY DEF ModuleTypes, Module!Unlock, Nobody

\* What a compiler's state says about its fields.
LEMMA Fields ==
    ASSUME NEW s, s \in CompilerState
    PROVE  /\ s.pc \in {"identified", "locked"} \cup Building => s.mapping \in Mapping
           /\ s.pc \in Charging => s.spent \in Nat
           /\ s.pc = "nvcc" => s.limit \in Nat
           /\ s.pc \in {"charge", "built", "described"} => s.build \in Nat
BY DEF CompilerState, Building, Charging

----------------------------------------------------------------------------
(* The steps of a compiler.                                                *)
LEMMA LockIdentityKeeps ==
    ASSUME ModuleInv, NEW c \in Client, Module!LockIdentity(c) PROVE ModuleInv'
<1>. DEFINE m == compiler[c].mapping
            state == [pc |-> "locked", mapping |-> m]
<1>1. m \in Mapping /\ compiler[c].pc = "identified"
  BY Fields DEF ModuleInv, ModuleTypes, Module!LockIdentity
<1>2. compile_lock[m] = Nobody /\ compile_lock' = [compile_lock EXCEPT ![m] = c]
  BY DEF Module!LockIdentity, Module!Wanted, Nobody
<1>3. Moves(c, state)
  BY DEF Module!LockIdentity, Moves
<1>4. state \in CompilerState /\ state.pc = "locked" /\ state.mapping = m
  BY <1>1 DEF CompilerState
<1>. HIDE DEF m, state
<1>5. /\ compiler' \in [Client -> CompilerState]
      /\ compiler'[c] = state
      /\ \A d \in Client \ {c} : compiler'[d] = compiler[d]
  BY <1>3, <1>4, Moved DEF ModuleInv
<1>6. UNCHANGED <<modules, caller, manifest, published, builds, budget_lock, spent, burned, uncharged>>
  BY DEF Module!LockIdentity, Module!callerVars, Module!cacheVars, Module!budgetVars
<1>7. ModuleTypes'
  BY <1>1, <1>2, <1>5, <1>6 DEF ModuleInv, ModuleTypes
<1>8. LockHeld'
  BY <1>1, <1>2, <1>4, <1>5, ClientAssumption, Fields DEF ModuleInv, ModuleTypes, BuildInv, LockHeld, Nobody
<1>9. Unpublished' /\ DescribesNext'
  BY <1>4, <1>5, <1>6 DEF ModuleInv, BuildInv, Unpublished, DescribesNext, Building
<1>10. BuildsPublished'
  BY <1>6 DEF ModuleInv, BuildInv, BuildsPublished, Module!OneBuild, Module!ManifestDescribes
<1>11. NoCompiler'
  BY <1>1, <1>4, <1>5, <1>6 DEF ModuleInv, BudgetInv, NoCompiler
<1>12. BudgetHeld'
  BY <1>4, <1>5, <1>6 DEF ModuleInv, BudgetInv, BudgetHeld, Charging
<1>13. SpentTrue'
  BY <1>1, <1>4, <1>5, <1>6 DEF ModuleInv, BudgetInv, SpentTrue, Charging
<1>. QED
  BY <1>7, <1>8, <1>9, <1>10, <1>11, <1>12, <1>13 DEF ModuleInv, BuildInv, BudgetInv

\* A compiler that ends gives its locks back.  If it was about to charge the budget,
\* it has not been charged.
LEMMA ExitKeeps ==
    ASSUME ModuleInv, NEW c \in Client, NEW ok \in BOOLEAN,
           compiler[c].pc # "out", Moves(c, Module!Exited(ok)), Module!Unlock(c),
           UNCHANGED <<modules, caller, manifest, published, builds, spent, burned>>,
           ~uncharged' => ~uncharged,
           (Budget # 0 /\ ~uncharged') => compiler[c].pc \notin Charging
    PROVE  ModuleInv'
<1>. DEFINE state == Module!Exited(ok)
<1>1. state \in CompilerState /\ state.pc = "exited"
  BY DEF CompilerState, Module!Exited
<1>2. Moves(c, state)
  OBVIOUS
<1>. HIDE DEF state
<1>3. /\ compiler' \in [Client -> CompilerState]
      /\ compiler'[c] = state
      /\ \A d \in Client \ {c} : compiler'[d] = compiler[d]
  BY <1>1, <1>2, Moved DEF ModuleInv
<1>4. /\ compile_lock' \in [Mapping -> Client \cup {Nobody}]
      /\ budget_lock' \in Client \cup {Nobody}
      /\ \A m \in Mapping : compile_lock[m] # c => compile_lock'[m] = compile_lock[m]
      /\ budget_lock # c => budget_lock' = budget_lock
  BY Unlocked DEF ModuleInv
<1>5. ModuleTypes'
  BY <1>3, <1>4 DEF ModuleInv, ModuleTypes
<1>6. LockHeld'
  <2>. SUFFICES ASSUME NEW d \in Client, compiler'[d].pc \in Building \cup {"locked"}
                PROVE  compile_lock'[compiler'[d].mapping] = d
    BY DEF LockHeld
  <2>1. d # c /\ compiler'[d] = compiler[d]
    BY <1>1, <1>3 DEF Building
  <2>2. compile_lock[compiler[d].mapping] = d /\ compiler[d].mapping \in Mapping
    BY <2>1, Fields DEF ModuleInv, ModuleTypes, BuildInv, LockHeld
  <2>. QED
    BY <1>4, <2>1, <2>2
<1>7. Unpublished' /\ DescribesNext'
  BY <1>1, <1>3 DEF ModuleInv, BuildInv, Unpublished, DescribesNext, Building
<1>8. BuildsPublished'
  BY DEF ModuleInv, BuildInv, BuildsPublished, Module!OneBuild, Module!ManifestDescribes
<1>9. NoCompiler'
  BY <1>1, <1>3 DEF ModuleInv, BudgetInv, NoCompiler
<1>10. BudgetHeld'
  <2>. SUFFICES ASSUME Budget # 0, NEW d \in Client, compiler'[d].pc \in Charging
                PROVE  budget_lock' = d
    BY DEF BudgetHeld
  <2>1. d # c /\ compiler'[d] = compiler[d]
    BY <1>1, <1>3 DEF Charging
  <2>. QED
    BY <1>4, <2>1 DEF ModuleInv, BudgetInv, BudgetHeld
<1>11. SpentTrue'
  <2>. SUFFICES ASSUME Budget # 0, ~uncharged'
                PROVE  /\ burned' <= Budget
                       /\ \A d \in Client :
                            /\ compiler'[d].pc \in Charging => compiler'[d].spent = burned'
                            /\ compiler'[d].pc = "nvcc" => compiler'[d].limit \in 1..(Budget - burned')
                       /\ (\A d \in Client : compiler'[d].pc # "charge") => spent' = burned'
    BY DEF SpentTrue
  <2>1. compiler[c].pc # "charge"
    BY DEF Charging
  <2>. QED
    BY <1>1, <1>3, <2>1 DEF ModuleInv, BudgetInv, SpentTrue, Charging
<1>. QED
  BY <1>5, <1>6, <1>7, <1>8, <1>9, <1>10, <1>11 DEF ModuleInv, BuildInv, BudgetInv

LEMMA CacheHitKeeps ==
    ASSUME ModuleInv, NEW c \in Client, Module!CacheHit(c) PROVE ModuleInv'
<1>1. Moves(c, Module!Exited(TRUE)) /\ Module!Unlock(c) /\ compiler[c].pc = "locked"
  BY DEF Module!CacheHit, Moves
<1>2. UNCHANGED <<modules, caller, manifest, published, builds, spent, burned, uncharged>>
  BY DEF Module!CacheHit, Module!callerVars, Module!cacheVars
<1>. QED
  BY <1>1, <1>2, ExitKeeps DEF Charging

LEMMA KillCompilerKeeps ==
    ASSUME ModuleInv, NEW c \in Client, Module!KillCompiler(c) PROVE ModuleInv'
<1>1. Moves(c, Module!Exited(FALSE)) /\ Module!Unlock(c) /\ compiler[c].pc # "out"
  BY DEF Module!KillCompiler, Module!Running, Moves
<1>2. UNCHANGED <<modules, caller, manifest, published, builds, spent, burned>>
  BY DEF Module!KillCompiler, Module!callerVars, Module!cacheVars
<1>3. ~uncharged' => ~uncharged /\ budget_lock # c
  BY DEF Module!KillCompiler
<1>4. (Budget # 0 /\ ~uncharged') => compiler[c].pc \notin Charging
  BY <1>3 DEF ModuleInv, BudgetInv, BudgetHeld
<1>. QED
  BY <1>1, <1>2, <1>3, <1>4, ExitKeeps

\* The budget is read under its lock, and the limit is what is left of it.
LEMMA LockBudgetKeeps ==
    ASSUME ModuleInv, NEW c \in Client, Module!LockBudget(c) PROVE ModuleInv'
<1>. DEFINE m == compiler[c].mapping
            read == IF Budget = 0 THEN 0 ELSE spent
            limit == IF Budget = 0 \/ (Timeout # 0 /\ Timeout < Budget - spent)
                     THEN Timeout ELSE Budget - spent
            state == [pc |-> "nvcc", mapping |-> m, spent |-> read, limit |-> limit]
<1>1. m \in Mapping /\ compiler[c].pc = "locked" /\ published[m] = 0 /\ compile_lock[m] = c
  BY Fields DEF ModuleInv, ModuleTypes, BuildInv, LockHeld, Module!LockBudget, Module!Cached, Module!Wanted
<1>2. UNCHANGED <<modules, caller, manifest, published, builds, spent, burned, uncharged>>
  BY DEF Module!LockBudget, Module!callerVars, Module!cacheVars
<1>3. spent \in Nat /\ burned \in Nat /\ Budget \in Nat /\ Timeout \in Nat
  BY PlanAssumption DEF ModuleInv, ModuleTypes
<1>4. CASE Budget # 0 /\ spent >= Budget
  <2>1. Moves(c, Module!Exited(FALSE)) /\ Module!Unlock(c)
    BY <1>4 DEF Module!LockBudget, Moves
  <2>. QED
    BY <1>1, <1>2, <2>1, ExitKeeps DEF Charging
<1>5. CASE ~(Budget # 0 /\ spent >= Budget)
  <2>1. /\ Moves(c, state) /\ compile_lock' = compile_lock
        /\ IF Budget = 0 THEN budget_lock' = budget_lock ELSE budget_lock = Nobody /\ budget_lock' = c
    BY <1>5 DEF Module!LockBudget, Module!BudgetFree, Moves, Nobody
  <2>2. limit \in Nat /\ (Budget # 0 => limit \in 1..(Budget - spent))
    BY <1>3, <1>5
  <2>3. /\ state \in CompilerState
        /\ state.pc = "nvcc" /\ state.mapping = m /\ state.spent = read /\ state.limit = limit
    BY <1>1, <1>3, <2>2 DEF CompilerState
  <2>4. Budget # 0 => read = spent
    OBVIOUS
  <2>. HIDE DEF m, read, limit, state
  <2>5. /\ compiler' \in [Client -> CompilerState]
        /\ compiler'[c] = state
        /\ \A d \in Client \ {c} : compiler'[d] = compiler[d]
    BY <2>1, <2>3, Moved DEF ModuleInv
  <2>6. ModuleTypes'
    BY <1>2, <2>1, <2>5 DEF ModuleInv, ModuleTypes
  <2>7. LockHeld' /\ Unpublished' /\ DescribesNext'
    BY <1>1, <1>2, <2>1, <2>3, <2>5 DEF ModuleInv, BuildInv, LockHeld, Unpublished, DescribesNext, Building
  <2>8. BuildsPublished'
    BY <1>2 DEF ModuleInv, BuildInv, BuildsPublished, Module!OneBuild, Module!ManifestDescribes
  <2>9. NoCompiler'
    BY <1>1, <1>2, <2>5 DEF ModuleInv, BudgetInv, NoCompiler
  <2>10. Budget # 0 => \A d \in Client : compiler[d].pc \notin Charging
    BY <2>1, ClientAssumption DEF ModuleInv, BudgetInv, BudgetHeld, Nobody
  <2>11. BudgetHeld'
    BY <2>1, <2>5, <2>10 DEF BudgetHeld
  <2>12. SpentTrue'
    <3>. SUFFICES ASSUME Budget # 0, ~uncharged
                  PROVE  /\ burned <= Budget
                         /\ \A d \in Client :
                              /\ compiler'[d].pc \in Charging => compiler'[d].spent = burned
                              /\ compiler'[d].pc = "nvcc" => compiler'[d].limit \in 1..(Budget - burned)
                         /\ spent = burned
      BY <1>2 DEF SpentTrue
    <3>1. burned <= Budget /\ spent = burned
      BY <2>10 DEF ModuleInv, BudgetInv, SpentTrue, Charging
    <3>2. \A d \in Client \ {c} : compiler'[d].pc \notin Charging
      BY <2>5, <2>10
    <3>. QED
      BY <2>2, <2>3, <2>4, <2>5, <3>1, <3>2 DEF Charging
  <2>. QED
    BY <2>6, <2>7, <2>8, <2>9, <2>11, <2>12 DEF ModuleInv, BuildInv, BudgetInv
<1>. QED
  BY <1>4, <1>5

\* nvcc takes no more time than its limit.
LEMMA NvccKeeps ==
    ASSUME ModuleInv, NEW c \in Client, NEW elapsed \in Nat, NEW build \in Nat,
           Module!NvccEnds(c, elapsed, build),
           (Budget # 0 /\ ~uncharged) => elapsed <= compiler[c].limit
    PROVE  ModuleInv'
<1>. DEFINE m == compiler[c].mapping
            written == compiler[c].spent + elapsed
            state == [pc |-> "charge", mapping |-> m, spent |-> written, build |-> build]
<1>1. compiler[c].pc = "nvcc" /\ m \in Mapping /\ compiler[c].spent \in Nat /\ compiler[c].limit \in Nat
  BY Fields DEF ModuleInv, ModuleTypes, Module!NvccEnds, Building, Charging
<1>2. published[m] = 0 /\ compile_lock[m] = c
  BY <1>1 DEF ModuleInv, BuildInv, LockHeld, Unpublished, Building
<1>3. /\ Moves(c, state)
      /\ burned' = burned + elapsed /\ spent' = (IF Budget = 0 THEN spent ELSE 0)
      /\ builds' = IF build # 0 THEN build ELSE builds
  BY DEF Module!NvccEnds, Moves
<1>4. UNCHANGED <<modules, caller, compile_lock, budget_lock, uncharged, manifest, published>>
  BY DEF Module!NvccEnds, Module!callerVars
<1>5. spent \in Nat /\ burned \in Nat /\ Budget \in Nat /\ builds \in Nat
  BY PlanAssumption DEF ModuleInv, ModuleTypes
<1>6. written \in Nat
  BY <1>1
<1>7. /\ state \in CompilerState
      /\ state.pc = "charge" /\ state.mapping = m /\ state.spent = written
  BY <1>1, <1>6 DEF CompilerState
<1>8. (Budget # 0 /\ ~uncharged) =>
          compiler[c].spent = burned /\ compiler[c].limit \in 1..(Budget - burned) /\ written = burned'
  BY <1>1, <1>3 DEF ModuleInv, BudgetInv, SpentTrue, Charging
<1>. HIDE DEF m, written, state
<1>9. /\ compiler' \in [Client -> CompilerState]
      /\ compiler'[c] = state
      /\ \A d \in Client \ {c} : compiler'[d] = compiler[d]
  BY <1>3, <1>7, Moved DEF ModuleInv
<1>10. ModuleTypes'
  BY <1>3, <1>4, <1>5, <1>9 DEF ModuleInv, ModuleTypes
<1>11. LockHeld' /\ Unpublished' /\ DescribesNext'
  BY <1>2, <1>4, <1>7, <1>9 DEF ModuleInv, BuildInv, LockHeld, Unpublished, DescribesNext, Building
<1>12. BuildsPublished'
  BY <1>4 DEF ModuleInv, BuildInv, BuildsPublished, Module!OneBuild, Module!ManifestDescribes
<1>13. NoCompiler'
  BY <1>1, <1>4, <1>9 DEF ModuleInv, BudgetInv, NoCompiler
<1>14. BudgetHeld'
  BY <1>1, <1>4, <1>9 DEF ModuleInv, BudgetInv, BudgetHeld, Charging
<1>15. SpentTrue'
  <2>. SUFFICES ASSUME Budget # 0, ~uncharged
                PROVE  /\ burned' <= Budget
                       /\ \A d \in Client :
                            /\ compiler'[d].pc \in Charging => compiler'[d].spent = burned'
                            /\ compiler'[d].pc = "nvcc" => compiler'[d].limit \in 1..(Budget - burned')
                       /\ \E d \in Client : compiler'[d].pc = "charge"
    BY <1>4 DEF SpentTrue
  <2>1. burned' <= Budget
    BY <1>3, <1>5, <1>8
  <2>2. \A d \in Client \ {c} : compiler'[d].pc \notin Charging
    BY <1>1, <1>9 DEF ModuleInv, BudgetInv, BudgetHeld, Charging
  <2>. QED
    BY <1>7, <1>8, <1>9, <2>1, <2>2 DEF Charging
<1>. QED
  BY <1>10, <1>11, <1>12, <1>13, <1>14, <1>15 DEF ModuleInv, BuildInv, BudgetInv

LEMMA RunCompilerKeeps ==
    ASSUME ModuleInv, NEW c \in Client, Module!RunCompiler(c) PROVE ModuleInv'
<1>. DEFINE limit == compiler[c].limit
            duration == Duration[compiler[c].mapping]
<1>1. compiler[c].pc = "nvcc" /\ limit \in Nat /\ duration \in Nat /\ builds \in Nat
  BY Fields, PlanAssumption DEF ModuleInv, ModuleTypes, Module!RunCompiler, Building, Charging
<1>2. (Budget # 0 /\ ~uncharged) => limit # 0
  BY <1>1 DEF ModuleInv, BudgetInv, SpentTrue, Charging
<1>3. CASE limit # 0 /\ duration > limit
  <2>1. Module!NvccEnds(c, limit, 0)
    BY <1>3 DEF Module!RunCompiler, Module!Wanted
  <2>. QED
    BY <1>1, <2>1, NvccKeeps
<1>4. CASE ~(limit # 0 /\ duration > limit)
  <2>1. Module!NvccEnds(c, duration, builds + 1)
    BY <1>4 DEF Module!RunCompiler, Module!Wanted
  <2>2. (Budget # 0 /\ ~uncharged) => duration <= limit
    BY <1>1, <1>2, <1>4
  <2>. QED
    BY <1>1, <2>1, <2>2, NvccKeeps
<1>. QED
  BY <1>3, <1>4

LEMMA CompilerErrsKeeps ==
    ASSUME ModuleInv, NEW c \in Client, Module!CompilerErrs(c) PROVE ModuleInv'
<1>1. Module!NvccEnds(c, 1, 0)
  BY DEF Module!CompilerErrs
<1>2. compiler[c].pc = "nvcc" /\ burned \in Nat
  BY <1>1 DEF Module!NvccEnds, ModuleInv, ModuleTypes
<1>3. (Budget # 0 /\ ~uncharged) => 1 <= compiler[c].limit
  BY <1>2, PlanAssumption DEF ModuleInv, BudgetInv, SpentTrue
<1>. QED
  BY <1>1, <1>3, NvccKeeps

\* The time is written back while the file is still locked.
LEMMA ChargeKeeps ==
    ASSUME ModuleInv, NEW c \in Client, Module!Charge(c) PROVE ModuleInv'
<1>. DEFINE m == compiler[c].mapping
            end == IF compiler[c].build = 0 THEN Module!Exited(FALSE)
                   ELSE [pc |-> "built", mapping |-> m, build |-> compiler[c].build]
<1>1. compiler[c].pc = "charge" /\ m \in Mapping /\ compiler[c].spent \in Nat /\ compiler[c].build \in Nat
  BY Fields DEF ModuleInv, ModuleTypes, Module!Charge, Building, Charging
<1>2. published[m] = 0 /\ compile_lock[m] = c
  BY <1>1 DEF ModuleInv, BuildInv, LockHeld, Unpublished, Building
<1>3. Moves(c, end) /\ spent' = (IF Budget = 0 THEN spent ELSE compiler[c].spent)
  BY DEF Module!Charge, Moves
<1>4. UNCHANGED <<modules, caller, burned, uncharged, manifest, published, builds>>
  BY DEF Module!Charge, Module!callerVars, Module!cacheVars
<1>5. /\ compile_lock' \in [Mapping -> Client \cup {Nobody}]
      /\ budget_lock' \in Client \cup {Nobody}
      /\ \A n \in Mapping : compile_lock[n] # c => compile_lock'[n] = compile_lock[n]
      /\ compiler[c].build # 0 => compile_lock' = compile_lock
      /\ budget_lock # c => budget_lock' = budget_lock
  <2>1. CASE compiler[c].build = 0
    BY <2>1, Unlocked DEF Module!Charge, ModuleInv
  <2>2. CASE compiler[c].build # 0
    BY <2>2 DEF Module!Charge, ModuleInv, ModuleTypes, Nobody
  <2>. QED
    BY <2>1, <2>2
<1>6. /\ end \in CompilerState
      /\ end.pc \in {"exited", "built"}
      /\ end.pc = "built" => compiler[c].build # 0 /\ end.mapping = m
  <2>1. CASE compiler[c].build = 0
    BY <2>1 DEF CompilerState, Module!Exited
  <2>2. CASE compiler[c].build # 0
    BY <1>1, <2>2 DEF CompilerState
  <2>. QED
    BY <2>1, <2>2
<1>. HIDE DEF m, end
<1>7. /\ compiler' \in [Client -> CompilerState]
      /\ compiler'[c] = end
      /\ \A d \in Client \ {c} : compiler'[d] = compiler[d]
  BY <1>3, <1>6, Moved DEF ModuleInv
<1>8. ModuleTypes'
  BY <1>1, <1>3, <1>4, <1>5, <1>7 DEF ModuleInv, ModuleTypes
<1>9. LockHeld'
  <2>. SUFFICES ASSUME NEW d \in Client, compiler'[d].pc \in Building \cup {"locked"}
                PROVE  compile_lock'[compiler'[d].mapping] = d
    BY DEF LockHeld
  <2>1. CASE d = c
    BY <1>2, <1>5, <1>6, <1>7, <2>1 DEF Building
  <2>2. CASE d # c
    <3>1. compile_lock[compiler[d].mapping] = d /\ compiler[d].mapping \in Mapping
      BY <1>7, <2>2, Fields DEF ModuleInv, ModuleTypes, BuildInv, LockHeld
    <3>. QED
      BY <1>5, <1>7, <2>2, <3>1
  <2>. QED
    BY <2>1, <2>2
<1>10. Unpublished' /\ DescribesNext'
  BY <1>2, <1>4, <1>6, <1>7 DEF ModuleInv, BuildInv, Unpublished, DescribesNext, Building
<1>11. BuildsPublished'
  BY <1>4 DEF ModuleInv, BuildInv, BuildsPublished, Module!OneBuild, Module!ManifestDescribes
<1>12. NoCompiler'
  BY <1>1, <1>4, <1>7 DEF ModuleInv, BudgetInv, NoCompiler
<1>13. Budget # 0 => \A d \in Client \ {c} : compiler'[d].pc \notin Charging
  BY <1>1, <1>7 DEF ModuleInv, BudgetInv, BudgetHeld, Charging
<1>14. BudgetHeld'
  BY <1>6, <1>7, <1>13 DEF BudgetHeld, Charging
<1>15. SpentTrue'
  <2>. SUFFICES ASSUME Budget # 0, ~uncharged
                PROVE  /\ burned <= Budget /\ spent' = burned
                       /\ \A d \in Client : compiler'[d].pc \notin Charging
    BY <1>4 DEF SpentTrue, Charging
  <2>1. burned <= Budget /\ spent' = burned
    BY <1>1, <1>3 DEF ModuleInv, BudgetInv, SpentTrue, Charging
  <2>. QED
    BY <1>6, <1>7, <1>13, <2>1 DEF Charging
<1>. QED
  BY <1>8, <1>9, <1>10, <1>11, <1>12, <1>14, <1>15 DEF ModuleInv, BuildInv, BudgetInv

\* Only the manifest of an unpublished mapping is written.
LEMMA DescribeKeeps ==
    ASSUME ModuleInv, NEW c \in Client, Module!Describe(c) PROVE ModuleInv'
<1>. DEFINE m == compiler[c].mapping
            build == compiler[c].build
            state == [pc |-> "described", mapping |-> m, build |-> build]
<1>1. compiler[c].pc = "built" /\ m \in Mapping /\ build \in Nat
  BY Fields DEF ModuleInv, ModuleTypes, Module!Describe, Building
<1>2. published[m] = 0 /\ compile_lock[m] = c
  BY <1>1 DEF ModuleInv, BuildInv, LockHeld, Unpublished, Building
<1>3. Moves(c, state) /\ manifest' = [manifest EXCEPT ![m] = build]
  BY DEF Module!Describe, Module!Described, Module!Wanted, Moves
<1>4. UNCHANGED <<modules, caller, compile_lock, budget_lock, spent, burned, uncharged, published, builds>>
  BY DEF Module!Describe, Module!callerVars, Module!budgetVars
<1>5. /\ state \in CompilerState
      /\ state.pc = "described" /\ state.mapping = m /\ state.build = build
  BY <1>1 DEF CompilerState
<1>. HIDE DEF m, build, state
<1>6. /\ compiler' \in [Client -> CompilerState]
      /\ compiler'[c] = state
      /\ \A d \in Client \ {c} : compiler'[d] = compiler[d]
  BY <1>3, <1>5, Moved DEF ModuleInv
<1>7. ModuleTypes'
  BY <1>1, <1>3, <1>4, <1>6 DEF ModuleInv, ModuleTypes
<1>8. LockHeld' /\ Unpublished'
  BY <1>2, <1>4, <1>5, <1>6 DEF ModuleInv, BuildInv, LockHeld, Unpublished, Building
<1>9. DescribesNext'
  <2>. SUFFICES ASSUME NEW d \in Client, compiler'[d].pc = "described"
                PROVE  manifest'[compiler'[d].mapping] = compiler'[d].build
    BY DEF DescribesNext
  <2>1. CASE d = c
    BY <1>1, <1>3, <1>5, <1>6, <2>1 DEF ModuleInv, ModuleTypes
  <2>2. CASE d # c
    <3>1. compiler'[d] = compiler[d] /\ compiler[d].mapping \in Mapping
      BY <1>6, <2>2, Fields DEF ModuleInv, ModuleTypes, Building
    <3>2. compile_lock[compiler[d].mapping] = d
      BY <3>1 DEF ModuleInv, BuildInv, LockHeld, Building
    <3>3. compiler[d].mapping # m
      BY <1>2, <2>2, <3>2
    <3>. QED
      BY <1>3, <3>1, <3>3 DEF ModuleInv, ModuleTypes, BuildInv, DescribesNext
  <2>. QED
    BY <2>1, <2>2
<1>10. BuildsPublished'
  BY <1>1, <1>2, <1>3, <1>4
     DEF ModuleInv, ModuleTypes, BuildInv, BuildsPublished, Module!OneBuild, Module!ManifestDescribes
<1>11. NoCompiler'
  BY <1>1, <1>4, <1>6 DEF ModuleInv, BudgetInv, NoCompiler
<1>12. BudgetHeld' /\ SpentTrue'
  BY <1>1, <1>4, <1>5, <1>6 DEF ModuleInv, BudgetInv, BudgetHeld, SpentTrue, Charging
<1>. QED
  BY <1>7, <1>8, <1>9, <1>10, <1>11, <1>12 DEF ModuleInv, BuildInv, BudgetInv

\* A mapping is published once, with the manifest that describes it, and no process has
\* loaded it before.
LEMMA PublishKeeps ==
    ASSUME ModuleInv, NEW c \in Client, Module!Publish(c) PROVE ModuleInv'
<1>. DEFINE m == compiler[c].mapping
            build == compiler[c].build
            state == Module!Exited(TRUE)
<1>1. compiler[c].pc = "described" /\ m \in Mapping /\ build \in Nat
  BY Fields DEF ModuleInv, ModuleTypes, Module!Publish, Building
<1>2. published[m] = 0 /\ compile_lock[m] = c /\ manifest[m] = build
  BY <1>1 DEF ModuleInv, BuildInv, LockHeld, Unpublished, DescribesNext, Building
<1>3. Moves(c, state) /\ Module!Unlock(c) /\ published' = [published EXCEPT ![m] = build]
  BY DEF Module!Publish, Module!Wanted, Moves
<1>4. UNCHANGED <<modules, caller, manifest, builds, spent, burned, uncharged>>
  BY DEF Module!Publish, Module!callerVars
<1>5. state \in CompilerState /\ state.pc = "exited"
  BY DEF CompilerState, Module!Exited
<1>. HIDE DEF m, build, state
<1>6. /\ compiler' \in [Client -> CompilerState]
      /\ compiler'[c] = state
      /\ \A d \in Client \ {c} : compiler'[d] = compiler[d]
  BY <1>3, <1>5, Moved DEF ModuleInv
<1>7. /\ compile_lock' \in [Mapping -> Client \cup {Nobody}]
      /\ budget_lock' \in Client \cup {Nobody}
      /\ \A n \in Mapping : compile_lock[n] # c => compile_lock'[n] = compile_lock[n]
      /\ budget_lock # c => budget_lock' = budget_lock
  BY <1>3, Unlocked DEF ModuleInv
<1>8. ModuleTypes'
  BY <1>1, <1>3, <1>4, <1>6, <1>7 DEF ModuleInv, ModuleTypes
<1>9. \A d \in Client : compiler'[d].pc \in Building \cup {"locked"} =>
          /\ d # c /\ compiler'[d] = compiler[d]
          /\ compiler[d].mapping \in Mapping \ {m}
          /\ compile_lock[compiler[d].mapping] = d
  <2>. SUFFICES ASSUME NEW d \in Client, compiler'[d].pc \in Building \cup {"locked"}
                PROVE  /\ d # c /\ compiler'[d] = compiler[d]
                       /\ compiler[d].mapping \in Mapping \ {m}
                       /\ compile_lock[compiler[d].mapping] = d
    OBVIOUS
  <2>1. d # c /\ compiler'[d] = compiler[d]
    BY <1>5, <1>6 DEF Building
  <2>2. compile_lock[compiler[d].mapping] = d /\ compiler[d].mapping \in Mapping
    BY <2>1, Fields DEF ModuleInv, ModuleTypes, BuildInv, LockHeld
  <2>. QED
    BY <1>2, <2>1, <2>2
<1>10. LockHeld'
  BY <1>7, <1>9 DEF LockHeld
<1>11. Unpublished' /\ DescribesNext'
  BY <1>3, <1>4, <1>9 DEF ModuleInv, ModuleTypes, BuildInv, Unpublished, DescribesNext, Building
<1>12. BuildsPublished'
  BY <1>1, <1>2, <1>3, <1>4
     DEF ModuleInv, ModuleTypes, BuildInv, BuildsPublished, Module!OneBuild, Module!ManifestDescribes
<1>13. NoCompiler'
  BY <1>1, <1>4, <1>6 DEF ModuleInv, BudgetInv, NoCompiler
<1>14. BudgetHeld'
  BY <1>1, <1>5, <1>6, <1>7 DEF ModuleInv, BudgetInv, BudgetHeld, Charging
<1>15. SpentTrue'
  BY <1>1, <1>4, <1>5, <1>6 DEF ModuleInv, BudgetInv, SpentTrue, Charging
<1>. QED
  BY <1>8, <1>10, <1>11, <1>12, <1>13, <1>14, <1>15 DEF ModuleInv, BuildInv, BudgetInv

----------------------------------------------------------------------------
(* The steps of a thread, and the death of a process.                      *)

\* A step that leaves the compilers and what they share alone.
LEMMA CompilersStay ==
    ASSUME ModuleInv,
           UNCHANGED <<compiler, compile_lock, budget_lock, spent, burned, uncharged,
                       manifest, published, builds>>,
           modules' \in [Process -> [Mapping -> Nat]],
           caller' \in [Client -> CallerState],
           \A c \in Client : caller'[c].pc \in {"out", "mutex"} => caller[c].pc \in {"out", "mutex"},
           \A p \in Process, m \in Mapping : modules'[p][m] \in {0, modules[p][m], published[m]}
    PROVE  ModuleInv'
<1>1. ModuleTypes'
  BY DEF ModuleInv, ModuleTypes
<1>2. LockHeld' /\ Unpublished' /\ DescribesNext'
  BY DEF ModuleInv, BuildInv, LockHeld, Unpublished, DescribesNext
<1>3. BuildsPublished'
  BY DEF ModuleInv, BuildInv, BuildsPublished, Module!OneBuild, Module!ManifestDescribes
<1>4. NoCompiler' /\ BudgetHeld' /\ SpentTrue'
  BY DEF ModuleInv, BudgetInv, NoCompiler, BudgetHeld, SpentTrue
<1>. QED
  BY <1>1, <1>2, <1>3, <1>4 DEF ModuleInv, BuildInv, BudgetInv

LEMMA PrepareKeeps ==
    ASSUME ModuleInv, NEW c \in Client, NEW m \in Mapping, Module!Prepare(c, m) PROVE ModuleInv'
<1>1. [pc |-> "mutex", mapping |-> m] \in CallerState
  BY DEF CallerState
<1>2. caller' \in [Client -> CallerState]
  BY <1>1 DEF Module!Prepare, ModuleInv, ModuleTypes
<1>3. \A d \in Client : caller'[d].pc \in {"out", "mutex"} => caller[d].pc \in {"out", "mutex"}
  BY DEF Module!Prepare, Module!Out, ModuleInv, ModuleTypes
<1>4. UNCHANGED <<modules, compiler, compile_lock, budget_lock, spent, burned, uncharged,
                  manifest, published, builds>>
  BY DEF Module!Prepare, Module!budgetVars, Module!cacheVars
<1>. QED
  BY <1>2, <1>3, <1>4, CompilersStay DEF ModuleInv, ModuleTypes

LEMMA LoadKeeps ==
    ASSUME ModuleInv, NEW c \in Client, Module!Load(c) PROVE ModuleInv'
<1>. DEFINE p == ProcessOf[c]
            m == caller[c].mapping
            loaded == compiler[c].ok /\ m \notin Oversized
            state == [pc |-> IF loaded THEN "prepared" ELSE "thrown", mapping |-> m]
<1>. caller[c].pc = "compiling"
  BY Zenon DEF Module!Load
<1>1. m \in Mapping /\ p \in Process
  BY PlanAssumption DEF ModuleInv, ModuleTypes, CallerState
<1>2. state \in CallerState /\ state.pc \in {"prepared", "thrown"}
  BY <1>1 DEF CallerState
<1>3. /\ caller' = [caller EXCEPT ![c] = state]
      /\ modules' = IF loaded THEN [modules EXCEPT ![p][m] = published[m]] ELSE modules
  BY Zenon DEF Module!Load
<1>. HIDE DEF p, m, loaded, state
<1>4. caller' \in [Client -> CallerState]
  BY <1>2, <1>3 DEF ModuleInv, ModuleTypes
<1>5. \A d \in Client : caller'[d].pc \in {"out", "mutex"} => caller[d].pc \in {"out", "mutex"}
  BY <1>2, <1>3 DEF ModuleInv, ModuleTypes
<1>6. UNCHANGED <<compiler, compile_lock, budget_lock, spent, burned, uncharged, manifest, published, builds>>
  BY DEF Module!Load, Module!budgetVars, Module!cacheVars
<1>7. /\ modules' \in [Process -> [Mapping -> Nat]]
      /\ \A q \in Process, n \in Mapping : modules'[q][n] \in {0, modules[q][n], published[n]}
  <2>1. CASE modules' = modules
    BY <2>1 DEF ModuleInv, ModuleTypes
  <2>2. CASE modules' = [modules EXCEPT ![p][m] = published[m]]
    BY <1>1, <2>2 DEF ModuleInv, ModuleTypes
  <2>. QED
    BY <1>3, <2>1, <2>2
<1>. QED
  BY <1>4, <1>5, <1>6, <1>7, CompilersStay

LEMMA KillClientsKeeps ==
    ASSUME ModuleInv, NEW clients, Module!KillClients(clients) PROVE ModuleInv'
<1>1. [pc |-> "dead"] \in CallerState
  BY DEF CallerState
<1>2. /\ caller' \in [Client -> CallerState]
      /\ \A d \in Client : caller'[d].pc \in {"out", "mutex"} => caller[d].pc \in {"out", "mutex"}
  BY <1>1 DEF Module!KillClients, ModuleInv, ModuleTypes
<1>3. /\ modules' \in [Process -> [Mapping -> Nat]]
      /\ \A q \in Process, n \in Mapping : modules'[q][n] \in {0, modules[q][n], published[n]}
  BY DEF Module!KillClients, ModuleInv, ModuleTypes
<1>4. UNCHANGED <<compiler, compile_lock, budget_lock, spent, burned, uncharged, manifest, published, builds>>
  BY DEF Module!KillClients, Module!budgetVars, Module!cacheVars
<1>. QED
  BY <1>2, <1>3, <1>4, CompilersStay

\* A thread starts a compiler only where it has none.
LEMMA EnterKeeps ==
    ASSUME ModuleInv, NEW c \in Client, Module!Enter(c) PROVE ModuleInv'
<1>. DEFINE m == caller[c].mapping
            state == [pc |-> "identified", mapping |-> m]
            prepared == [pc |-> "prepared", mapping |-> m]
            compiling == [pc |-> "compiling", mapping |-> m]
<1>1. m \in Mapping /\ compiler[c].pc = "out"
  BY DEF ModuleInv, ModuleTypes, CallerState, BudgetInv, NoCompiler, Module!Enter
<1>2. prepared \in CallerState /\ compiling \in CallerState
  BY <1>1 DEF CallerState
<1>3. prepared.pc = "prepared" /\ compiling.pc = "compiling"
  OBVIOUS
<1>4. state \in CompilerState /\ state.pc = "identified"
  BY <1>1 DEF CompilerState
<1>5. UNCHANGED <<modules, compile_lock, budget_lock, spent, burned, uncharged, manifest, published, builds>>
  BY DEF Module!Enter, Module!budgetVars, Module!cacheVars
<1>6. \/ caller' = [caller EXCEPT ![c] = prepared] /\ compiler' = compiler
      \/ caller' = [caller EXCEPT ![c] = compiling] /\ Moves(c, state)
  BY DEF Module!Enter, Moves
<1>. HIDE DEF m, state, prepared, compiling
<1>7. /\ caller' \in [Client -> CallerState]
      /\ caller'[c].pc \notin {"out", "mutex"}
      /\ \A d \in Client \ {c} : caller'[d] = caller[d]
  BY <1>2, <1>3, <1>6 DEF ModuleInv, ModuleTypes
<1>8. CASE compiler' = compiler
  BY <1>5, <1>7, <1>8, CompilersStay DEF ModuleInv, ModuleTypes
<1>9. CASE Moves(c, state)
  <2>1. /\ compiler' \in [Client -> CompilerState]
        /\ compiler'[c] = state
        /\ \A d \in Client \ {c} : compiler'[d] = compiler[d]
    BY <1>4, <1>9, Moved DEF ModuleInv
  <2>2. ModuleTypes'
    BY <1>5, <1>7, <2>1 DEF ModuleInv, ModuleTypes
  <2>3. LockHeld' /\ Unpublished' /\ DescribesNext'
    BY <1>4, <1>5, <2>1 DEF ModuleInv, BuildInv, LockHeld, Unpublished, DescribesNext, Building
  <2>4. BuildsPublished'
    BY <1>5 DEF ModuleInv, BuildInv, BuildsPublished, Module!OneBuild, Module!ManifestDescribes
  <2>5. NoCompiler'
    BY <1>7, <2>1 DEF ModuleInv, BudgetInv, NoCompiler
  <2>6. BudgetHeld' /\ SpentTrue'
    BY <1>1, <1>4, <1>5, <2>1 DEF ModuleInv, BudgetInv, BudgetHeld, SpentTrue, Charging
  <2>. QED
    BY <2>2, <2>3, <2>4, <2>5, <2>6 DEF ModuleInv, BuildInv, BudgetInv
<1>. QED
  BY <1>6, <1>8, <1>9

----------------------------------------------------------------------------
(* What a creation has selected is a mapping.                              *)
Looking == {"open", "shared", "read"}
Storing == {"create", "exclusive", "write", "flush", "written", "stored", "thrown"}

SelectState(s) ==
    \/ s \in {[pc |-> "out"], [pc |-> "dead"]}
    \/ s \in [pc : Looking, key : Key]
    \/ \E k \in Key : \E match : s = [pc |-> "found", key |-> k, match |-> match]
    \/ s \in [pc : Storing, key : Key, algorithm : Mapping]

SelectionInv ==
    /\ select = [c \in Client |-> select[c]]
    /\ \A c \in Client : SelectState(select[c])

Selects(c, state) == select' = [select EXCEPT ![c] = state]

LEMMA SelectKeeps ==
    ASSUME SelectionInv, NEW c \in Client, NEW state, SelectState(state), Selects(c, state)
    PROVE  SelectionInv'
BY DEF SelectionInv, Selects

\* A lookup, or a store, that goes on.
LEMMA LookupGoesOn ==
    ASSUME NEW s \in [pc : Looking, key : Key], NEW pc \in Looking
    PROVE  SelectState([s EXCEPT !.pc = pc])
<1>1. [s EXCEPT !.pc = pc] \in [pc : Looking, key : Key]
  BY Zenon
<1>. QED
  BY <1>1, Zenon DEF SelectState

LEMMA StoreGoesOn ==
    ASSUME NEW s \in [pc : Storing, key : Key, algorithm : Mapping], NEW pc \in Storing
    PROVE  SelectState([s EXCEPT !.pc = pc])
<1>1. [s EXCEPT !.pc = pc] \in [pc : Storing, key : Key, algorithm : Mapping]
  BY Zenon
<1>. QED
  BY <1>1, Zenon DEF SelectState

LEMMA LookupSteps ==
    ASSUME SelectionInv, NEW c \in Client,
           \/ Selection!LookupOpen(c)
           \/ Selection!LookupLock(c)
    PROVE  SelectionInv'
<1>1. select[c].pc \in Looking
  BY DEF Selection!LookupOpen, Selection!LookupLock, Looking
<1>2. select[c] \in [pc : Looking, key : Key]
  BY <1>1 DEF SelectionInv, SelectState, Looking, Storing
<1>3. \E pc \in Looking : Selects(c, [select[c] EXCEPT !.pc = pc])
  BY Zenon DEF Selection!LookupOpen, Selection!LookupLock, Looking, Selects
<1>. QED
  BY <1>2, <1>3, LookupGoesOn, SelectKeeps, Zenon

LEMMA ReadStep ==
    ASSUME SelectionInv, NEW c \in Client, Selection!LookupRead(c) PROVE SelectionInv'
<1>. DEFINE key == select[c].key
            match == Selection!Match(key)
            state == [pc |-> "found", key |-> key, match |-> match]
<1>1. select[c].pc = "read" /\ Selects(c, state)
  BY DEF Selection!LookupRead, Selects
<1>2. key \in Key
  BY <1>1 DEF SelectionInv, SelectState, Storing
<1>3. SelectState(state)
  BY <1>2 DEF SelectState
<1>. HIDE DEF state
<1>. QED
  BY <1>1, <1>3, SelectKeeps

LEMMA StoreSteps ==
    ASSUME SelectionInv, NEW c \in Client,
           \/ Selection!StoreOpen(c) \/ Selection!StoreLock(c) \/ Selection!StoreWrite(c)
           \/ Selection!StoreWriteText(c) \/ Selection!StoreFlush(c)
           \/ Selection!StoreUnlock(c) \/ Selection!StoreTorn(c)
    PROVE  SelectionInv'
<1>1. /\ select[c].pc \in Storing
      /\ \E pc \in Storing : Selects(c, [select[c] EXCEPT !.pc = pc])
  <2>1. CASE Selection!StoreOpen(c)
    BY <2>1, Zenon DEF Selection!StoreOpen, Storing, Selects
  <2>2. CASE Selection!StoreLock(c)
    BY <2>2, Zenon DEF Selection!StoreLock, Storing, Selects
  <2>3. CASE Selection!StoreWrite(c)
    BY <2>3, Zenon DEF Selection!StoreWrite, Storing, Selects
  <2>4. CASE Selection!StoreWriteText(c)
    BY <2>4, Zenon DEF Selection!StoreWriteText, Storing, Selects
  <2>5. CASE Selection!StoreFlush(c)
    BY <2>5, Zenon DEF Selection!StoreFlush, Storing, Selects
  <2>6. CASE Selection!StoreUnlock(c)
    BY <2>6, Zenon DEF Selection!StoreUnlock, Storing, Selects
  <2>7. CASE Selection!StoreTorn(c)
    BY <2>7, Zenon DEF Selection!StoreTorn, Storing, Selects
  <2>. QED
    BY <2>1, <2>2, <2>3, <2>4, <2>5, <2>6, <2>7
<1>2. select[c] \in [pc : Storing, key : Key, algorithm : Mapping]
  BY <1>1 DEF SelectionInv, SelectState, Looking, Storing
<1>. QED
  BY <1>1, <1>2, StoreGoesOn, SelectKeeps, Zenon

LEMMA SelectionStepKeeps ==
    ASSUME SelectionInv, NEW c \in Client, Selection!Step(c) PROVE SelectionInv'
BY LookupSteps, ReadStep, StoreSteps DEF Selection!Step

LEMMA CreateKeeps ==
    ASSUME SelectionInv, NEW c \in Client, CreatePlan(c) PROVE SelectionInv'
<1>1. PICK k \in Key : \/ Selection!BeginLookup(c, k)
                       \/ \E m \in Tuned[c] : Selection!BeginStore(c, k, m)
  BY DEF CreatePlan
<1>2. CASE Selection!BeginLookup(c, k)
  <2>1. Selects(c, [pc |-> "open", key |-> k])
    BY <1>2 DEF Selection!BeginLookup, Selects
  <2>2. SelectState([pc |-> "open", key |-> k])
    BY DEF SelectState, Looking
  <2>. QED
    BY <2>1, <2>2, SelectKeeps
<1>3. CASE \E m \in Tuned[c] : Selection!BeginStore(c, k, m)
  <2>1. PICK m \in Tuned[c] : Selection!BeginStore(c, k, m)
    BY <1>3
  <2>2. m \in Mapping
    BY PlanAssumption
  <2>3. Selects(c, [pc |-> "create", key |-> k, algorithm |-> m])
    BY <2>1 DEF Selection!BeginStore, Selects
  <2>4. SelectState([pc |-> "create", key |-> k, algorithm |-> m])
    BY <2>2 DEF SelectState, Storing
  <2>. QED
    BY <2>3, <2>4, SelectKeeps
<1>. QED
  BY <1>1, <1>2, <1>3

LEMMA KillSelectionKeeps ==
    ASSUME SelectionInv, NEW clients, NEW inheritors, Selection!Kill(clients, inheritors)
    PROVE  SelectionInv'
<1>1. SelectState([pc |-> "dead"])
  BY DEF SelectState
<1>. QED
  BY <1>1 DEF SelectionInv, Selection!Kill

\* The constructor is asked for a mapping.
LEMMA SelectedMapping ==
    ASSUME SelectionInv, NEW c \in Client, select[c].pc \in {"found", "stored"}, Selected(c) # << >>
    PROVE  Selected(c)[1] \in Mapping
<1>1. CASE select[c].pc = "stored"
  <2>1. select[c].algorithm \in Mapping
    BY <1>1 DEF SelectionInv, SelectState, Looking, Storing
  <2>. QED
    BY <1>1, <2>1 DEF Selected
<1>2. CASE select[c].pc = "found"
  <2>1. Static[select[c].key] \in Mapping
    BY <1>2, PlanAssumption DEF SelectionInv, SelectState, Looking, Storing
  <2>. QED
    BY <1>2, <2>1 DEF Selected
<1>. QED
  BY <1>1, <1>2

----------------------------------------------------------------------------
(* The composition.                                                        *)
PlanInv == ModuleInv /\ SelectionInv

LEMMA Stays ==
    ASSUME ModuleInv, UNCHANGED mvars PROVE ModuleInv'
<1>1. UNCHANGED <<compiler, compile_lock, budget_lock, spent, burned, uncharged,
                  manifest, published, builds, modules, caller>>
  BY DEF mvars
<1>. QED
  BY <1>1, CompilersStay DEF ModuleInv, ModuleTypes

LEMMA SelectionStays ==
    ASSUME SelectionInv, UNCHANGED select PROVE SelectionInv'
BY DEF SelectionInv

LEMMA CompilerStepKeeps ==
    ASSUME ModuleInv, NEW c \in Client, Module!CompilerStep(c) PROVE ModuleInv'
BY LockIdentityKeeps, CacheHitKeeps, LockBudgetKeeps, RunCompilerKeeps, ChargeKeeps, DescribeKeeps,
   PublishKeeps DEF Module!CompilerStep

LEMMA SelectionFailsKeeps ==
    ASSUME ModuleInv, NEW c \in Client, SelectionFails(c) PROVE ModuleInv'
<1>1. [pc |-> "thrown"] \in CallerState
  BY DEF CallerState
<1>2. /\ caller' \in [Client -> CallerState]
      /\ \A d \in Client : caller'[d].pc \in {"out", "mutex"} => caller[d].pc \in {"out", "mutex"}
  BY <1>1 DEF SelectionFails, ModuleInv, ModuleTypes
<1>3. UNCHANGED <<modules, compiler, compile_lock, budget_lock, spent, burned, uncharged,
                  manifest, published, builds>>
  BY DEF SelectionFails
<1>. QED
  BY <1>2, <1>3, CompilersStay DEF ModuleInv, ModuleTypes

LEMMA StepKeeps == ASSUME PlanInv, [Next]_pvars PROVE PlanInv'
<1>. USE DEF PlanInv
<1>1. ASSUME NEW c \in Client, CreatePlan(c) PROVE PlanInv'
  BY <1>1, CreateKeeps, Stays DEF CreatePlan
<1>2. ASSUME NEW c \in Client, SelectionStep(c) PROVE PlanInv'
  BY <1>2, SelectionStepKeeps, Stays DEF SelectionStep
<1>3. ASSUME NEW c \in Client, PreparePlan(c) PROVE PlanInv'
  <2>1. select' = select
    BY <1>3 DEF PreparePlan, svars
  <2>2. Selected(c)[1] \in Mapping /\ Module!Prepare(c, Selected(c)[1])
    BY <1>3, SelectedMapping DEF PreparePlan
  <2>. QED
    BY <2>1, <2>2, PrepareKeeps, SelectionStays
<1>4. ASSUME NEW c \in Client, SelectionFails(c) PROVE PlanInv'
  <2>1. select' = select
    BY <1>4 DEF SelectionFails, svars
  <2>. QED
    BY <1>4, <2>1, SelectionFailsKeeps, SelectionStays
<1>5. ASSUME NEW c \in Client, PrepareStep(c) PROVE PlanInv'
  <2>1. select' = select
    BY <1>5 DEF PrepareStep, svars
  <2>2. Module!Enter(c) \/ Module!Load(c)
    BY <1>5 DEF PrepareStep
  <2>. QED
    BY <2>1, <2>2, EnterKeeps, LoadKeeps, SelectionStays
<1>6. ASSUME NEW c \in Client, CompilerStep(c) PROVE PlanInv'
  <2>1. select' = select /\ Module!CompilerStep(c)
    BY <1>6 DEF CompilerStep
  <2>. QED
    BY <2>1, CompilerStepKeeps, SelectionStays
<1>7. ASSUME NEW c \in Client, StoreTorn(c) PROVE PlanInv'
  BY <1>7, StoreSteps, Stays DEF StoreTorn
<1>8. ASSUME NEW c \in Client, CompilerErrs(c) PROVE PlanInv'
  <2>1. select' = select /\ Module!CompilerErrs(c)
    BY <1>8 DEF CompilerErrs, svars
  <2>. QED
    BY <2>1, CompilerErrsKeeps, SelectionStays
<1>9. ASSUME NEW c \in Client, KillCompiler(c) PROVE PlanInv'
  <2>1. select' = select /\ Module!KillCompiler(c)
    BY <1>9 DEF KillCompiler
  <2>. QED
    BY <2>1, KillCompilerKeeps, SelectionStays
<1>10. ASSUME NEW p \in Process, KillProcess(p) PROVE PlanInv'
  BY <1>10, KillSelectionKeeps, KillClientsKeeps DEF KillProcess
<1>11. CASE UNCHANGED pvars
  BY <1>11, Stays, SelectionStays DEF pvars, svars
<1>. QED
  BY <1>1, <1>2, <1>3, <1>4, <1>5, <1>6, <1>7, <1>8, <1>9, <1>10, <1>11
     DEF Next, CreationStep, Finished

LEMMA InitInv == Init => PlanInv
<1>. SUFFICES ASSUME Init PROVE PlanInv
  OBVIOUS
<1>1. /\ modules = [p \in Process |-> [m \in Mapping |-> 0]]
      /\ caller = [c \in Client |-> [pc |-> "out"]]
      /\ compiler = [c \in Client |-> [pc |-> "out"]]
      /\ compile_lock = [m \in Mapping |-> Nobody] /\ budget_lock = Nobody
      /\ spent = 0 /\ burned = 0 /\ builds = 0
      /\ manifest = [m \in Mapping |-> 0] /\ published = [m \in Mapping |-> 0]
  BY DEF Init, Module!Init, Module!Out, Nobody
<1>2. ModuleTypes
  BY <1>1 DEF ModuleTypes, CallerState, CompilerState
<1>3. BuildInv
  BY <1>1 DEF BuildInv, LockHeld, Unpublished, DescribesNext, BuildsPublished, Building,
              Module!OneBuild, Module!ManifestDescribes
<1>4. BudgetInv
  BY <1>1, PlanAssumption DEF BudgetInv, NoCompiler, BudgetHeld, SpentTrue, Charging
<1>5. SelectionInv
  BY DEF Init, Selection!Init, Selection!Out, SelectionInv, SelectState
<1>. QED
  BY <1>2, <1>3, <1>4, <1>5 DEF PlanInv, ModuleInv

----------------------------------------------------------------------------

\* All processes run the one published build of a mapping and its manifest describes it,
\* for any number of processes and threads, whatever is killed and whenever
\* (jit_module.cpp, compile_module.compile_mapping).
THEOREM BuildsCorrect == Spec => []BuildsPublished
<1>1. PlanInv /\ [Next]_pvars => PlanInv'
  BY StepKeeps
<1>2. PlanInv => BuildsPublished
  BY DEF PlanInv, ModuleInv, BuildInv
<1>. QED
  BY InitInv, <1>1, <1>2, PTL DEF Spec

\* The compilers of all processes together keep to the budget of the installation, for
\* any duration of nvcc, as long as none dies with the budget file in its hands
\* (compile_module.compilation_budget).
THEOREM BudgetCorrect == Spec => []BudgetKept
<1>1. PlanInv /\ [Next]_pvars => PlanInv'
  BY StepKeeps
<1>2. PlanInv => BudgetKept
  BY DEF PlanInv, ModuleInv, BudgetInv, SpentTrue, BudgetKept, Module!BudgetKept
<1>. QED
  BY InitInv, <1>1, <1>2, PTL DEF Spec

----------------------------------------------------------------------------
(* The cache file as a sequence of tokens.                                 *)

Token == Key \cup Mapping \cup {Tab, Newline} \cup { Selection!Part(t) : t \in Key \cup Mapping }

\* Where the complete lines of a file end, the line that ends before a position, and
\* what a lookup finds in it.
Ends(f) == { i \in DOMAIN f : f[i] = Newline }
StartOf(f, e) ==
    LET starts == { i \in Ends(f) : i < e } \cup {0}
    IN  CHOOSE s \in starts : \A i \in starts : i <= s
LineOf(f, e) == SubSeq(f, 1 + StartOf(f, e), e - 1)
EndsOf(f, k) == { e \in Ends(f) : Selection!IsRecordOf(k, LineOf(f, e)) }
LastOf(E) == CHOOSE e \in E : \A i \in E : i <= e
AnswerOf(f, k) ==
    IF EndsOf(f, k) = {} THEN << >>
    ELSE SubSeq(LineOf(f, LastOf(EndsOf(f, k))), 3, Len(LineOf(f, LastOf(EndsOf(f, k)))))
JoinedIn(f) ==
    \E e \in Ends(f) : LineOf(f, e) \notin { <<k, Tab, a>> : k \in Key, a \in Mapping }

LEMMA CacheOperators ==
    /\ \A k : Selection!Match(k) = AnswerOf(file, k)
    /\ Selection!Joined = JoinedIn(file)
<1>1. \A e : Selection!LineBefore(e) = LineOf(file, e)
  BY DEF Selection!LineBefore, Selection!Newlines, LineOf, StartOf, Ends
<1>2. Selection!LineEnds = Ends(file) /\ Selection!Newlines = Ends(file)
  BY DEF Selection!LineEnds, Selection!Newlines, Ends
<1>3. \A k : Selection!Match(k) = AnswerOf(file, k)
  BY DEF Selection!Match, Selection!LineEnds, Selection!LineBefore, Selection!Newlines,
         AnswerOf, EndsOf, LastOf, LineOf, StartOf, Ends
<1>4. Selection!Joined = JoinedIn(file)
  BY <1>1, <1>2 DEF Selection!Joined, JoinedIn
<1>. QED
  BY <1>3, <1>4

\* A bounded set of positions has a last one, and only one.
LEMMA LastExists ==
    ASSUME NEW n \in Nat, NEW E, E \subseteq 0 .. n, E # {}
    PROVE  LastOf(E) \in E /\ \A i \in E : i <= LastOf(E)
<1>. DEFINE T == { n - i : i \in E }
<1>1. T \subseteq Nat /\ T # {}
  <2>1. \A i \in E : n - i \in Nat
    OBVIOUS
  <2>2. PICK i \in E : TRUE
    OBVIOUS
  <2>3. n - i \in T
    OBVIOUS
  <2>. QED
    BY <2>1, <2>3
<1>. DEFINE Less == OpToRel(<, Nat)
<1>8. \A x, y \in Nat : x < y => <<x, y>> \in Less
  BY DEF OpToRel
<1>2. IsWellFoundedOn(Less, Nat)
  BY NatLessThanWellFounded
<1>. HIDE DEF T, Less
<1>9. PICK x \in T : \A y \in T : <<y, x>> \notin Less
  BY <1>1, <1>2, WFMin
<1>3. \A y \in T : ~(y < x)
  BY <1>1, <1>8, <1>9
<1>4. PICK e \in E : x = n - e
  BY <1>9 DEF T
<1>5. \A i \in E : i <= e
  <2>. TAKE i \in E
  <2>1. n - i \in T
    BY DEF T
  <2>2. ~(n - i < n - e)
    BY <1>3, <1>4, <2>1
  <2>3. i \in Nat /\ e \in Nat
    OBVIOUS
  <2>. QED
    BY <2>2, <2>3
<1>. QED
  BY <1>5 DEF LastOf

LEMMA LastUnique ==
    ASSUME NEW E, E \subseteq Nat, NEW e \in E, \A i \in E : i <= e
    PROVE  LastOf(E) = e
<1>1. LastOf(E) \in E /\ \A i \in E : i <= LastOf(E)
  BY DEF LastOf
<1>2. e <= LastOf(E) /\ LastOf(E) <= e /\ e \in Nat /\ LastOf(E) \in Nat
  BY <1>1
<1>. QED
  BY <1>2

LEMMA StartFacts ==
    ASSUME NEW f \in Seq(Token), NEW e \in Nat
    PROVE  /\ StartOf(f, e) \in 0 .. Len(f)
           /\ StartOf(f, e) = 0 \/ (StartOf(f, e) \in Ends(f) /\ StartOf(f, e) < e)
           /\ \A i \in Ends(f) : i < e => i <= StartOf(f, e)
<1>. DEFINE starts == { i \in Ends(f) : i < e } \cup {0}
<1>0. Len(f) \in Nat /\ DOMAIN f = 1 .. Len(f)
  BY LenProperties
<1>1. starts \subseteq 0 .. Len(f) /\ starts # {}
  <2>1. Ends(f) \subseteq 1 .. Len(f)
    BY <1>0 DEF Ends
  <2>. QED
    BY <1>0, <2>1
<1>2. StartOf(f, e) = LastOf(starts)
  BY DEF StartOf, LastOf
<1>. HIDE DEF starts
<1>3. LastOf(starts) \in starts /\ \A i \in starts : i <= LastOf(starts)
  BY <1>0, <1>1, LastExists
<1>. QED
  BY <1>1, <1>2, <1>3 DEF starts

LEMMA LineFacts ==
    ASSUME NEW f \in Seq(Token), NEW e \in 1 .. Len(f) + 1
    PROVE  /\ LineOf(f, e) \in Seq(Token)
           /\ Len(LineOf(f, e)) = e - 1 - StartOf(f, e)
           /\ \A i \in 1 .. e - 1 - StartOf(f, e) : LineOf(f, e)[i] = f[StartOf(f, e) + i]
<1>. DEFINE s == StartOf(f, e)
<1>1. s \in 0 .. e - 1
  <2>1. Len(f) \in Nat
    BY LenProperties
  <2>2. e \in Nat /\ 1 <= e
    BY <2>1
  <2>3. s \in 0 .. Len(f) /\ (s = 0 \/ s < e)
    BY <2>2, StartFacts
  <2>. HIDE DEF s
  <2>. QED
    BY <2>1, <2>2, <2>3
<1>. HIDE DEF s
<1>2. \A i \in 1 + s .. e - 1 : f[i] \in Token
  BY <1>1, ElementOfSeq
<1>3. /\ SubSeq(f, 1 + s, e - 1) \in Seq(Token)
      /\ Len(SubSeq(f, 1 + s, e - 1)) = e - 1 - s
      /\ \A i \in 1 .. e - 1 - s : SubSeq(f, 1 + s, e - 1)[i] = f[s + i]
  <2>1. 1 + s \in Int /\ e - 1 \in Int
    BY <1>1
  <2>2. /\ SubSeq(f, 1 + s, e - 1) \in Seq(Token)
        /\ Len(SubSeq(f, 1 + s, e - 1)) = IF 1 + s <= e - 1 THEN (e - 1) - (1 + s) + 1 ELSE 0
        /\ \A i \in 1 .. (e - 1) - (1 + s) + 1 : SubSeq(f, 1 + s, e - 1)[i] = f[(1 + s) + i - 1]
    BY <1>2, <2>1, SubSeqProperties
  <2>3. \A i \in 1 .. e - 1 - s : i \in 1 .. (e - 1) - (1 + s) + 1 /\ (1 + s) + i - 1 = s + i
    BY <1>1
  <2>. QED
    BY <1>1, <2>2, <2>3
<1>. QED
  BY <1>3 DEF s, LineOf

\* What is appended to a file changes none of its lines.
LEMMA EndsAppended ==
    ASSUME NEW f \in Seq(Token), NEW x \in Seq(Token)
    PROVE  /\ f \o x \in Seq(Token)
           /\ Ends(f) = { e \in Ends(f \o x) : e <= Len(f) }
           /\ Ends(f) \subseteq 1 .. Len(f)
           /\ Ends(f \o x) \subseteq 1 .. Len(f) + Len(x)
           /\ \A e \in Ends(f \o x) : e > Len(f) => x[e - Len(f)] = Newline
           /\ \A i \in 1 .. Len(x) : x[i] = Newline => Len(f) + i \in Ends(f \o x)
<1>1. Len(f) \in Nat /\ Len(x) \in Nat /\ DOMAIN f = 1 .. Len(f)
  BY LenProperties
<1>2. /\ f \o x \in Seq(Token) /\ Len(f \o x) = Len(f) + Len(x)
      /\ \A i \in 1 .. Len(f) + Len(x) : (f \o x)[i] = IF i <= Len(f) THEN f[i] ELSE x[i - Len(f)]
  BY ConcatProperties
<1>3. DOMAIN (f \o x) = 1 .. Len(f) + Len(x)
  BY <1>2, LenProperties
<1>. DEFINE g == f \o x
<1>4. /\ Ends(f) = { e \in 1 .. Len(f) : f[e] = Newline }
      /\ Ends(g) = { e \in 1 .. Len(f) + Len(x) : g[e] = Newline }
  BY <1>1, <1>3 DEF Ends
<1>5. \A i \in 1 .. Len(x) : g[Len(f) + i] = x[i]
  <2>. TAKE i \in 1 .. Len(x)
  <2>1. Len(f) + i \in 1 .. Len(f) + Len(x) /\ ~(Len(f) + i <= Len(f)) /\ (Len(f) + i) - Len(f) = i
    BY <1>1
  <2>. QED
    BY <1>2, <2>1
<1>. HIDE DEF g
<1>. QED
  BY <1>1, <1>2, <1>4, <1>5 DEF g

LEMMA LineAppended ==
    ASSUME NEW f \in Seq(Token), NEW x \in Seq(Token), NEW e \in 1 .. Len(f) + 1
    PROVE  StartOf(f \o x, e) = StartOf(f, e) /\ LineOf(f \o x, e) = LineOf(f, e)
<1>. DEFINE g == f \o x
            s == StartOf(f, e)
<1>1. Len(f) \in Nat /\ Len(x) \in Nat
  BY LenProperties
<1>2. /\ g \in Seq(Token) /\ Len(g) = Len(f) + Len(x)
      /\ \A i \in 1 .. Len(f) : g[i] = f[i]
  BY <1>1, ConcatProperties
<1>3. { i \in Ends(g) : i < e } = { i \in Ends(f) : i < e }
  BY <1>1, EndsAppended
<1>4. StartOf(g, e) = s
  BY <1>3 DEF StartOf
<1>5. e \in 1 .. Len(g) + 1 /\ e \in Nat
  BY <1>1, <1>2
<1>6. s \in 0 .. e - 1
  <2>1. s \in 0 .. Len(f) /\ (s = 0 \/ s < e)
    BY <1>5, StartFacts
  <2>. HIDE DEF s
  <2>. QED
    BY <1>1, <1>5, <2>1
<1>7. /\ LineOf(f, e) \in Seq(Token) /\ Len(LineOf(f, e)) = e - 1 - s
      /\ \A i \in 1 .. e - 1 - s : LineOf(f, e)[i] = f[s + i]
  BY LineFacts
<1>. HIDE DEF g
<1>8. /\ LineOf(g, e) \in Seq(Token) /\ Len(LineOf(g, e)) = e - 1 - s
      /\ \A i \in 1 .. e - 1 - s : LineOf(g, e)[i] = g[s + i]
  <2>1. /\ LineOf(g, e) \in Seq(Token) /\ Len(LineOf(g, e)) = e - 1 - StartOf(g, e)
        /\ \A i \in 1 .. e - 1 - StartOf(g, e) : LineOf(g, e)[i] = g[StartOf(g, e) + i]
    BY <1>2, <1>5, LineFacts
  <2>. HIDE DEF s
  <2>. QED
    BY <1>4, <2>1
<1>. HIDE DEF s
<1>9. \A i \in 1 .. e - 1 - s : s + i \in 1 .. Len(f)
  BY <1>1, <1>6
<1>10. LineOf(g, e) = LineOf(f, e)
  BY <1>2, <1>7, <1>8, <1>9, SeqEqual
<1>. QED
  BY <1>4, <1>10 DEF g, s

LEMMA JoinedAppended ==
    ASSUME NEW f \in Seq(Token), NEW x \in Seq(Token), JoinedIn(f)
    PROVE  JoinedIn(f \o x)
<1>1. PICK e \in Ends(f) : LineOf(f, e) \notin { <<k, Tab, a>> : k \in Key, a \in Mapping }
  BY DEF JoinedIn
<1>2. e \in 1 .. Len(f) + 1 /\ e \in Ends(f \o x)
  <2>1. Len(f) \in Nat
    BY LenProperties
  <2>. QED
    BY <2>1, EndsAppended
<1>3. LineOf(f \o x, e) = LineOf(f, e)
  BY <1>2, LineAppended
<1>. QED
  BY <1>1, <1>2, <1>3 DEF JoinedIn

\* An answer depends on the lines that end before it.
LEMMA SameAnswer ==
    ASSUME NEW f, NEW g, NEW k, EndsOf(g, k) = EndsOf(f, k),
           EndsOf(f, k) # {} => LineOf(g, LastOf(EndsOf(f, k))) = LineOf(f, LastOf(EndsOf(f, k)))
    PROVE  AnswerOf(g, k) = AnswerOf(f, k)
BY DEF AnswerOf

\* Text without a newline is not read.
LEMMA TextUnread ==
    ASSUME NEW f \in Seq(Token), NEW x \in Seq(Token),
           \A i \in 1 .. Len(x) : x[i] # Newline
    PROVE  /\ \A k : AnswerOf(f \o x, k) = AnswerOf(f, k)
           /\ JoinedIn(f \o x) <=> JoinedIn(f)
<1>. DEFINE g == f \o x
<1>1. Len(f) \in Nat /\ Len(x) \in Nat
  BY LenProperties
<1>2. Ends(f) \subseteq 1 .. Len(f) /\ Ends(g) \subseteq 1 .. Len(f) + Len(x)
  BY EndsAppended
<1>3. Ends(g) = Ends(f)
  <2>1. \A e \in Ends(g) : ~(e > Len(f))
    <3>. SUFFICES ASSUME NEW e \in Ends(g), e > Len(f) PROVE FALSE
      OBVIOUS
    <3>1. e - Len(f) \in 1 .. Len(x)
      BY <1>1, <1>2
    <3>2. x[e - Len(f)] = Newline
      BY EndsAppended
    <3>. QED
      BY <3>1, <3>2
  <2>2. Ends(f) = { e \in Ends(g) : e <= Len(f) }
    BY EndsAppended
  <2>. HIDE DEF g
  <2>. QED
    BY <1>1, <1>2, <2>1, <2>2
<1>4. \A e \in Ends(f) : LineOf(g, e) = LineOf(f, e)
  <2>. TAKE e \in Ends(f)
  <2>1. e \in 1 .. Len(f) + 1
    BY <1>1, <1>2
  <2>. QED
    BY <2>1, LineAppended
<1>. HIDE DEF g
<1>5. \A k : AnswerOf(g, k) = AnswerOf(f, k)
  <2>. TAKE k
  <2>1. EndsOf(g, k) = EndsOf(f, k) /\ EndsOf(f, k) \subseteq Ends(f)
    BY <1>3, <1>4 DEF EndsOf
  <2>2. EndsOf(f, k) # {} => LastOf(EndsOf(f, k)) \in Ends(f)
    <3>1. EndsOf(f, k) \subseteq 0 .. Len(f)
      BY <1>1, <1>2, <2>1
    <3>. QED
      BY <1>1, <2>1, <3>1, LastExists
  <2>. QED
    BY <1>4, <2>1, <2>2, SameAnswer
<1>6. JoinedIn(g) <=> JoinedIn(f)
  BY <1>3, <1>4 DEF JoinedIn
<1>. QED
  BY <1>5, <1>6 DEF g

\* The record that a newline completes is the answer for its key, unless text of a
\* cut record is in front of it.
LEMMA RecordCompleted ==
    ASSUME NEW h \in Seq(Token), NEW k \in Key, NEW a \in Mapping, Len(h) >= 3,
           h[Len(h) - 2] = k, h[Len(h) - 1] = Tab, h[Len(h)] = a,
           ~JoinedIn(h \o <<Newline>>)
    PROVE  \A q \in Key : AnswerOf(h \o <<Newline>>, q) = IF q = k THEN <<a>> ELSE AnswerOf(h, q)
<1>. DEFINE n == Len(h)
            g == h \o <<Newline>>
            e == n + 1
            s == StartOf(g, e)
            line == LineOf(g, e)
<1>1. n \in Nat /\ <<Newline>> \in Seq(Token) /\ Len(<<Newline>>) = 1 /\ <<Newline>>[1] = Newline
  BY LenProperties DEF Token
<1>2. /\ Ends(h) = { i \in Ends(g) : i <= n }
      /\ Ends(h) \subseteq 1 .. n
      /\ Ends(g) \subseteq 1 .. n + 1
      /\ e \in Ends(g)
  <2>. DEFINE x == <<Newline>>
  <2>1. x \in Seq(Token) /\ Len(x) = 1 /\ x[1] = Newline
    BY <1>1
  <2>. HIDE DEF x
  <2>2. /\ Ends(h) = { i \in Ends(h \o x) : i <= Len(h) }
        /\ Ends(h) \subseteq 1 .. Len(h)
        /\ Ends(h \o x) \subseteq 1 .. Len(h) + Len(x)
        /\ \A i \in 1 .. Len(x) : x[i] = Newline => Len(h) + i \in Ends(h \o x)
    BY <2>1, EndsAppended
  <2>3. Len(h) + 1 \in Ends(h \o x)
    BY <2>1, <2>2
  <2>. QED
    BY <2>1, <2>2, <2>3 DEF x
<1>3. /\ g \in Seq(Token) /\ Len(g) = n + 1
      /\ \A i \in 1 .. n : g[i] = h[i]
  BY <1>1, ConcatProperties
<1>. HIDE DEF g
<1>4. e \in 1 .. Len(g) + 1 /\ e \in Nat
  BY <1>1, <1>3
<1>5. /\ s \in 0 .. Len(g) /\ (s = 0 \/ (s \in Ends(g) /\ s < e))
  BY <1>3, <1>4, StartFacts
<1>6. /\ line \in Seq(Token) /\ Len(line) = e - 1 - s
      /\ \A i \in 1 .. e - 1 - s : line[i] = g[s + i]
  BY <1>3, <1>4, LineFacts
<1>7. s <= n - 3
  <2>1. h[n] # Newline /\ h[n - 1] # Newline /\ h[n - 2] # Newline
    BY PlanAssumption
  <2>2. s # 0 => h[s] = Newline
    BY <1>2, <1>5 DEF Ends
  <2>. HIDE DEF s, e
  <2>3. s <= n
    BY <1>1, <1>3, <1>5 DEF e
  <2>4. s # n /\ s # n - 1 /\ s # n - 2
    BY <1>1, <2>1, <2>2
  <2>. QED
    BY <1>1, <1>5, <2>3, <2>4
<1>8. line \in { <<q, Tab, b>> : q \in Key, b \in Mapping }
  BY <1>2 DEF JoinedIn, g
<1>9. Len(line) = 3
  BY <1>8
<1>10. s = n - 3
  <2>1. e - 1 - s = 3
    BY <1>6, <1>9
  <2>2. s \in Int /\ e = n + 1
    BY <1>1, <1>3, <1>5
  <2>. HIDE DEF s, e, n
  <2>. QED
    BY <1>1, <2>1, <2>2
<1>11. line[1] = k /\ line[2] = Tab /\ line[3] = a
  <2>1. line[1] = g[n - 2] /\ line[2] = g[n - 1] /\ line[3] = g[n]
    <3>. HIDE DEF line, s
    <3>1. /\ 1 \in 1 .. e - 1 - s /\ 2 \in 1 .. e - 1 - s /\ 3 \in 1 .. e - 1 - s
          /\ s + 1 = n - 2 /\ s + 2 = n - 1 /\ s + 3 = n
      BY <1>1, <1>10
    <3>. QED
      BY <1>6, <3>1
  <2>2. n \in 1 .. n /\ n - 1 \in 1 .. n /\ n - 2 \in 1 .. n
    BY <1>1
  <2>. QED
    BY <1>3, <2>1, <2>2
<1>12. line = <<k, Tab, a>>
  BY <1>8, <1>11
<1>13. \A i \in Ends(h) : LineOf(g, i) = LineOf(h, i)
  <2>. TAKE i \in Ends(h)
  <2>1. i \in 1 .. Len(h) + 1
    BY <1>1, <1>2
  <2>. QED
    BY <1>1, <2>1, LineAppended DEF g
<1>14. Ends(g) = Ends(h) \cup {e}
  BY <1>1, <1>2
<1>15. SUFFICES ASSUME NEW q \in Key
                PROVE  AnswerOf(g, q) = IF q = k THEN <<a>> ELSE AnswerOf(h, q)
  BY DEF g
<1>16. CASE q = k
  <2>1. Selection!IsRecordOf(k, LineOf(g, e))
    BY <1>9, <1>11 DEF Selection!IsRecordOf
  <2>2. e \in EndsOf(g, k) /\ EndsOf(g, k) \subseteq 1 .. n + 1
    BY <1>2, <2>1 DEF EndsOf
  <2>3. LastOf(EndsOf(g, k)) = e
    <3>1. EndsOf(g, k) \subseteq Nat /\ \A i \in EndsOf(g, k) : i <= e
      BY <1>1, <2>2
    <3>. QED
      BY <2>2, <3>1, LastUnique
  <2>4. AnswerOf(g, k) = SubSeq(line, 3, Len(line))
    BY <2>2, <2>3 DEF AnswerOf
  <2>. HIDE DEF line
  <2>5. SubSeq(line, 3, 3) = <<a>>
    <3>1. \A i \in 3 .. 3 : line[i] \in Token
      BY <1>11 DEF Token
    <3>2. /\ SubSeq(line, 3, 3) \in Seq(Token)
          /\ Len(SubSeq(line, 3, 3)) = 1
          /\ SubSeq(line, 3, 3)[1] = line[3]
      <4>1. /\ SubSeq(line, 3, 3) \in Seq(Token)
            /\ Len(SubSeq(line, 3, 3)) = IF 3 <= 3 THEN 3 - 3 + 1 ELSE 0
            /\ \A i \in 1 .. 3 - 3 + 1 : SubSeq(line, 3, 3)[i] = line[3 + i - 1]
        BY <3>1, SubSeqProperties
      <4>2. 1 \in 1 .. 3 - 3 + 1 /\ 3 + 1 - 1 = 3
        OBVIOUS
      <4>. QED
        BY <4>1, <4>2
    <3>3. <<a>> \in Seq(Token) /\ Len(<<a>>) = 1 /\ <<a>>[1] = a
      BY DEF Token
    <3>4. \A i \in 1 .. Len(SubSeq(line, 3, 3)) : SubSeq(line, 3, 3)[i] = <<a>>[i]
      BY <1>11, <3>2, <3>3
    <3>. QED
      BY <3>2, <3>3, <3>4, SeqEqual
  <2>. QED
    BY <1>9, <1>16, <2>4, <2>5
<1>17. CASE q # k
  <2>1. ~Selection!IsRecordOf(q, LineOf(g, e))
    BY <1>11, <1>17 DEF Selection!IsRecordOf
  <2>2. EndsOf(g, q) = EndsOf(h, q) /\ EndsOf(h, q) \subseteq Ends(h)
    <3>. HIDE DEF e
    <3>. QED
      BY <1>13, <1>14, <2>1 DEF EndsOf
  <2>3. EndsOf(h, q) # {} => LastOf(EndsOf(h, q)) \in Ends(h)
    <3>1. EndsOf(h, q) \subseteq 0 .. n
      BY <1>1, <1>2, <2>2
    <3>. QED
      BY <1>1, <2>2, <3>1, LastExists
  <2>. QED
    BY <1>13, <1>17, <2>2, <2>3, SameAnswer
<1>. QED
  BY <1>16, <1>17

----------------------------------------------------------------------------
(* What the file, its locks and the history say of each other.             *)

\* A client that writes has the lock, and nobody else any.
Writing == {"write", "flush", "written"}
WriterLocks ==
    \A c \in Client : select[c].pc \in Writing =>
        flocked[c] = "exclusive" /\ \A d \in Client \ {c} : flocked[d] = "no"

\* A record without its newline is the end of the file until its writer is done.
PendingRecord ==
    \A c \in Client : select[c].pc = "flush" =>
        /\ Len(file) >= 3
        /\ file[Len(file) - 2] = select[c].key
        /\ file[Len(file) - 1] = Tab
        /\ file[Len(file)] = select[c].algorithm

AnswersLatest == JoinedIn(file) \/ \A k \in Key : AnswerOf(file, k) = latest[k]

\* What is the last record of a key while a lookup runs, the lookup may answer.
FreshLatest ==
    \A c \in Client :
        /\ select[c].pc \in Looking => latest[select[c].key] \in fresh[c]
        /\ select[c].pc = "found" =>
              fresh[c] # {} /\ (select[c].match \in fresh[c] \/ JoinedIn(file))

FileTypes ==
    /\ file \in Seq(Token)
    /\ created \in BOOLEAN
    /\ flocked \in [Client -> {"no", "shared", "exclusive"}]
    /\ latest \in [Key -> {<< >>} \cup {<<a>> : a \in Mapping}]
    /\ fresh = [c \in Client |-> fresh[c]]

\* The file exists from the first store on.
FileExists ==
    /\ file # << >> => created
    /\ \A c \in Client : select[c].pc \in Writing \cup {"exclusive"} => created

FileInv ==
    /\ FileTypes
    /\ FileExists
    /\ WriterLocks
    /\ PendingRecord
    /\ AnswersLatest
    /\ FreshLatest

\* The steps of a call change its state only.
LEMMA SelectMoved ==
    ASSUME SelectionInv, NEW c \in Client, NEW state, Selects(c, state)
    PROVE  /\ select'[c] = state
           /\ \A d \in Client \ {c} : select'[d] = select[d]
BY DEF SelectionInv, Selects

LEMMA Advanced ==
    ASSUME SelectionInv, NEW c \in Client, NEW pc, select' = [select EXCEPT ![c].pc = pc],
           select[c].pc \in Looking \cup Storing
    PROVE  /\ select'[c].pc = pc
           /\ select'[c].key = select[c].key
           /\ select[c].pc \in Storing => select'[c].algorithm = select[c].algorithm
           /\ \A d \in Client \ {c} : select'[d] = select[d]
<1>1. /\ select'[c] = [select[c] EXCEPT !.pc = pc]
      /\ \A d \in Client \ {c} : select'[d] = select[d]
  BY DEF SelectionInv
<1>2. CASE select[c].pc \in Looking
  <2>1. select[c] \in [pc : Looking, key : Key] /\ select[c].pc \notin Storing
    BY <1>2 DEF SelectionInv, SelectState, Looking, Storing
  <2>. QED
    BY <1>1, <2>1
<1>3. CASE select[c].pc \in Storing
  <2>1. select[c] \in [pc : Storing, key : Key, algorithm : Mapping]
    BY <1>3 DEF SelectionInv, SelectState, Looking, Storing
  <2>. QED
    BY <1>1, <2>1
<1>. QED
  BY <1>2, <1>3

LEMMA CallFields ==
    ASSUME SelectionInv, NEW c \in Client
    PROVE  /\ select[c].pc \in Looking \cup Storing \cup {"found"} => select[c].key \in Key
           /\ select[c].pc \in Storing => select[c].algorithm \in Mapping
BY DEF SelectionInv, SelectState, Looking, Storing

----------------------------------------------------------------------------
(* The steps that do not write.                                            *)
LEMMA Quiet ==
    ASSUME FileInv, file' = file, latest' = latest,
           FileTypes', FileExists', WriterLocks', PendingRecord', FreshLatest'
    PROVE  FileInv'
BY DEF FileInv, AnswersLatest

\* A call that begins or goes on without the lock of a writer.
LEMMA NoWriter ==
    ASSUME FileInv, NEW c \in Client, select'[c].pc \notin Writing,
           \A d \in Client \ {c} : select'[d] = select[d],
           file' = file, flocked' = flocked
    PROVE  WriterLocks' /\ PendingRecord'
BY DEF FileInv, WriterLocks, PendingRecord, Writing

LEMMA BeginLookupQuiet ==
    ASSUME FileInv, SelectionInv, NEW c \in Client, NEW k \in Key, Selection!BeginLookup(c, k)
    PROVE  FileInv'
<1>. DEFINE state == [pc |-> "open", key |-> k]
<1>1. /\ Selects(c, state) /\ fresh' = [fresh EXCEPT ![c] = {latest[k]}]
      /\ UNCHANGED <<created, file, flocked, latest>>
  BY DEF Selection!BeginLookup, Selects
<1>2. state.pc = "open" /\ state.key = k
  OBVIOUS
<1>. HIDE DEF state
<1>3. select'[c] = state /\ \A d \in Client \ {c} : select'[d] = select[d]
  BY <1>1, SelectMoved
<1>4. /\ fresh' = [d \in Client |-> fresh'[d]] /\ fresh'[c] = {latest[k]}
      /\ \A d \in Client \ {c} : fresh'[d] = fresh[d]
  BY <1>1 DEF FileInv, FileTypes
<1>5. WriterLocks' /\ PendingRecord'
  BY <1>1, <1>2, <1>3, NoWriter DEF Writing
<1>6. FileTypes'
  BY <1>1, <1>4 DEF FileInv, FileTypes
<1>7. FileExists'
  BY <1>1, <1>2, <1>3 DEF FileInv, FileExists, Writing
<1>8. FreshLatest'
  <2>. SUFFICES ASSUME NEW d \in Client
                PROVE  /\ select'[d].pc \in Looking => latest[select'[d].key] \in fresh'[d]
                       /\ select'[d].pc = "found" =>
                            fresh'[d] # {} /\ (select'[d].match \in fresh'[d] \/ JoinedIn(file))
    BY <1>1 DEF FreshLatest
  <2>1. CASE d = c
    BY <1>2, <1>3, <1>4, <2>1
  <2>2. CASE d # c
    BY <1>3, <1>4, <2>2 DEF FileInv, FreshLatest
  <2>. QED
    BY <2>1, <2>2
<1>. QED
  BY <1>1, <1>5, <1>6, <1>7, <1>8, Quiet

LEMMA LookupGoesQuiet ==
    ASSUME FileInv, SelectionInv, NEW c \in Client,
           Selection!LookupOpen(c) \/ Selection!LookupLock(c)
    PROVE  FileInv'
<1>1. PICK pc \in Looking : select[c].pc \in Looking /\ select' = [select EXCEPT ![c].pc = pc]
  BY Zenon DEF Selection!LookupOpen, Selection!LookupLock, Looking
<1>2. UNCHANGED <<created, file, latest, fresh>>
  BY DEF Selection!LookupOpen, Selection!LookupLock
<1>3. /\ select'[c].pc = pc /\ select'[c].key = select[c].key
      /\ \A d \in Client \ {c} : select'[d] = select[d]
  BY <1>1, Advanced
<1>4. pc \notin Writing \cup {"exclusive"} /\ pc # "flush" /\ pc # "found"
  BY DEF Looking, Writing
<1>5. \A d \in Client : select'[d].pc \in Writing => select[d].pc \in Writing /\ d # c
  BY <1>3, <1>4
<1>6. flocked' \in [Client -> {"no", "shared", "exclusive"}] /\ WriterLocks'
  <2>1. CASE Selection!LookupOpen(c)
    <3>1. flocked' = flocked
      BY <2>1 DEF Selection!LookupOpen
    <3>. QED
      BY <1>5, <3>1 DEF FileInv, FileTypes, WriterLocks
  <2>2. CASE Selection!LookupLock(c)
    <3>1. /\ flocked' = [flocked EXCEPT ![c] = "shared"]
          /\ \A d \in Client : flocked[d] # "exclusive"
      BY <2>2 DEF Selection!LookupLock
    <3>2. \A d \in Client : select'[d].pc \notin Writing
      BY <1>5, <3>1 DEF FileInv, WriterLocks
    <3>. QED
      BY <3>1, <3>2 DEF FileInv, FileTypes, WriterLocks
  <2>. QED
    BY <2>1, <2>2
<1>7. PendingRecord'
  BY <1>2, <1>3, <1>4 DEF FileInv, PendingRecord
<1>8. FileTypes'
  BY <1>2, <1>6 DEF FileInv, FileTypes
<1>9. FileExists'
  BY <1>2, <1>3, <1>4 DEF FileInv, FileExists
<1>10. FreshLatest'
  BY <1>1, <1>2, <1>3, <1>4 DEF FileInv, FreshLatest
<1>. QED
  BY <1>2, <1>6, <1>7, <1>8, <1>9, <1>10, Quiet

\* The file is read in one go, whatever lock the lookup has.
LEMMA LookupReadQuiet ==
    ASSUME FileInv, SelectionInv, NEW c \in Client, Selection!LookupRead(c)
    PROVE  FileInv'
<1>. DEFINE key == select[c].key
            match == AnswerOf(file, key)
            state == [pc |-> "found", key |-> key, match |-> match]
<1>1. /\ select[c].pc = "read" /\ Selects(c, state)
      /\ flocked' = [flocked EXCEPT ![c] = "no"]
      /\ UNCHANGED <<created, file, latest, fresh>>
  BY CacheOperators DEF Selection!LookupRead, Selects
<1>2. state.pc = "found" /\ state.match = match
  OBVIOUS
<1>3. match \in fresh[c] \/ JoinedIn(file)
  <2>1. key \in Key /\ latest[key] \in fresh[c]
    BY <1>1, CallFields DEF FileInv, FreshLatest, Looking
  <2>. QED
    BY <2>1 DEF FileInv, AnswersLatest
<1>4. fresh[c] # {}
  BY <1>1 DEF FileInv, FreshLatest, Looking
<1>. HIDE DEF state, match
<1>5. select'[c] = state /\ \A d \in Client \ {c} : select'[d] = select[d]
  BY <1>1, SelectMoved
<1>6. WriterLocks'
  <2>. SUFFICES ASSUME NEW d \in Client, select'[d].pc \in Writing
                PROVE  flocked'[d] = "exclusive" /\ \A e \in Client \ {d} : flocked'[e] = "no"
    BY DEF WriterLocks
  <2>1. d # c /\ select[d].pc \in Writing
    BY <1>2, <1>5 DEF Writing
  <2>. QED
    BY <1>1, <2>1 DEF FileInv, FileTypes, WriterLocks
<1>7. PendingRecord'
  BY <1>1, <1>2, <1>5 DEF FileInv, PendingRecord
<1>8. FileTypes'
  BY <1>1 DEF FileInv, FileTypes
<1>9. FileExists'
  BY <1>1, <1>2, <1>5 DEF FileInv, FileExists, Writing
<1>10. FreshLatest'
  BY <1>1, <1>2, <1>3, <1>4, <1>5 DEF FileInv, FreshLatest, Looking
<1>. QED
  BY <1>1, <1>6, <1>7, <1>8, <1>9, <1>10, Quiet

LEMMA BeginStoreQuiet ==
    ASSUME FileInv, SelectionInv, NEW c \in Client, NEW k \in Key, NEW a \in Mapping,
           Selection!BeginStore(c, k, a)
    PROVE  FileInv'
<1>. DEFINE state == [pc |-> "create", key |-> k, algorithm |-> a]
<1>1. Selects(c, state) /\ UNCHANGED <<created, file, flocked, latest, fresh>>
  BY DEF Selection!BeginStore, Selects
<1>2. state.pc = "create"
  OBVIOUS
<1>. HIDE DEF state
<1>3. select'[c] = state /\ \A d \in Client \ {c} : select'[d] = select[d]
  BY <1>1, SelectMoved
<1>4. WriterLocks' /\ PendingRecord'
  BY <1>1, <1>2, <1>3, NoWriter DEF Writing
<1>5. FileTypes'
  BY <1>1 DEF FileInv, FileTypes
<1>6. FileExists'
  BY <1>1, <1>2, <1>3 DEF FileInv, FileExists, Writing
<1>7. FreshLatest'
  BY <1>1, <1>2, <1>3 DEF FileInv, FreshLatest, Looking
<1>. QED
  BY <1>1, <1>4, <1>5, <1>6, <1>7, Quiet

LEMMA StoreOpenQuiet ==
    ASSUME FileInv, SelectionInv, NEW c \in Client, Selection!StoreOpen(c)
    PROVE  FileInv'
<1>1. /\ select[c].pc \in Storing /\ created' = TRUE
      /\ select' = [select EXCEPT ![c].pc = "exclusive"]
      /\ UNCHANGED <<file, flocked, latest, fresh>>
  BY DEF Selection!StoreOpen, Storing
<1>2. select'[c].pc = "exclusive" /\ \A d \in Client \ {c} : select'[d] = select[d]
  BY <1>1, Advanced
<1>3. WriterLocks' /\ PendingRecord'
  BY <1>1, <1>2, NoWriter DEF Writing
<1>4. FileTypes'
  BY <1>1 DEF FileInv, FileTypes
<1>5. FileExists'
  BY <1>1 DEF FileExists
<1>6. FreshLatest'
  BY <1>1, <1>2 DEF FileInv, FreshLatest, Looking
<1>. QED
  BY <1>1, <1>3, <1>4, <1>5, <1>6, Quiet

\* A writer gets its lock when nobody has one.
LEMMA StoreLockQuiet ==
    ASSUME FileInv, SelectionInv, NEW c \in Client, Selection!StoreLock(c)
    PROVE  FileInv'
<1>1. /\ select[c].pc = "exclusive" /\ select[c].pc \in Storing
      /\ select' = [select EXCEPT ![c].pc = "write"]
      /\ \A d \in Client : flocked[d] = "no"
      /\ flocked' = [flocked EXCEPT ![c] = "exclusive"]
      /\ UNCHANGED <<created, file, latest, fresh>>
  BY DEF Selection!StoreLock, Storing
<1>2. select'[c].pc = "write" /\ \A d \in Client \ {c} : select'[d] = select[d]
  BY <1>1, Advanced
<1>3. WriterLocks'
  <2>1. \A d \in Client \ {c} : select'[d].pc \notin Writing
    BY <1>1, <1>2 DEF FileInv, WriterLocks
  <2>2. flocked'[c] = "exclusive" /\ \A d \in Client \ {c} : flocked'[d] = "no"
    BY <1>1 DEF FileInv, FileTypes
  <2>. QED
    BY <2>1, <2>2 DEF WriterLocks
<1>4. PendingRecord'
  BY <1>1, <1>2 DEF FileInv, PendingRecord
<1>5. FileTypes'
  BY <1>1 DEF FileInv, FileTypes
<1>6. FileExists'
  BY <1>1, <1>2 DEF FileInv, FileExists, Writing
<1>7. FreshLatest'
  BY <1>1, <1>2 DEF FileInv, FreshLatest, Looking
<1>. QED
  BY <1>1, <1>3, <1>4, <1>5, <1>6, <1>7, Quiet

\* A client that gives its lock back or dies writes no more.
LEMMA Released ==
    ASSUME FileInv, flocked' \in [Client -> {"no", "shared", "exclusive"}],
           \A d \in Client : select'[d].pc \in Writing => select'[d] = select[d] /\ flocked'[d] = flocked[d],
           \A d \in Client : flocked[d] = "no" => flocked'[d] = "no"
    PROVE  WriterLocks'
BY DEF FileInv, WriterLocks

LEMMA StoreUnlockQuiet ==
    ASSUME FileInv, SelectionInv, NEW c \in Client, Selection!StoreUnlock(c)
    PROVE  FileInv'
<1>1. /\ select[c].pc \in Storing
      /\ select' = [select EXCEPT ![c].pc = "stored"]
      /\ flocked' = [flocked EXCEPT ![c] = "no"]
      /\ UNCHANGED <<created, file, latest, fresh>>
  BY DEF Selection!StoreUnlock, Storing
<1>2. select'[c].pc = "stored" /\ \A d \in Client \ {c} : select'[d] = select[d]
  BY <1>1, Advanced
<1>3. FileTypes'
  BY <1>1 DEF FileInv, FileTypes
<1>4. WriterLocks'
  BY <1>1, <1>2, Released DEF FileInv, FileTypes, Writing
<1>5. PendingRecord'
  BY <1>1, <1>2 DEF FileInv, PendingRecord
<1>6. FileExists'
  BY <1>1, <1>2 DEF FileInv, FileExists, Writing
<1>7. FreshLatest'
  BY <1>1, <1>2 DEF FileInv, FreshLatest, Looking
<1>. QED
  BY <1>1, <1>3, <1>4, <1>5, <1>6, <1>7, Quiet

\* A kill, and the end of a compiler that has inherited a lock.
LEMMA KillQuiet ==
    ASSUME FileInv, SelectionInv, NEW clients, NEW inheritors, Selection!Kill(clients, inheritors)
    PROVE  FileInv'
<1>1. /\ \A d \in Client : select'[d] = IF d \in clients THEN [pc |-> "dead"] ELSE select[d]
      /\ flocked' = [d \in Client |-> IF d \in clients \ inheritors THEN "no" ELSE flocked[d]]
      /\ UNCHANGED <<created, file, latest, fresh>>
  BY DEF Selection!Kill
<1>2. \A d \in Client : select'[d].pc # "dead" => select'[d] = select[d] /\ d \notin clients
  BY <1>1
<1>3. FileTypes'
  BY <1>1 DEF FileInv, FileTypes
<1>4. WriterLocks'
  BY <1>1, <1>2, <1>3, Released DEF FileTypes, Writing
<1>5. PendingRecord'
  BY <1>1, <1>2 DEF FileInv, PendingRecord
<1>6. FileExists'
  BY <1>1, <1>2 DEF FileInv, FileExists, Writing
<1>7. FreshLatest'
  BY <1>1, <1>2 DEF FileInv, FreshLatest, Looking
<1>. QED
  BY <1>1, <1>3, <1>4, <1>5, <1>6, <1>7, Quiet

LEMMA OrphanUnlockQuiet ==
    ASSUME FileInv, NEW left,
           flocked' = [d \in Client |-> IF select[d].pc = "dead" /\ d \in left THEN "no" ELSE flocked[d]],
           UNCHANGED <<created, file, select, latest, fresh>>
    PROVE  FileInv'
<1>1. FileTypes'
  BY DEF FileInv, FileTypes
<1>2. WriterLocks'
  BY <1>1, Released DEF FileTypes, Writing
<1>3. PendingRecord' /\ FileExists' /\ FreshLatest'
  BY DEF FileInv, PendingRecord, FileExists, FreshLatest
<1>. QED
  BY <1>1, <1>2, <1>3, Quiet

----------------------------------------------------------------------------
(* The steps that write.                                                   *)

\* The text of a record, and of a cut one, holds no newline.
LEMMA TextTokens ==
    ASSUME NEW k \in Key, NEW a \in Mapping
    PROVE  /\ <<k, Tab, a>> \in Seq(Token) /\ Len(<<k, Tab, a>>) = 3
           /\ \A i \in 1 .. Len(<<k, Tab, a>>) : <<k, Tab, a>>[i] # Newline
           /\ \A x \in Selection!Torn(k, a) :
                x \in Seq(Token) /\ Len(x) > 0 /\ \A i \in 1 .. Len(x) : x[i] # Newline
<1>. DEFINE p == Selection!Part(k)
            q == Selection!Part(a)
<1>1. /\ k # Newline /\ a # Newline /\ Tab # Newline /\ p # Newline /\ q # Newline
      /\ {k, a, Tab, p, q} \subseteq Token
  BY PlanAssumption, PartAssumption DEF Token
<1>2. \A x : x \in Selection!Torn(k, a) <=> x = <<p>> \/ x = <<k, Tab, q>> \/ x = <<k, Tab, a>>
  BY DEF Selection!Torn
<1>. HIDE DEF p, q
<1>3. <<k, Tab, a>> \in Seq(Token) /\ Len(<<k, Tab, a>>) = 3
  BY <1>1
<1>4. \A i \in 1 .. 3 : <<k, Tab, a>>[i] # Newline /\ <<k, Tab, q>>[i] # Newline
  BY <1>1
<1>5. <<k, Tab, q>> \in Seq(Token) /\ Len(<<k, Tab, q>>) = 3
  BY <1>1
<1>6. <<p>> \in Seq(Token) /\ Len(<<p>>) = 1 /\ \A i \in 1 .. 1 : <<p>>[i] # Newline
  BY <1>1
<1>7. ASSUME NEW x \in Selection!Torn(k, a)
      PROVE  x \in Seq(Token) /\ Len(x) > 0 /\ \A i \in 1 .. Len(x) : x[i] # Newline
  <2>1. CASE x = <<p>>
    BY <1>6, <2>1
  <2>2. CASE x = <<k, Tab, q>>
    BY <1>4, <1>5, <2>2
  <2>3. CASE x = <<k, Tab, a>>
    BY <1>3, <1>4, <2>3
  <2>. QED
    BY <1>2, <1>7, <2>1, <2>2, <2>3
<1>8. \A i \in 1 .. Len(<<k, Tab, a>>) : <<k, Tab, a>>[i] # Newline
  BY <1>3, <1>4
<1>. QED
  BY <1>3, <1>7, <1>8

LEMMA RecordedFacts ==
    ASSUME FileInv, SelectionInv, NEW c \in Client, select[c].pc \in Storing, Selection!Recorded(c)
    PROVE  /\ latest' \in [Key -> {<< >>} \cup {<<a>> : a \in Mapping}]
           /\ \A k \in Key : latest'[k] = IF k = select[c].key THEN <<select[c].algorithm>> ELSE latest[k]
           /\ fresh' = [d \in Client |-> fresh'[d]]
           /\ \A d \in Client : \A x : x \in fresh[d] => x \in fresh'[d]
           /\ \A d \in Client :
                select[d].pc \in Looking => latest'[select[d].key] \in fresh'[d]
<1>. DEFINE q == select[c].key
            b == <<select[c].algorithm>>
<1>1. /\ latest' = [latest EXCEPT ![q] = b]
      /\ fresh' = [d \in Client |->
            IF select[d].pc \in Looking /\ select[d].key = q THEN fresh[d] \cup {b} ELSE fresh[d]]
  BY DEF Selection!Recorded, Looking
<1>2. q \in Key /\ b \in {<<a>> : a \in Mapping}
  BY CallFields
<1>. HIDE DEF q, b
<1>3. /\ latest' \in [Key -> {<< >>} \cup {<<a>> : a \in Mapping}]
      /\ \A k \in Key : latest'[k] = IF k = q THEN b ELSE latest[k]
  BY <1>1, <1>2 DEF FileInv, FileTypes
<1>4. /\ fresh' = [d \in Client |-> fresh'[d]]
      /\ \A d \in Client : \A x : x \in fresh[d] => x \in fresh'[d]
  BY <1>1
<1>5. \A d \in Client : select[d].pc \in Looking => latest'[select[d].key] \in fresh'[d]
  <2>. SUFFICES ASSUME NEW d \in Client, select[d].pc \in Looking
                PROVE  latest'[select[d].key] \in fresh'[d]
    OBVIOUS
  <2>1. select[d].key \in Key /\ latest[select[d].key] \in fresh[d]
    BY CallFields DEF FileInv, FreshLatest
  <2>. QED
    BY <1>1, <1>3, <2>1
<1>. QED
  BY <1>3, <1>4, <1>5 DEF q, b

\* Whoever writes does so alone: nobody else's record is pending.
LEMMA WritesAlone ==
    ASSUME FileInv, SelectionInv, NEW c \in Client, select[c].pc \in Writing
    PROVE  /\ created
           /\ flocked[c] = "exclusive"
           /\ \A d \in Client \ {c} : flocked[d] = "no" /\ select[d].pc \notin Writing
<1>1. /\ created
      /\ flocked[c] = "exclusive"
      /\ \A d \in Client \ {c} : flocked[d] = "no"
  BY DEF FileInv, FileExists, WriterLocks
<1>. QED
  BY <1>1 DEF FileInv, WriterLocks

\* Text without a newline changes no answer.
LEMMA TextWritten ==
    ASSUME FileInv, SelectionInv, NEW c \in Client, select[c].pc \in Writing,
           NEW x \in Seq(Token), \A i \in 1 .. Len(x) : x[i] # Newline,
           file' = file \o x, UNCHANGED <<created, latest, fresh>>,
           select'[c].pc \notin Looking \cup {"found"},
           \A d \in Client \ {c} : select'[d] = select[d],
           flocked' \in [Client -> {"no", "shared", "exclusive"}]
    PROVE  FileTypes' /\ FileExists' /\ AnswersLatest' /\ FreshLatest'
<1>1. file \in Seq(Token) /\ created
  BY WritesAlone DEF FileInv, FileTypes
<1>2. /\ file' \in Seq(Token)
      /\ \A k : AnswerOf(file', k) = AnswerOf(file, k)
      /\ JoinedIn(file') <=> JoinedIn(file)
  BY <1>1, EndsAppended, TextUnread
<1>3. FileTypes'
  BY <1>2 DEF FileInv, FileTypes
<1>4. FileExists'
  BY <1>1 DEF FileExists
<1>5. AnswersLatest'
  BY <1>2 DEF FileInv, AnswersLatest
<1>6. FreshLatest'
  BY <1>2 DEF FileInv, FreshLatest
<1>. QED
  BY <1>3, <1>4, <1>5, <1>6

LEMMA StoreWriteTextKeeps ==
    ASSUME FileInv, SelectionInv, NEW c \in Client, Selection!StoreWriteText(c)
    PROVE  FileInv'
<1>. DEFINE k == select[c].key
            a == select[c].algorithm
            x == <<k, Tab, a>>
<1>1. /\ select[c].pc = "write" /\ select[c].pc \in Storing /\ select[c].pc \in Writing
      /\ select' = [select EXCEPT ![c].pc = "flush"]
      /\ file' = file \o x
      /\ UNCHANGED <<created, flocked, latest, fresh>>
  BY DEF Selection!StoreWriteText, Storing, Writing
<1>2. k \in Key /\ a \in Mapping
  BY <1>1, CallFields
<1>3. x \in Seq(Token) /\ Len(x) = 3 /\ \A i \in 1 .. Len(x) : x[i] # Newline
  BY <1>2, TextTokens
<1>4. x[1] = k /\ x[2] = Tab /\ x[3] = a
  OBVIOUS
<1>5. /\ select'[c].pc = "flush" /\ select'[c].key = k /\ select'[c].algorithm = a
      /\ \A d \in Client \ {c} : select'[d] = select[d]
  BY <1>1, Advanced
<1>. HIDE DEF k, a, x
<1>6. FileTypes' /\ FileExists' /\ AnswersLatest' /\ FreshLatest'
  BY <1>1, <1>3, <1>5, TextWritten DEF FileInv, FileTypes, Looking
<1>7. WriterLocks'
  BY <1>1, <1>5 DEF FileInv, WriterLocks, Writing
<1>8. PendingRecord'
  <2>1. \A d \in Client : select'[d].pc = "flush" => d = c
    BY <1>1, <1>5, WritesAlone DEF Writing
  <2>2. file \in Seq(Token) /\ Len(file) \in Nat
    BY LenProperties DEF FileInv, FileTypes
  <2>3. /\ Len(file') = Len(file) + 3
        /\ \A i \in 1 .. Len(file) + 3 : file'[i] = IF i <= Len(file) THEN file[i] ELSE x[i - Len(file)]
    <3>1. /\ Len(file \o x) = Len(file) + Len(x)
          /\ \A i \in 1 .. Len(file) + Len(x) :
                (file \o x)[i] = IF i <= Len(file) THEN file[i] ELSE x[i - Len(file)]
      BY <1>3, <2>2, ConcatProperties
    <3>. QED
      BY <1>1, <1>3, <3>1
  <2>4. /\ file'[Len(file) + 1] = x[1]
        /\ file'[Len(file) + 2] = x[2]
        /\ file'[Len(file) + 3] = x[3]
    <3>1. \A i \in 1 .. 3 : Len(file) + i \in 1 .. Len(file) + 3 /\ ~(Len(file) + i <= Len(file))
                            /\ (Len(file) + i) - Len(file) = i
      BY <2>2
    <3>. QED
      BY <2>3, <3>1
  <2>5. Len(file') - 2 = Len(file) + 1 /\ Len(file') - 1 = Len(file) + 2 /\ Len(file') >= 3
    BY <2>2, <2>3
  <2>. QED
    BY <1>4, <1>5, <2>1, <2>3, <2>4, <2>5 DEF PendingRecord
<1>. QED
  BY <1>6, <1>7, <1>8 DEF FileInv

LEMMA StoreTornKeeps ==
    ASSUME FileInv, SelectionInv, NEW c \in Client, Selection!StoreTorn(c)
    PROVE  FileInv'
<1>1. /\ select[c].pc = "write" /\ select[c].pc \in Storing /\ select[c].pc \in Writing
      /\ select' = [select EXCEPT ![c].pc = "thrown"]
      /\ flocked' = [flocked EXCEPT ![c] = "no"]
      /\ UNCHANGED <<created, latest, fresh>>
  BY DEF Selection!StoreTorn, Storing, Writing
<1>2. PICK x \in Selection!Torn(select[c].key, select[c].algorithm) : file' = file \o x
  BY DEF Selection!StoreTorn
<1>3. x \in Seq(Token) /\ \A i \in 1 .. Len(x) : x[i] # Newline
  <2>1. select[c].key \in Key /\ select[c].algorithm \in Mapping
    BY <1>1, CallFields
  <2>. QED
    BY <2>1, TextTokens
<1>4. select'[c].pc = "thrown" /\ \A d \in Client \ {c} : select'[d] = select[d]
  BY <1>1, Advanced
<1>5. flocked' \in [Client -> {"no", "shared", "exclusive"}]
  BY <1>1 DEF FileInv, FileTypes
<1>6. FileTypes' /\ FileExists' /\ AnswersLatest' /\ FreshLatest'
  BY <1>1, <1>2, <1>3, <1>4, <1>5, TextWritten DEF Looking
<1>7. \A d \in Client : select'[d].pc \notin Writing
  BY <1>1, <1>4, WritesAlone DEF Writing
<1>8. WriterLocks' /\ PendingRecord'
  BY <1>7 DEF WriterLocks, PendingRecord, Writing
<1>. QED
  BY <1>6, <1>8 DEF FileInv

\* The newline makes the record of c the answer for its key.
LEMMA RecordWritten ==
    ASSUME FileInv, SelectionInv, NEW c \in Client, select[c].pc \in Writing, select[c].pc \in Storing,
           NEW h \in Seq(Token), Len(h) >= 3,
           h[Len(h) - 2] = select[c].key, h[Len(h) - 1] = Tab, h[Len(h)] = select[c].algorithm,
           \A k : AnswerOf(h, k) = AnswerOf(file, k),
           JoinedIn(file) => JoinedIn(h),
           file' = h \o <<Newline>>, Selection!Recorded(c),
           select' = [select EXCEPT ![c].pc = "written"], UNCHANGED <<created, flocked>>
    PROVE  FileInv'
<1>. DEFINE k == select[c].key
            a == select[c].algorithm
            x == <<Newline>>
<1>1. k \in Key /\ a \in Mapping
  BY CallFields
<1>2. x \in Seq(Token)
  BY DEF Token
<1>3. select'[c].pc = "written" /\ \A d \in Client \ {c} : select'[d] = select[d]
  BY Advanced
<1>4. /\ latest' \in [Key -> {<< >>} \cup {<<m>> : m \in Mapping}]
      /\ \A q \in Key : latest'[q] = IF q = k THEN <<a>> ELSE latest[q]
      /\ fresh' = [d \in Client |-> fresh'[d]]
      /\ \A d \in Client : \A y : y \in fresh[d] => y \in fresh'[d]
      /\ \A d \in Client : select[d].pc \in Looking => latest'[select[d].key] \in fresh'[d]
  BY RecordedFacts
<1>5. JoinedIn(file) => JoinedIn(file')
  BY <1>2, JoinedAppended
<1>6. ~JoinedIn(file') => \A q \in Key : AnswerOf(file', q) = IF q = k THEN <<a>> ELSE AnswerOf(h, q)
  BY <1>1, RecordCompleted
<1>7. file' \in Seq(Token)
  BY <1>2, EndsAppended
<1>8. created /\ flocked[c] = "exclusive"
      /\ \A d \in Client \ {c} : flocked[d] = "no" /\ select[d].pc \notin Writing
  BY WritesAlone
<1>. HIDE DEF k, a, x
<1>9. FileTypes'
  BY <1>4, <1>7 DEF FileInv, FileTypes
<1>10. FileExists'
  BY <1>8 DEF FileExists
<1>11. WriterLocks' /\ PendingRecord'
  BY <1>3, <1>8 DEF WriterLocks, PendingRecord, Writing
<1>12. AnswersLatest'
  <2>. SUFFICES ASSUME ~JoinedIn(file') PROVE \A q \in Key : AnswerOf(file', q) = latest'[q]
    BY DEF AnswersLatest
  <2>1. \A q \in Key : AnswerOf(file, q) = latest[q]
    BY <1>5 DEF FileInv, AnswersLatest
  <2>. QED
    BY <1>4, <1>6, <2>1
<1>13. FreshLatest'
  <2>. SUFFICES ASSUME NEW d \in Client
                PROVE  /\ select'[d].pc \in Looking => latest'[select'[d].key] \in fresh'[d]
                       /\ select'[d].pc = "found" =>
                            fresh'[d] # {} /\ (select'[d].match \in fresh'[d] \/ JoinedIn(file'))
    BY DEF FreshLatest
  <2>1. CASE d = c
    BY <1>3, <2>1 DEF Looking
  <2>2. CASE d # c
    BY <1>3, <1>4, <1>5, <2>2 DEF FileInv, FreshLatest
  <2>. QED
    BY <2>1, <2>2
<1>. QED
  BY <1>9, <1>10, <1>11, <1>12, <1>13 DEF FileInv

LEMMA StoreFlushKeeps ==
    ASSUME FileInv, SelectionInv, NEW c \in Client, Selection!StoreFlush(c)
    PROVE  FileInv'
<1>1. /\ select[c].pc = "flush" /\ select[c].pc \in Storing /\ select[c].pc \in Writing
      /\ select' = [select EXCEPT ![c].pc = "written"]
      /\ file' = Append(file, Newline)
      /\ Selection!Recorded(c) /\ UNCHANGED <<created, flocked>>
  BY DEF Selection!StoreFlush, Storing, Writing
<1>2. file \in Seq(Token)
  BY DEF FileInv, FileTypes
<1>3. file' = file \o <<Newline>>
  BY <1>1, <1>2, AppendIsConcat DEF Token
<1>4. /\ Len(file) >= 3
      /\ file[Len(file) - 2] = select[c].key
      /\ file[Len(file) - 1] = Tab
      /\ file[Len(file)] = select[c].algorithm
  BY <1>1 DEF FileInv, PendingRecord
<1>. QED
  BY <1>1, <1>2, <1>3, <1>4, RecordWritten

LEMMA Appended ==
    ASSUME NEW f \in Seq(Token), NEW x \in Seq(Token), NEW y \in Seq(Token)
    PROVE  (f \o x) \o y = f \o (x \o y)
OBVIOUS

LEMMA StoreWriteKeeps ==
    ASSUME FileInv, SelectionInv, NEW c \in Client, Selection!StoreWrite(c)
    PROVE  FileInv'
<1>. DEFINE k == select[c].key
            a == select[c].algorithm
            x == <<k, Tab, a>>
            y == <<Newline>>
            z == <<k, Tab, a, Newline>>
            h == file \o x
<1>1. /\ select[c].pc = "write" /\ select[c].pc \in Storing /\ select[c].pc \in Writing
      /\ select' = [select EXCEPT ![c].pc = "written"]
      /\ file' = file \o z
      /\ Selection!Recorded(c) /\ UNCHANGED <<created, flocked>>
  BY DEF Selection!StoreWrite, Selection!Record, Storing, Writing
<1>2. k \in Key /\ a \in Mapping
  BY <1>1, CallFields
<1>3. x \in Seq(Token) /\ Len(x) = 3 /\ \A i \in 1 .. Len(x) : x[i] # Newline
  BY <1>2, TextTokens
<1>4. file \in Seq(Token) /\ Len(file) \in Nat
  BY LenProperties DEF FileInv, FileTypes
<1>5. y \in Seq(Token) /\ Len(y) = 1 /\ y[1] = Newline /\ z \in Seq(Token) /\ Len(z) = 4
  BY <1>2 DEF Token
<1>7. x[1] = k /\ x[2] = Tab /\ x[3] = a /\ z[1] = k /\ z[2] = Tab /\ z[3] = a /\ z[4] = Newline
  OBVIOUS
<1>. HIDE DEF x, y, z, k, a
<1>6. x \o y = z
  <2>1. /\ x \o y \in Seq(Token) /\ Len(x \o y) = Len(x) + Len(y)
        /\ \A i \in 1 .. Len(x) + Len(y) : (x \o y)[i] = IF i <= Len(x) THEN x[i] ELSE y[i - Len(x)]
    BY <1>3, <1>5, ConcatProperties
  <2>2. Len(x \o y) = 4 /\ \A i \in 1 .. 4 : (x \o y)[i] = IF i <= 3 THEN x[i] ELSE y[i - 3]
    BY <1>3, <1>5, <2>1
  <2>3. \A i \in 1 .. 4 : (x \o y)[i] = z[i]
    BY <1>5, <1>7, <2>2
  <2>. QED
    BY <1>5, <2>1, <2>2, <2>3, SeqEqual
<1>8. file' = h \o y
  <2>1. (file \o x) \o y = file \o (x \o y)
    BY <1>3, <1>4, <1>5, Appended
  <2>. QED
    BY <1>1, <1>6, <2>1
<1>9. /\ h \in Seq(Token)
      /\ \A q : AnswerOf(h, q) = AnswerOf(file, q)
      /\ JoinedIn(file) => JoinedIn(h)
  BY <1>3, <1>4, EndsAppended, TextUnread
<1>10. /\ Len(h) >= 3 /\ h[Len(h) - 2] = k /\ h[Len(h) - 1] = Tab /\ h[Len(h)] = a
  <2>1. /\ Len(h) = Len(file) + 3
        /\ \A i \in 1 .. Len(file) + 3 : h[i] = IF i <= Len(file) THEN file[i] ELSE x[i - Len(file)]
    <3>1. /\ Len(file \o x) = Len(file) + Len(x)
          /\ \A i \in 1 .. Len(file) + Len(x) :
                (file \o x)[i] = IF i <= Len(file) THEN file[i] ELSE x[i - Len(file)]
      BY <1>3, <1>4, ConcatProperties
    <3>. QED
      BY <1>3, <3>1
  <2>. HIDE DEF h
  <2>2. \A i \in 1 .. 3 : Len(file) + i \in 1 .. Len(file) + 3 /\ ~(Len(file) + i <= Len(file))
                          /\ (Len(file) + i) - Len(file) = i
    BY <1>4
  <2>3. h[Len(file) + 1] = k /\ h[Len(file) + 2] = Tab /\ h[Len(file) + 3] = a
    BY <1>7, <2>1, <2>2
  <2>4. Len(h) - 2 = Len(file) + 1 /\ Len(h) - 1 = Len(file) + 2 /\ Len(h) >= 3
    BY <1>4, <2>1
  <2>. QED
    BY <2>1, <2>3, <2>4
<1>. HIDE DEF h
<1>. QED
  BY <1>1, <1>8, <1>9, <1>10, RecordWritten DEF k, a, y

----------------------------------------------------------------------------
(* What is loaded, described or published is a build; limits and mutexes.  *)
HasBuild == {"charge", "built", "described"}
ModuleRanges ==
    /\ module_mutex \in [Process -> Client \cup {Nobody}]
    /\ modules \in [Process -> [Mapping -> 0 .. builds]]
    /\ manifest \in [Mapping -> 0 .. builds]
    /\ published \in [Mapping -> 0 .. builds]
CompilerRanges ==
    \A c \in Client :
        /\ compiler[c].pc \in HasBuild => compiler[c].build \in 0 .. builds
        /\ compiler[c].pc = "nvcc" /\ Budget # 0 => compiler[c].limit \in 1 .. Budget
CompilingHasCompiler ==
    \A c \in Client : caller[c].pc = "compiling" => compiler[c].pc # "out"

RangeInv == ModuleRanges /\ CompilerRanges /\ CompilingHasCompiler

LEMMA ModuleOK == ModuleInv /\ RangeInv => Module!TypeOK
BY DEF ModuleInv, ModuleTypes, RangeInv, ModuleRanges, CompilerRanges, CompilingHasCompiler,
       Module!TypeOK, Nobody

\* A compiler that moves takes a build, or a limit, that is in range.
LEMMA CompilerMoves ==
    ASSUME ModuleInv, RangeInv, NEW c \in Client, NEW state, state \in CompilerState, Moves(c, state),
           state.pc # "out",
           state.pc \in HasBuild => state.build \in 0 .. builds',
           state.pc = "nvcc" /\ Budget # 0 => state.limit \in 1 .. Budget,
           builds' \in Nat, builds <= builds',
           UNCHANGED <<module_mutex, modules, caller>>,
           manifest' \in [Mapping -> 0 .. builds'], published' \in [Mapping -> 0 .. builds']
    PROVE  RangeInv'
<1>1. /\ compiler'[c] = state
      /\ \A d \in Client \ {c} : compiler'[d] = compiler[d]
  BY Moved DEF ModuleInv
<1>2. builds \in Nat /\ 0 .. builds \subseteq 0 .. builds'
  BY DEF ModuleInv, ModuleTypes
<1>3. ModuleRanges'
  BY <1>2 DEF RangeInv, ModuleRanges
<1>4. CompilerRanges'
  BY <1>1, <1>2 DEF RangeInv, CompilerRanges
<1>5. CompilingHasCompiler'
  BY <1>1 DEF RangeInv, CompilingHasCompiler
<1>. QED
  BY <1>3, <1>4, <1>5 DEF RangeInv

LEMMA CompilerExits ==
    ASSUME ModuleInv, RangeInv, NEW c \in Client, NEW ok \in BOOLEAN, Moves(c, Module!Exited(ok)),
           UNCHANGED <<module_mutex, modules, caller, manifest, builds>>,
           published' \in [Mapping -> 0 .. builds]
    PROVE  RangeInv'
<1>. DEFINE state == Module!Exited(ok)
<1>1. state \in CompilerState /\ state.pc = "exited"
  BY DEF CompilerState, Module!Exited
<1>2. Moves(c, state)
  OBVIOUS
<1>3. builds \in Nat /\ manifest \in [Mapping -> 0 .. builds]
  BY DEF ModuleInv, ModuleTypes, RangeInv, ModuleRanges
<1>. HIDE DEF state
<1>. QED
  BY <1>1, <1>2, <1>3, CompilerMoves DEF HasBuild

LEMMA CompilerStepRanges ==
    ASSUME ModuleInv, RangeInv, NEW c \in Client, Module!CompilerStep(c) \/ Module!CompilerErrs(c)
    PROVE  RangeInv'
<1>0. /\ builds \in Nat /\ spent \in Nat /\ Budget \in Nat /\ Timeout \in Nat
      /\ manifest \in [Mapping -> 0 .. builds] /\ published \in [Mapping -> 0 .. builds]
  BY PlanAssumption DEF ModuleInv, ModuleTypes, RangeInv, ModuleRanges
<1>. DEFINE m == compiler[c].mapping
<1>1. CASE Module!LockIdentity(c)
  <2>. DEFINE state == [pc |-> "locked", mapping |-> m]
  <2>1. Moves(c, state) /\ UNCHANGED <<module_mutex, modules, caller, manifest, published, builds>>
    BY <1>1 DEF Module!LockIdentity, Module!callerVars, Module!cacheVars, Moves
  <2>2. state \in CompilerState /\ state.pc = "locked"
    <3>1. m \in Mapping
      BY <1>1, Fields DEF ModuleInv, ModuleTypes, Module!LockIdentity
    <3>. QED
      BY <3>1 DEF CompilerState
  <2>. HIDE DEF state
  <2>. QED
    BY <1>0, <2>1, <2>2, CompilerMoves DEF HasBuild
<1>2. CASE Module!CacheHit(c)
  <2>1. /\ Moves(c, Module!Exited(TRUE))
        /\ UNCHANGED <<module_mutex, modules, caller, manifest, published, builds>>
    BY <1>2 DEF Module!CacheHit, Module!callerVars, Module!cacheVars, Moves
  <2>. QED
    BY <1>0, <2>1, CompilerExits
<1>3. CASE Module!LockBudget(c)
  <2>. DEFINE read == IF Budget = 0 THEN 0 ELSE spent
              limit == IF Budget = 0 \/ (Timeout # 0 /\ Timeout < Budget - spent)
                       THEN Timeout ELSE Budget - spent
              state == [pc |-> "nvcc", mapping |-> m, spent |-> read, limit |-> limit]
  <2>1. m \in Mapping
    BY <1>3, Fields DEF ModuleInv, ModuleTypes, Module!LockBudget
  <2>2. UNCHANGED <<module_mutex, modules, caller, manifest, published, builds>>
    BY <1>3 DEF Module!LockBudget, Module!callerVars, Module!cacheVars
  <2>3. CASE Budget # 0 /\ spent >= Budget
    <3>1. Moves(c, Module!Exited(FALSE))
      BY <1>3, <2>3 DEF Module!LockBudget, Moves
    <3>. QED
      BY <1>0, <2>2, <3>1, CompilerExits
  <2>4. CASE ~(Budget # 0 /\ spent >= Budget)
    <3>1. Moves(c, state)
      BY <1>3, <2>4 DEF Module!LockBudget, Moves
    <3>2. limit \in Nat /\ (Budget # 0 => limit \in 1 .. Budget) /\ read \in Nat
      BY <1>0, <2>4
    <3>3. state \in CompilerState /\ state.pc = "nvcc" /\ state.limit = limit
      BY <2>1, <3>2 DEF CompilerState
    <3>. HIDE DEF state, limit
    <3>. QED
      BY <1>0, <2>2, <3>1, <3>2, <3>3, CompilerMoves DEF HasBuild
  <2>. QED
    BY <2>3, <2>4
<1>4. ASSUME NEW elapsed \in Nat, NEW build \in {0, builds + 1}, Module!NvccEnds(c, elapsed, build)
      PROVE  RangeInv'
  <2>. DEFINE written == compiler[c].spent + elapsed
              state == [pc |-> "charge", mapping |-> m, spent |-> written, build |-> build]
  <2>1. m \in Mapping /\ written \in Nat
    <3>1. m \in Mapping /\ compiler[c].spent \in Nat
      BY <1>4, Fields DEF ModuleInv, ModuleTypes, Module!NvccEnds, Building, Charging
    <3>. QED
      BY <3>1
  <2>2. /\ Moves(c, state) /\ builds' = IF build # 0 THEN build ELSE builds
        /\ UNCHANGED <<module_mutex, modules, caller, manifest, published>>
    BY <1>4 DEF Module!NvccEnds, Module!callerVars, Moves
  <2>3. state \in CompilerState /\ state.pc = "charge" /\ state.build = build
    BY <1>0, <2>1 DEF CompilerState
  <2>4. builds' \in Nat /\ builds <= builds' /\ build \in 0 .. builds'
    BY <1>0, <2>2
  <2>5. 0 .. builds \subseteq 0 .. builds'
    BY <1>0, <2>4
  <2>6. manifest' \in [Mapping -> 0 .. builds'] /\ published' \in [Mapping -> 0 .. builds']
    BY <1>0, <2>2, <2>5
  <2>. HIDE DEF state, written
  <2>. QED
    BY <2>2, <2>3, <2>4, <2>6, CompilerMoves
<1>5. CASE Module!RunCompiler(c)
  <2>1. compiler[c].limit \in Nat /\ Duration[compiler[c].mapping] \in Nat
    <3>1. compiler[c].limit \in Nat /\ compiler[c].mapping \in Mapping
      BY <1>5, Fields DEF ModuleInv, ModuleTypes, Module!RunCompiler, Building
    <3>. QED
      BY <3>1, PlanAssumption
  <2>2. \/ Module!NvccEnds(c, compiler[c].limit, 0)
        \/ Module!NvccEnds(c, Duration[compiler[c].mapping], builds + 1)
    BY <1>5 DEF Module!RunCompiler, Module!Wanted
  <2>. QED
    BY <1>4, <2>1, <2>2
<1>6. CASE Module!CompilerErrs(c)
  BY <1>4, <1>6 DEF Module!CompilerErrs
<1>7. CASE Module!Charge(c)
  <2>. DEFINE build == compiler[c].build
              state == [pc |-> "built", mapping |-> m, build |-> build]
  <2>1. m \in Mapping /\ build \in Nat /\ build \in 0 .. builds
    BY <1>7, Fields DEF ModuleInv, ModuleTypes, Module!Charge, Building, RangeInv, CompilerRanges, HasBuild
  <2>2. UNCHANGED <<module_mutex, modules, caller, manifest, published, builds>>
    BY <1>7 DEF Module!Charge, Module!callerVars, Module!cacheVars
  <2>3. Moves(c, Module!Exited(FALSE)) \/ Moves(c, state)
    BY <1>7 DEF Module!Charge, Moves
  <2>4. CASE Moves(c, Module!Exited(FALSE))
    BY <1>0, <2>2, <2>4, CompilerExits
  <2>5. CASE Moves(c, state)
    <3>1. state \in CompilerState /\ state.pc = "built" /\ state.build = build
      BY <2>1 DEF CompilerState
    <3>. HIDE DEF state
    <3>. QED
      BY <1>0, <2>1, <2>2, <2>5, <3>1, CompilerMoves
  <2>. QED
    BY <2>3, <2>4, <2>5
<1>8. CASE Module!Describe(c)
  <2>. DEFINE build == compiler[c].build
              state == [pc |-> "described", mapping |-> m, build |-> build]
  <2>1. m \in Mapping /\ build \in Nat /\ build \in 0 .. builds
    BY <1>8, Fields DEF ModuleInv, ModuleTypes, Module!Describe, Building, RangeInv, CompilerRanges, HasBuild
  <2>2. /\ Moves(c, state) /\ manifest' = [manifest EXCEPT ![m] = build]
        /\ UNCHANGED <<module_mutex, modules, caller, published, builds>>
    BY <1>8 DEF Module!Describe, Module!Described, Module!Wanted, Module!callerVars, Moves
  <2>3. state \in CompilerState /\ state.pc = "described" /\ state.build = build
    BY <2>1 DEF CompilerState
  <2>. HIDE DEF state, build
  <2>. QED
    BY <1>0, <2>1, <2>2, <2>3, CompilerMoves
<1>9. CASE Module!Publish(c)
  <2>1. m \in Mapping /\ compiler[c].build \in 0 .. builds
    BY <1>9, Fields DEF ModuleInv, ModuleTypes, Module!Publish, Building, RangeInv, CompilerRanges, HasBuild
  <2>2. /\ Moves(c, Module!Exited(TRUE)) /\ published' = [published EXCEPT ![m] = compiler[c].build]
        /\ UNCHANGED <<module_mutex, modules, caller, manifest, builds>>
    BY <1>9 DEF Module!Publish, Module!Wanted, Module!callerVars, Moves
  <2>. QED
    BY <1>0, <2>1, <2>2, CompilerExits
<1>. QED
  BY <1>1, <1>2, <1>3, <1>5, <1>6, <1>7, <1>8, <1>9 DEF Module!CompilerStep

LEMMA KillCompilerRanges ==
    ASSUME ModuleInv, RangeInv, NEW c \in Client, Module!KillCompiler(c) PROVE RangeInv'
<1>1. /\ Moves(c, Module!Exited(FALSE))
      /\ UNCHANGED <<module_mutex, modules, caller, manifest, published, builds>>
  BY DEF Module!KillCompiler, Module!callerVars, Module!cacheVars, Moves
<1>. QED
  BY <1>1, CompilerExits DEF RangeInv, ModuleRanges

\* The library's steps change the mutex, the loaded modules and the calls.
LEMMA LibraryStepRanges ==
    ASSUME ModuleInv, RangeInv, NEW c \in Client,
           \/ \E m \in Mapping : Module!Prepare(c, m)
           \/ Module!Enter(c)
           \/ Module!Load(c)
    PROVE  RangeInv'
<1>. DEFINE p == ProcessOf[c]
            m == caller[c].mapping
<1>0. p \in Process
  BY PlanAssumption
<1>1. CASE \E q \in Mapping : Module!Prepare(c, q)
  <2>1. PICK q \in Mapping : Module!Prepare(c, q)
    BY <1>1
  <2>. DEFINE state == [pc |-> "mutex", mapping |-> q]
  <2>2. /\ caller' = [caller EXCEPT ![c] = state]
        /\ UNCHANGED <<module_mutex, modules, compiler, manifest, published, builds>>
    BY <2>1 DEF Module!Prepare, Module!cacheVars
  <2>3. state.pc # "compiling"
    OBVIOUS
  <2>. HIDE DEF state
  <2>4. CompilingHasCompiler'
    BY <2>2, <2>3 DEF ModuleInv, ModuleTypes, RangeInv, CompilingHasCompiler
  <2>. QED
    BY <2>2, <2>4 DEF RangeInv, ModuleRanges, CompilerRanges
<1>2. CASE Module!Enter(c)
  <2>. DEFINE prepared == [pc |-> "prepared", mapping |-> m]
              compiling == [pc |-> "compiling", mapping |-> m]
              state == [pc |-> "identified", mapping |-> m]
  <2>1. UNCHANGED <<modules, manifest, published, builds>>
    BY <1>2 DEF Module!Enter, Module!cacheVars
  <2>2. \/ caller' = [caller EXCEPT ![c] = prepared] /\ UNCHANGED <<module_mutex, compiler>>
        \/ /\ caller' = [caller EXCEPT ![c] = compiling] /\ Moves(c, state)
           /\ module_mutex' = [module_mutex EXCEPT ![p] = c]
    BY <1>2 DEF Module!Enter, Moves
  <2>3. prepared.pc = "prepared" /\ state.pc = "identified"
    OBVIOUS
  <2>4. state \in CompilerState
    BY <1>2 DEF ModuleInv, ModuleTypes, CallerState, CompilerState, Module!Enter
  <2>. HIDE DEF prepared, compiling, state
  <2>5. CASE caller' = [caller EXCEPT ![c] = prepared] /\ UNCHANGED <<module_mutex, compiler>>
    <3>1. CompilingHasCompiler'
      BY <2>3, <2>5 DEF ModuleInv, ModuleTypes, RangeInv, CompilingHasCompiler
    <3>. QED
      BY <2>1, <2>5, <3>1 DEF RangeInv, ModuleRanges, CompilerRanges
  <2>6. CASE /\ caller' = [caller EXCEPT ![c] = compiling] /\ Moves(c, state)
             /\ module_mutex' = [module_mutex EXCEPT ![p] = c]
    <3>1. /\ compiler'[c] = state
          /\ \A d \in Client \ {c} : compiler'[d] = compiler[d]
      BY <2>4, <2>6, Moved DEF ModuleInv
    <3>2. CompilingHasCompiler'
      BY <2>3, <2>6, <3>1 DEF ModuleInv, ModuleTypes, RangeInv, CompilingHasCompiler
    <3>3. ModuleRanges'
      BY <1>0, <2>1, <2>6 DEF RangeInv, ModuleRanges
    <3>4. CompilerRanges'
      BY <2>1, <2>3, <3>1 DEF RangeInv, CompilerRanges, HasBuild
    <3>. QED
      BY <3>2, <3>3, <3>4 DEF RangeInv
  <2>. QED
    BY <2>2, <2>5, <2>6
<1>3. CASE Module!Load(c)
  <2>. DEFINE loaded == compiler[c].ok /\ m \notin Oversized
              state == [pc |-> IF loaded THEN "prepared" ELSE "thrown", mapping |-> m]
  <2>1. /\ modules' = IF loaded THEN [modules EXCEPT ![p][m] = published[m]] ELSE modules
        /\ caller' = [caller EXCEPT ![c] = state]
        /\ module_mutex' = [module_mutex EXCEPT ![p] = Nobody]
        /\ UNCHANGED <<compiler, manifest, published, builds>>
    BY <1>3 DEF Module!Load, Module!Leave, Module!cacheVars, Nobody
  <2>2. m \in Mapping
    BY <1>3 DEF ModuleInv, ModuleTypes, CallerState, Module!Load
  <2>3. state.pc # "compiling"
    OBVIOUS
  <2>. HIDE DEF loaded, state, m
  <2>4. published[m] \in 0 .. builds
    BY <2>2 DEF RangeInv, ModuleRanges
  <2>5. modules' \in [Process -> [Mapping -> 0 .. builds]]
    BY <1>0, <2>1, <2>2, <2>4 DEF RangeInv, ModuleRanges
  <2>6. CompilingHasCompiler'
    BY <2>1, <2>3 DEF ModuleInv, ModuleTypes, RangeInv, CompilingHasCompiler
  <2>7. ModuleRanges'
    BY <1>0, <2>1, <2>5 DEF RangeInv, ModuleRanges
  <2>. QED
    BY <2>1, <2>6, <2>7 DEF RangeInv, CompilerRanges
<1>. QED
  BY <1>1, <1>2, <1>3

LEMMA KillClientsRanges ==
    ASSUME ModuleInv, RangeInv, NEW clients, Module!KillClients(clients) PROVE RangeInv'
<1>1. /\ caller' = [c \in Client |-> IF c \in clients THEN [pc |-> "dead"] ELSE caller[c]]
      /\ module_mutex' = [p \in Process |-> IF module_mutex[p] \in clients THEN Nobody ELSE module_mutex[p]]
      /\ modules' = [p \in Process |->
            IF \E c \in clients : ProcessOf[c] = p THEN [m \in Mapping |-> 0] ELSE modules[p]]
      /\ UNCHANGED <<compiler, manifest, published, builds>>
  BY DEF Module!KillClients, Module!cacheVars, Nobody
<1>2. CompilingHasCompiler'
  BY <1>1 DEF RangeInv, CompilingHasCompiler
<1>3. builds \in Nat /\ 0 \in 0 .. builds
  BY DEF ModuleInv, ModuleTypes
<1>4. ModuleRanges'
  <2>1. modules' \in [Process -> [Mapping -> 0 .. builds]]
    BY <1>1, <1>3 DEF RangeInv, ModuleRanges
  <2>2. module_mutex' \in [Process -> Client \cup {Nobody}]
    BY <1>1 DEF RangeInv, ModuleRanges
  <2>. QED
    BY <1>1, <2>1, <2>2 DEF RangeInv, ModuleRanges
<1>. QED
  BY <1>1, <1>2, <1>4 DEF RangeInv, CompilerRanges

LEMMA SelectionFailsRanges ==
    ASSUME ModuleInv, RangeInv, NEW c \in Client, SelectionFails(c) PROVE RangeInv'
<1>1. /\ caller' = [caller EXCEPT ![c] = [pc |-> "thrown"]]
      /\ UNCHANGED <<module_mutex, modules, compiler, manifest, published, builds>>
  BY DEF SelectionFails
<1>2. CompilingHasCompiler'
  BY <1>1 DEF ModuleInv, ModuleTypes, RangeInv, CompilingHasCompiler
<1>. QED
  BY <1>1, <1>2 DEF RangeInv, ModuleRanges, CompilerRanges

LEMMA RangesStay ==
    ASSUME RangeInv, UNCHANGED mvars PROVE RangeInv'
<1>1. UNCHANGED <<module_mutex, modules, caller, compiler, manifest, published, builds>>
  BY DEF mvars
<1>. QED
  BY <1>1 DEF RangeInv, ModuleRanges, CompilerRanges, CompilingHasCompiler

----------------------------------------------------------------------------
(* The locks that a killed process leaves to its compilers.                *)

\* A compiler inherits from its own process; the lock of a dead client is open in a
\* compiler that runs.
InheritInv ==
    /\ inherited = [c \in Client |-> inherited[c]]
    /\ \A c \in Client : \A d \in inherited[c] : ProcessOf[d] = ProcessOf[c]
    /\ \A c \in Client : flocked[c] # "no" => select[c].pc # "dead" \/ c \in Kept({})

\* What is kept if no compiler but gone ends.
LEMMA KeptWithout ==
    ASSUME NEW c \in Client, NEW d \in Kept({}), UNCHANGED inherited,
           \A e \in Client \ {c} : Module!Running(e) => Module!Running(e)',
           Module!Running(c)' \/ d \in Kept({c})
    PROVE  d \in Kept({})'
<1>1. PICK e \in Client : Module!Running(e) /\ d \in inherited[e]
  BY DEF Kept
<1>2. CASE Module!Running(e)'
  BY <1>1, <1>2 DEF Kept
<1>3. CASE ~Module!Running(e)'
  <2>1. e = c /\ d \in Kept({c})
    BY <1>1, <1>3
  <2>2. PICK f \in Client \ {c} : Module!Running(f) /\ d \in inherited[f]
    BY <2>1 DEF Kept
  <2>. QED
    BY <2>2 DEF Kept
<1>. QED
  BY <1>2, <1>3

LEMMA CompilerStepInherit ==
    ASSUME PlanInv, FileInv, InheritInv, NEW c \in Client, CompilerStep(c) PROVE InheritInv'
<1>1. /\ flocked' = [d \in Client |->
            IF select[d].pc = "dead" /\ compiler'[c].pc = "exited" /\ d \notin Kept({c})
            THEN "no" ELSE flocked[d]]
      /\ Module!CompilerStep(c) /\ UNCHANGED <<select, inherited>>
  BY DEF CompilerStep
<1>2. (\A e \in Client \ {c} : compiler'[e] = compiler[e]) /\ compiler'[c].pc # "out"
  <2>1. compiler \in [Client -> CompilerState]
    BY DEF PlanInv, ModuleInv, ModuleTypes
  <2>2. \E state : state.pc # "out" /\ compiler' = [compiler EXCEPT ![c] = state]
    <3>. DEFINE m == compiler[c].mapping
    <3>1. CASE Module!LockIdentity(c)
      BY <3>1, [pc |-> "locked", mapping |-> m].pc # "out" DEF Module!LockIdentity
    <3>2. CASE Module!CacheHit(c)
      BY <3>2 DEF Module!CacheHit, Module!Exited
    <3>3. CASE Module!LockBudget(c)
      BY <3>3 DEF Module!LockBudget, Module!Exited
    <3>4. CASE Module!RunCompiler(c)
      BY <3>4 DEF Module!RunCompiler, Module!NvccEnds
    <3>5. CASE Module!Charge(c)
      BY <3>5 DEF Module!Charge, Module!Exited
    <3>6. CASE Module!Describe(c)
      BY <3>6 DEF Module!Describe
    <3>7. CASE Module!Publish(c)
      BY <3>7 DEF Module!Publish, Module!Exited
    <3>. QED
      BY <1>1, <3>1, <3>2, <3>3, <3>4, <3>5, <3>6, <3>7 DEF Module!CompilerStep
  <2>. QED
    BY <2>1, <2>2
<1>3. \A e \in Client \ {c} : Module!Running(e) => Module!Running(e)'
  BY <1>2 DEF Module!Running
<1>4. ASSUME NEW d \in Client, flocked'[d] # "no", select'[d].pc = "dead"
      PROVE  d \in Kept({})'
  <2>1. flocked[d] # "no" /\ select[d].pc = "dead"
    BY <1>1, <1>4
  <2>2. d \in Kept({})
    BY <2>1 DEF InheritInv
  <2>3. Module!Running(c)' \/ d \in Kept({c})
    BY <1>1, <1>2, <1>4, <2>1 DEF Module!Running
  <2>. QED
    BY <1>1, <1>3, <2>2, <2>3, KeptWithout
<1>. QED
  BY <1>1, <1>4 DEF InheritInv

LEMMA KillCompilerInherit ==
    ASSUME PlanInv, FileInv, InheritInv, NEW c \in Client, KillCompiler(c) PROVE InheritInv'
<1>1. /\ flocked' = [d \in Client |->
            IF select[d].pc = "dead" /\ d \notin Kept({c}) THEN "no" ELSE flocked[d]]
      /\ Module!KillCompiler(c) /\ UNCHANGED <<select, inherited>>
  BY DEF KillCompiler
<1>2. \A e \in Client \ {c} : compiler'[e] = compiler[e]
  BY <1>1 DEF PlanInv, ModuleInv, ModuleTypes, Module!KillCompiler
<1>3. \A e \in Client \ {c} : Module!Running(e) => Module!Running(e)'
  BY <1>2 DEF Module!Running
<1>4. ASSUME NEW d \in Client, flocked'[d] # "no", select'[d].pc = "dead"
      PROVE  d \in Kept({})'
  <2>1. flocked[d] # "no" /\ select[d].pc = "dead" /\ d \in Kept({c})
    BY <1>1, <1>4
  <2>2. d \in Kept({})
    BY <2>1 DEF InheritInv
  <2>. QED
    BY <1>1, <1>3, <2>1, <2>2, KeptWithout
<1>. QED
  BY <1>1, <1>4 DEF InheritInv

\* A kill takes the locks that no compiler has inherited.
LEMMA KillProcessInherit ==
    ASSUME InheritInv, NEW p \in Process, KillProcess(p) PROVE InheritInv'
<1>. DEFINE clients == { c \in Client : ProcessOf[c] = p }
<1>1. /\ \A d \in Client : select'[d] = IF d \in clients THEN [pc |-> "dead"] ELSE select[d]
      /\ \A d \in Client : flocked'[d] = IF d \in clients \ Kept({}) THEN "no" ELSE flocked[d]
      /\ UNCHANGED <<compiler, inherited>>
  BY DEF KillProcess, Selection!Kill, Module!KillClients
<1>2. Kept({})' = Kept({})
  BY <1>1 DEF Kept, Module!Running
<1>3. ASSUME NEW d \in Client, flocked'[d] # "no", select'[d].pc = "dead"
      PROVE  d \in Kept({})
  BY <1>1, <1>3 DEF InheritInv
<1>. QED
  BY <1>1, <1>2, <1>3 DEF InheritInv

\* A compiler that starts inherits from its own process; it ran before for nobody.
LEMMA PrepareStepInherit ==
    ASSUME PlanInv, InheritInv, NEW c \in Client, PrepareStep(c) PROVE InheritInv'
<1>1. UNCHANGED <<flocked, select>>
  BY DEF PrepareStep, svars
<1>2. CASE Module!Load(c) /\ UNCHANGED inherited
  <2>1. Kept({})' = Kept({})
    BY <1>2 DEF Module!Load, Kept, Module!Running
  <2>. QED
    BY <1>1, <1>2, <2>1 DEF InheritInv
<1>3. CASE /\ Module!Enter(c)
           /\ inherited' = IF caller'[c].pc = "compiling"
                           THEN [inherited EXCEPT ![c] = Descriptors(c)] ELSE inherited
  <2>1. compiler[c].pc = "out" /\ \A e \in Client \ {c} : compiler'[e] = compiler[e]
    BY <1>3 DEF PlanInv, ModuleInv, ModuleTypes, BudgetInv, NoCompiler, Module!Enter
  <2>2. /\ inherited' = [e \in Client |-> inherited'[e]]
        /\ \A e \in Client \ {c} : inherited'[e] = inherited[e]
        /\ \A e \in Client : \A d \in inherited'[e] : ProcessOf[d] = ProcessOf[e]
    <3>1. \A d \in Descriptors(c) : ProcessOf[d] = ProcessOf[c]
      BY DEF Descriptors
    <3>. QED
      BY <1>3, <3>1 DEF InheritInv
  <2>3. \A d \in Kept({}) : d \in Kept({})'
    <3>. TAKE d \in Kept({})
    <3>1. PICK e \in Client : Module!Running(e) /\ d \in inherited[e]
      BY DEF Kept
    <3>2. e # c
      BY <2>1, <3>1 DEF Module!Running
    <3>3. Module!Running(e)' /\ d \in inherited'[e]
      BY <2>1, <2>2, <3>1, <3>2 DEF Module!Running
    <3>. QED
      BY <3>3 DEF Kept
  <2>. QED
    BY <1>1, <2>2, <2>3 DEF InheritInv
<1>. QED
  BY <1>2, <1>3 DEF PrepareStep

\* A step of a call changes the call and the lock of its client only.
LEMMA OwnStep ==
    ASSUME FileInv, SelectionInv, NEW c \in Client,
           \/ \E k \in Key : Selection!BeginLookup(c, k)
           \/ \E k \in Key, a \in Mapping : Selection!BeginStore(c, k, a)
           \/ Selection!Step(c)
           \/ Selection!StoreTorn(c)
    PROVE  /\ select'[c].pc # "dead"
           /\ \A d \in Client \ {c} : select'[d] = select[d] /\ flocked'[d] = flocked[d]
<1>1. /\ select = [d \in Client |-> select[d]]
      /\ flocked = [d \in Client |-> flocked[d]]
  BY DEF SelectionInv, FileInv, FileTypes
<1>2. \A d \in Client \ {c} : select'[d] = select[d]
  BY <1>1 DEF Selection!BeginLookup, Selection!BeginStore, Selection!StoreTorn, Selection!Step,
              Selection!LookupOpen, Selection!LookupLock, Selection!LookupRead, Selection!StoreOpen,
              Selection!StoreLock, Selection!StoreWrite, Selection!StoreWriteText,
              Selection!StoreFlush, Selection!StoreUnlock
<1>3. \A d \in Client \ {c} : flocked'[d] = flocked[d]
  BY <1>1 DEF Selection!BeginLookup, Selection!BeginStore, Selection!StoreTorn, Selection!Step,
              Selection!LookupOpen, Selection!LookupLock, Selection!LookupRead, Selection!StoreOpen,
              Selection!StoreLock, Selection!StoreWrite, Selection!StoreWriteText,
              Selection!StoreFlush, Selection!StoreUnlock
<1>4. select'[c].pc # "dead"
  <2>1. CASE \E k \in Key : Selection!BeginLookup(c, k)
    BY <1>1, <2>1 DEF Selection!BeginLookup
  <2>2. CASE \E k \in Key, a \in Mapping : Selection!BeginStore(c, k, a)
    BY <1>1, <2>2 DEF Selection!BeginStore
  <2>3. CASE Selection!LookupRead(c)
    <3>1. \E k, m : select'[c] = [pc |-> "found", key |-> k, match |-> m]
      BY <1>1, <2>3 DEF Selection!LookupRead
    <3>. QED
      BY <3>1
  <2>4. ASSUME NEW pc, select[c].pc \in Looking \cup Storing, select' = [select EXCEPT ![c].pc = pc],
               pc # "dead"
        PROVE  select'[c].pc # "dead"
    BY <2>4, Advanced
  <2>5. CASE Selection!LookupOpen(c)
    <3>1. select[c].pc \in Looking /\ \E pc \in Looking : select' = [select EXCEPT ![c].pc = pc]
      BY <2>5, Zenon DEF Selection!LookupOpen, Looking
    <3>. QED
      BY <2>4, <3>1 DEF Looking
  <2>6. CASE Selection!LookupLock(c)
    BY <2>4, <2>6 DEF Selection!LookupLock, Looking
  <2>7. CASE \/ Selection!StoreOpen(c) \/ Selection!StoreLock(c) \/ Selection!StoreWrite(c)
             \/ Selection!StoreWriteText(c) \/ Selection!StoreFlush(c)
             \/ Selection!StoreUnlock(c) \/ Selection!StoreTorn(c)
    <3>1. select[c].pc \in Storing /\ \E pc \in Storing : select' = [select EXCEPT ![c].pc = pc]
      BY <2>7 DEF Selection!StoreOpen, Selection!StoreLock, Selection!StoreWrite, Selection!StoreWriteText,
                  Selection!StoreFlush, Selection!StoreUnlock, Selection!StoreTorn, Storing
    <3>. QED
      BY <2>4, <3>1 DEF Storing
  <2>. QED
    BY <2>1, <2>2, <2>3, <2>5, <2>6, <2>7 DEF Selection!Step
<1>. QED
  BY <1>2, <1>3, <1>4

LEMMA OwnStepInherit ==
    ASSUME InheritInv, NEW c \in Client, select'[c].pc # "dead",
           \A d \in Client \ {c} : select'[d] = select[d] /\ flocked'[d] = flocked[d],
           UNCHANGED <<compiler, inherited>>
    PROVE  InheritInv'
<1>1. Kept({})' = Kept({})
  BY DEF Kept, Module!Running
<1>. QED
  BY <1>1 DEF InheritInv

LEMMA LibraryInherit ==
    ASSUME InheritInv, UNCHANGED <<flocked, select, compiler, inherited>> PROVE InheritInv'
<1>1. Kept({})' = Kept({})
  BY DEF Kept, Module!Running
<1>. QED
  BY <1>1 DEF InheritInv

\* nvcc that errs goes on to charge its time.
LEMMA CompilerErrsInherit ==
    ASSUME PlanInv, InheritInv, NEW c \in Client, CompilerErrs(c) PROVE InheritInv'
<1>1. UNCHANGED <<flocked, select, inherited>> /\ Module!CompilerErrs(c)
  BY DEF CompilerErrs, svars
<1>2. \A e \in Client : Module!Running(e) => Module!Running(e)'
  <2>1. compiler \in [Client -> CompilerState]
    BY DEF PlanInv, ModuleInv, ModuleTypes
  <2>. DEFINE state == [pc |-> "charge", mapping |-> compiler[c].mapping,
                        spent |-> compiler[c].spent + 1, build |-> 0]
  <2>2. compiler' = [compiler EXCEPT ![c] = state] /\ state.pc = "charge"
    BY <1>1 DEF Module!CompilerErrs, Module!NvccEnds
  <2>. HIDE DEF state
  <2>. QED
    BY <2>1, <2>2 DEF Module!Running
<1>3. \A d \in Kept({}) : d \in Kept({})'
  BY <1>1, <1>2 DEF Kept
<1>. QED
  BY <1>1, <1>3 DEF InheritInv

----------------------------------------------------------------------------
(* Both caches together.                                                   *)
CreationInv == PlanInv /\ FileInv /\ RangeInv /\ InheritInv

LEMMA FileStays ==
    ASSUME FileInv, UNCHANGED svars PROVE FileInv'
<1>1. UNCHANGED <<created, file, flocked, select, latest, fresh>>
  BY DEF svars
<1>. QED
  BY <1>1 DEF FileInv, FileTypes, FileExists, WriterLocks, PendingRecord, AnswersLatest, FreshLatest

LEMMA SelectionStepFile ==
    ASSUME FileInv, SelectionInv, NEW c \in Client, Selection!Step(c) PROVE FileInv'
BY LookupGoesQuiet, LookupReadQuiet, StoreOpenQuiet, StoreLockQuiet, StoreWriteKeeps,
   StoreWriteTextKeeps, StoreFlushKeeps, StoreUnlockQuiet DEF Selection!Step

LEMMA CreationKeeps == ASSUME CreationInv, [Next]_pvars PROVE CreationInv'
<1>0. PlanInv'
  BY StepKeeps DEF CreationInv
<1>. SUFFICES FileInv' /\ RangeInv' /\ InheritInv'
  BY <1>0 DEF CreationInv
<1>a. PlanInv /\ ModuleInv /\ SelectionInv /\ FileInv /\ RangeInv /\ InheritInv
  BY DEF CreationInv, PlanInv
<1>1. ASSUME NEW c \in Client, CreatePlan(c) PROVE FileInv' /\ RangeInv' /\ InheritInv'
  <2>1. PICK k \in Key : \/ Selection!BeginLookup(c, k)
                         \/ \E m \in Tuned[c] : Selection!BeginStore(c, k, m)
    BY <1>1 DEF CreatePlan
  <2>2. UNCHANGED <<compiler, inherited>> /\ UNCHANGED mvars
    BY <1>1 DEF CreatePlan, mvars
  <2>3. \A m \in Tuned[c] : m \in Mapping
    BY PlanAssumption
  <2>4. FileInv'
    BY <1>a, <2>1, <2>3, BeginLookupQuiet, BeginStoreQuiet
  <2>5. /\ select'[c].pc # "dead"
        /\ \A d \in Client \ {c} : select'[d] = select[d] /\ flocked'[d] = flocked[d]
    BY <1>a, <2>1, <2>3, OwnStep
  <2>. QED
    BY <1>a, <2>2, <2>4, <2>5, RangesStay, OwnStepInherit
<1>2. ASSUME NEW c \in Client, SelectionStep(c) PROVE FileInv' /\ RangeInv' /\ InheritInv'
  <2>1. Selection!Step(c) /\ UNCHANGED <<compiler, inherited>> /\ UNCHANGED mvars
    BY <1>2 DEF SelectionStep, mvars
  <2>. QED
    BY <1>a, <2>1, SelectionStepFile, RangesStay, OwnStep, OwnStepInherit
<1>3. ASSUME NEW c \in Client, StoreTorn(c) PROVE FileInv' /\ RangeInv' /\ InheritInv'
  <2>1. Selection!StoreTorn(c) /\ UNCHANGED <<compiler, inherited>> /\ UNCHANGED mvars
    BY <1>3 DEF StoreTorn, mvars
  <2>. QED
    BY <1>a, <2>1, StoreTornKeeps, RangesStay, OwnStep, OwnStepInherit
<1>4. ASSUME NEW c \in Client, PreparePlan(c) PROVE FileInv' /\ RangeInv' /\ InheritInv'
  <2>1. /\ UNCHANGED svars /\ UNCHANGED <<flocked, select, inherited>>
        /\ Selected(c)[1] \in Mapping /\ Module!Prepare(c, Selected(c)[1])
    BY <1>4, <1>a, SelectedMapping DEF PreparePlan, svars
  <2>2. compiler' = compiler
    BY <2>1 DEF Module!Prepare
  <2>. QED
    BY <1>a, <2>1, <2>2, FileStays, LibraryStepRanges, LibraryInherit
<1>5. ASSUME NEW c \in Client, SelectionFails(c) PROVE FileInv' /\ RangeInv' /\ InheritInv'
  <2>1. UNCHANGED svars /\ UNCHANGED <<flocked, select, compiler, inherited>>
    BY <1>5 DEF SelectionFails, svars
  <2>. QED
    BY <1>5, <1>a, <2>1, FileStays, SelectionFailsRanges, LibraryInherit
<1>6. ASSUME NEW c \in Client, PrepareStep(c) PROVE FileInv' /\ RangeInv' /\ InheritInv'
  <2>1. UNCHANGED svars /\ (Module!Enter(c) \/ Module!Load(c))
    BY <1>6 DEF PrepareStep
  <2>. QED
    BY <1>6, <1>a, <2>1, FileStays, LibraryStepRanges, PrepareStepInherit
<1>7. ASSUME NEW c \in Client, CompilerStep(c) PROVE FileInv' /\ RangeInv' /\ InheritInv'
  <2>. DEFINE left == IF compiler'[c].pc = "exited" THEN Client \ Kept({c}) ELSE {}
  <2>1. /\ flocked' = [d \in Client |-> IF select[d].pc = "dead" /\ d \in left THEN "no" ELSE flocked[d]]
        /\ UNCHANGED <<created, file, select, latest, fresh>>
        /\ Module!CompilerStep(c)
    BY <1>7 DEF CompilerStep
  <2>. HIDE DEF left
  <2>. QED
    BY <1>7, <1>a, <2>1, OrphanUnlockQuiet, CompilerStepRanges, CompilerStepInherit
<1>8. ASSUME NEW c \in Client, CompilerErrs(c) PROVE FileInv' /\ RangeInv' /\ InheritInv'
  <2>1. UNCHANGED svars /\ Module!CompilerErrs(c)
    BY <1>8 DEF CompilerErrs
  <2>. QED
    BY <1>8, <1>a, <2>1, FileStays, CompilerStepRanges, CompilerErrsInherit
<1>9. ASSUME NEW c \in Client, KillCompiler(c) PROVE FileInv' /\ RangeInv' /\ InheritInv'
  <2>. DEFINE left == Client \ Kept({c})
  <2>1. /\ flocked' = [d \in Client |-> IF select[d].pc = "dead" /\ d \in left THEN "no" ELSE flocked[d]]
        /\ UNCHANGED <<created, file, select, latest, fresh>>
        /\ Module!KillCompiler(c)
    BY <1>9 DEF KillCompiler
  <2>. HIDE DEF left
  <2>. QED
    BY <1>9, <1>a, <2>1, OrphanUnlockQuiet, KillCompilerRanges, KillCompilerInherit
<1>10. ASSUME NEW p \in Process, KillProcess(p) PROVE FileInv' /\ RangeInv' /\ InheritInv'
  BY <1>10, <1>a, KillQuiet, KillClientsRanges, KillProcessInherit DEF KillProcess
<1>11. CASE UNCHANGED pvars
  <2>1. UNCHANGED svars /\ UNCHANGED mvars /\ UNCHANGED <<flocked, select, compiler, inherited>>
    BY <1>11 DEF pvars, svars, mvars
  <2>. QED
    BY <1>a, <2>1, FileStays, RangesStay, LibraryInherit
<1>. QED
  BY <1>1, <1>2, <1>3, <1>4, <1>5, <1>6, <1>7, <1>8, <1>9, <1>10, <1>11
     DEF Next, CreationStep, Finished

LEMMA InitCreation == Init => CreationInv
<1>. SUFFICES ASSUME Init PROVE FileInv /\ RangeInv /\ InheritInv
  BY InitInv DEF CreationInv
<1>1. /\ created = FALSE /\ file = << >> /\ flocked = [c \in Client |-> "no"]
      /\ select = [c \in Client |-> [pc |-> "out"]]
      /\ latest = [k \in Key |-> << >>] /\ fresh = [c \in Client |-> {}]
      /\ inherited = [c \in Client |-> {}]
  BY DEF Init, Selection!Init, Selection!Out
<1>2. /\ module_mutex = [p \in Process |-> Nobody]
      /\ modules = [p \in Process |-> [m \in Mapping |-> 0]]
      /\ caller = [c \in Client |-> [pc |-> "out"]]
      /\ compiler = [c \in Client |-> [pc |-> "out"]]
      /\ builds = 0
      /\ manifest = [m \in Mapping |-> 0] /\ published = [m \in Mapping |-> 0]
  BY DEF Init, Module!Init, Module!Out, Nobody
<1>3. FileTypes
  <2>1. file \in Seq(Token) /\ created \in BOOLEAN
    BY <1>1, EmptySeq
  <2>2. flocked \in [Client -> {"no", "shared", "exclusive"}] /\ fresh = [c \in Client |-> fresh[c]]
    BY <1>1
  <2>3. latest \in [Key -> {<< >>} \cup {<<a>> : a \in Mapping}]
    BY <1>1
  <2>. QED
    BY <2>1, <2>2, <2>3 DEF FileTypes
<1>4. AnswersLatest
  <2>1. Ends(<< >>) = {}
    BY DEF Ends
  <2>2. \A k \in Key : AnswerOf(<< >>, k) = << >>
    BY <2>1 DEF AnswerOf, EndsOf
  <2>. QED
    BY <1>1, <2>2 DEF AnswersLatest
<1>5. FileExists /\ WriterLocks /\ PendingRecord /\ FreshLatest
  BY <1>1 DEF FileExists, WriterLocks, PendingRecord, FreshLatest, Writing, Looking
<1>6. RangeInv
  BY <1>2 DEF RangeInv, ModuleRanges, CompilerRanges, CompilingHasCompiler, HasBuild
<1>7. InheritInv
  BY <1>1 DEF InheritInv
<1>. QED
  BY <1>3, <1>4, <1>5, <1>6, <1>7 DEF FileInv

----------------------------------------------------------------------------

\* The types of both caches; a compiler inherits only from its own process, and a
\* lock is held by a client that is alive or by a compiler that runs, so that a kill
\* never leaves a lock to nobody (CacheLock of c_api.cpp).
THEOREM PlanTypesCorrect == Spec => []TypeOK
<1>1. CreationInv /\ [Next]_pvars => CreationInv'
  BY CreationKeeps
<1>2. CreationInv => TypeOK
  <2>. SUFFICES ASSUME CreationInv PROVE TypeOK
    OBVIOUS
  <2>1. Module!TypeOK
    BY ModuleOK DEF CreationInv, PlanInv
  <2>2. Selection!TypeOK
    BY DEF CreationInv, FileInv, FileTypes, FileExists, FreshLatest, Selection!TypeOK, Looking
  <2>. QED
    BY <2>1, <2>2 DEF CreationInv, InheritInv, TypeOK
<1>. QED
  BY InitCreation, <1>1, <1>2, PTL DEF Spec

\* A lookup answers what was the last complete record of its key while it ran, however
\* the writes of other threads and processes are cut, and even where it reads without
\* the lock, for as long as no record is joined to a cut one (lookup_cache, store_cache).
THEOREM LookupCorrect == Spec => []LookupFresh
<1>1. CreationInv /\ [Next]_pvars => CreationInv'
  BY CreationKeeps
<1>2. CreationInv => LookupFresh
  BY CacheOperators DEF CreationInv, FileInv, FreshLatest, LookupFresh, Selection!LookupFresh
<1>. QED
  BY InitCreation, <1>1, <1>2, PTL DEF Spec
=============================================================================
