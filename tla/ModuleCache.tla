---------------------------- MODULE ModuleCache -----------------------------
(***************************************************************************)
(* On-demand modules: prepare_shared and prepare_register_module           *)
(* (src/jit_module.cpp) and the compiler process they run                  *)
(* (scripts/compile_module.py).  The threads of a process share its loaded *)
(* modules under module_mutex, which is held while the compiler runs.  The *)
(* compilers of all processes share a cache directory per module identity, *)
(* locked while a module is built, and a budget of compile time.           *)
(*                                                                         *)
(* The templates, the compiler and the device do not change, so that the   *)
(* identity of a module is its mapping.  A build is a number of its own.   *)
(* A process, or its compiler, may be killed; a compiler that has lost its *)
(* process runs on.                                                        *)
(***************************************************************************)
EXTENDS Naturals, FiniteSets

CONSTANTS
    Client,      \* threads that create plans
    Process,
    ProcessOf,   \* the process of a client
    Mapping,
    Oversized,   \* mappings whose module exceeds the device's resources
    Duration,    \* time that nvcc takes for a mapping
    Timeout,     \* the compiler's own limit, 0 for none
    Budget       \* CUBUTTERFLY_COMPILE_BUDGET_SECONDS, 0 for none

Nobody == "nobody"

VARIABLES
    module_mutex,  \* per process: the client that holds it
    modules,       \* per process and mapping: the build it has loaded, 0 for none
    caller,        \* per client: its call of prepare
    compiler,      \* per client: the compiler process it has started
    compile_lock,  \* per mapping: the client whose compiler holds compile.lock
    budget_lock,   \* the client whose compiler holds the budget file
    spent,         \* the number in the budget file
    manifest,      \* per mapping: the build that manifest.json describes
    published,     \* per mapping: the build in module.so
    builds,        \* builds so far
    burned,        \* history: time that compilers have spent in nvcc
    uncharged      \* history: a compiler was killed while it held the budget file

mvars == <<module_mutex, modules, caller, compiler, compile_lock, budget_lock, spent,
           manifest, published, builds, burned, uncharged>>

callerVars == <<module_mutex, modules, caller>>
budgetVars == <<budget_lock, spent, burned, uncharged>>
cacheVars == <<manifest, published, builds>>

Out == [pc |-> "out"]
Exited(ok) == [pc |-> "exited", ok |-> ok]

Init ==
    /\ module_mutex = [p \in Process |-> Nobody]
    /\ modules = [p \in Process |-> [m \in Mapping |-> 0]]
    /\ caller = [c \in Client |-> Out]
    /\ compiler = [c \in Client |-> Out]
    /\ compile_lock = [m \in Mapping |-> Nobody]
    /\ budget_lock = Nobody
    /\ spent = 0
    /\ manifest = [m \in Mapping |-> 0]
    /\ published = [m \in Mapping |-> 0]
    /\ builds = 0
    /\ burned = 0
    /\ uncharged = FALSE

----------------------------------------------------------------------------
(* The library.                                                            *)

Prepare(c, m) ==
    /\ caller[c] = Out
    /\ caller' = [caller EXCEPT ![c] = [pc |-> "mutex", mapping |-> m]]
    /\ UNCHANGED <<module_mutex, modules, compiler, compile_lock, budgetVars, cacheVars>>

\* With the mutex: the module is there, or the compiler is started.
Enter(c) ==
    LET p == ProcessOf[c]
        m == caller[c].mapping
    IN  /\ caller[c].pc = "mutex"
        /\ module_mutex[p] = Nobody
        /\ IF modules[p][m] # 0
           THEN /\ caller' = [caller EXCEPT ![c] = [pc |-> "prepared", mapping |-> m]]
                /\ UNCHANGED <<module_mutex, compiler>>
           ELSE /\ caller' = [caller EXCEPT ![c] = [pc |-> "compiling", mapping |-> m]]
                /\ module_mutex' = [module_mutex EXCEPT ![p] = c]
                /\ compiler' = [compiler EXCEPT ![c] = [pc |-> "identified", mapping |-> m]]
        /\ UNCHANGED <<modules, compile_lock, budgetVars, cacheVars>>

\* Mutant: the mutex is unlocked by hand, where a module has been loaded.
LeaveLoaded(c, loaded) ==
    module_mutex' = IF loaded THEN [module_mutex EXCEPT ![ProcessOf[c]] = Nobody] ELSE module_mutex

\* The guard's destructor unlocks the mutex, exception or not.
Leave(c, loaded) == module_mutex' = [module_mutex EXCEPT ![ProcessOf[c]] = Nobody]

\* The compiler failed, or printed the path of a module to load and to measure
\* against the device.
Load(c) ==
    LET p == ProcessOf[c]
        m == caller[c].mapping
        loaded == compiler[c].ok /\ m \notin Oversized
    IN  /\ caller[c].pc = "compiling"
        /\ compiler[c].pc = "exited"
        /\ modules' = IF loaded THEN [modules EXCEPT ![p][m] = published[m]] ELSE modules
        /\ caller' = [caller EXCEPT ![c] =
                [pc |-> IF loaded THEN "prepared" ELSE "thrown", mapping |-> m]]
        /\ Leave(c, loaded)
        /\ UNCHANGED <<compiler, compile_lock, budgetVars, cacheVars>>

----------------------------------------------------------------------------
(* The compiler process of client c.                                       *)

Wanted(c) == compiler[c].mapping

\* The locks of a compiler that exits or is killed go with it.
Unlock(c) ==
    /\ compile_lock' = [m \in Mapping |-> IF compile_lock[m] = c THEN Nobody ELSE compile_lock[m]]
    /\ budget_lock' = IF budget_lock = c THEN Nobody ELSE budget_lock

LockIdentity(c) ==
    /\ compiler[c].pc = "identified"
    /\ compile_lock[Wanted(c)] = Nobody
    /\ compile_lock' = [compile_lock EXCEPT ![Wanted(c)] = c]
    /\ compiler' = [compiler EXCEPT ![c] = [pc |-> "locked", mapping |-> @.mapping]]
    /\ UNCHANGED <<callerVars, budgetVars, cacheVars>>

\* Mutant: the directory is not looked at again under the lock.
CachedNever(m) == FALSE

Cached(m) == published[m] # 0

CacheHit(c) ==
    /\ compiler[c].pc = "locked"
    /\ Cached(Wanted(c))
    /\ compiler' = [compiler EXCEPT ![c] = Exited(TRUE)]
    /\ Unlock(c)
    /\ UNCHANGED <<callerVars, spent, burned, uncharged, cacheVars>>

\* Mutant: the budget file is not locked.
BudgetOpen == TRUE

BudgetFree == budget_lock = Nobody

\* The rest of the budget is nvcc's limit; an exhausted budget is an error.
LockBudget(c) ==
    /\ compiler[c].pc = "locked"
    /\ ~Cached(Wanted(c))
    /\ IF Budget = 0
       THEN /\ compiler' = [compiler EXCEPT ![c] =
                    [pc |-> "nvcc", mapping |-> @.mapping, spent |-> 0, limit |-> Timeout]]
            /\ UNCHANGED <<compile_lock, budget_lock>>
       ELSE /\ BudgetFree
            /\ IF spent >= Budget
               THEN compiler' = [compiler EXCEPT ![c] = Exited(FALSE)] /\ Unlock(c)
               ELSE /\ budget_lock' = c
                    /\ compiler' = [compiler EXCEPT ![c] =
                            [pc |-> "nvcc", mapping |-> @.mapping, spent |-> spent,
                             limit |-> IF Timeout # 0 /\ Timeout < Budget - spent
                                       THEN Timeout ELSE Budget - spent]]
                    /\ UNCHANGED compile_lock
    /\ UNCHANGED <<callerVars, spent, burned, uncharged, cacheVars>>

\* nvcc ends after a time, with a build or none; the budget file is truncated.
NvccEnds(c, elapsed, build) ==
    /\ compiler[c].pc = "nvcc"
    /\ compiler' = [compiler EXCEPT ![c] =
            [pc |-> "charge", mapping |-> @.mapping, spent |-> @.spent + elapsed, build |-> build]]
    /\ builds' = IF build # 0 THEN build ELSE builds
    /\ burned' = burned + elapsed
    /\ spent' = IF Budget = 0 THEN spent ELSE 0
    /\ UNCHANGED <<callerVars, compile_lock, budget_lock, uncharged, manifest, published>>

\* It builds the module in the staging directory, or is stopped at its limit.
RunCompiler(c) ==
    LET limit == compiler[c].limit
        duration == Duration[Wanted(c)]
    IN  /\ compiler[c].pc = "nvcc"
        /\ IF limit # 0 /\ duration > limit
           THEN NvccEnds(c, limit, 0)
           ELSE NvccEnds(c, duration, builds + 1)

CompilerErrs(c) == NvccEnds(c, 1, 0)

\* The new total is written, and the budget file released; without a build the
\* compiler ends.
Charge(c) ==
    /\ compiler[c].pc = "charge"
    /\ spent' = IF Budget = 0 THEN spent ELSE compiler[c].spent
    /\ IF compiler[c].build = 0
       THEN /\ compiler' = [compiler EXCEPT ![c] = Exited(FALSE)]
            /\ Unlock(c)
       ELSE /\ compiler' = [compiler EXCEPT ![c] =
                    [pc |-> "built", mapping |-> @.mapping, build |-> @.build]]
            /\ budget_lock' = IF budget_lock = c THEN Nobody ELSE budget_lock
            /\ UNCHANGED compile_lock
    /\ UNCHANGED <<callerVars, burned, uncharged, cacheVars>>

Described(c) == compiler[c].build

Describe(c) ==
    /\ compiler[c].pc = "built"
    /\ manifest' = [manifest EXCEPT ![Wanted(c)] = Described(c)]
    /\ compiler' = [compiler EXCEPT ![c] =
            [pc |-> "described", mapping |-> @.mapping, build |-> @.build]]
    /\ UNCHANGED <<callerVars, compile_lock, budgetVars, published, builds>>

\* os.replace, then the staging directory goes and the lock is released.
Publish(c) ==
    /\ compiler[c].pc = "described"
    /\ published' = [published EXCEPT ![Wanted(c)] = compiler[c].build]
    /\ compiler' = [compiler EXCEPT ![c] = Exited(TRUE)]
    /\ Unlock(c)
    /\ UNCHANGED <<callerVars, spent, burned, uncharged, manifest, builds>>

----------------------------------------------------------------------------
Running(c) == compiler[c].pc \notin {"out", "exited"}

\* The process of clients is killed; its compilers go on.
KillClients(clients) ==
    /\ caller' = [c \in Client |-> IF c \in clients THEN [pc |-> "dead"] ELSE caller[c]]
    /\ module_mutex' = [p \in Process |->
            IF module_mutex[p] \in clients THEN Nobody ELSE module_mutex[p]]
    /\ modules' = [p \in Process |->
            IF \E c \in clients : ProcessOf[c] = p THEN [m \in Mapping |-> 0] ELSE modules[p]]
    /\ UNCHANGED <<compiler, compile_lock, budgetVars, cacheVars>>

\* A compiler is killed.
KillCompiler(c) ==
    /\ Running(c)
    /\ uncharged' = (uncharged \/ budget_lock = c)
    /\ compiler' = [compiler EXCEPT ![c] = Exited(FALSE)]
    /\ Unlock(c)
    /\ UNCHANGED <<callerVars, spent, burned, cacheVars>>

Step(c) ==
    \/ Enter(c)
    \/ Load(c)

CompilerStep(c) ==
    \/ LockIdentity(c)
    \/ CacheHit(c)
    \/ LockBudget(c)
    \/ RunCompiler(c)
    \/ Charge(c)
    \/ Describe(c)
    \/ Publish(c)

----------------------------------------------------------------------------
(* Properties.                                                             *)

\* Types: what is loaded or described is a build, and a limit is never negative.
TypeOK ==
    /\ module_mutex \in [Process -> Client \cup {Nobody}]
    /\ modules \in [Process -> [Mapping -> 0 .. builds]]
    /\ compile_lock \in [Mapping -> Client \cup {Nobody}]
    /\ budget_lock \in Client \cup {Nobody}
    /\ spent \in Nat
    /\ manifest \in [Mapping -> 0 .. builds]
    /\ published \in [Mapping -> 0 .. builds]
    /\ \A c \in Client :
        /\ compiler[c].pc = "nvcc" /\ Budget # 0 => compiler[c].limit \in 1 .. Budget
        /\ caller[c].pc = "compiling" => compiler[c].pc # "out"

\* All processes run the same build of a mapping: once published, a module is
\* never built again, whoever was killed on the way.
OneBuild ==
    \A p \in Process, m \in Mapping :
        modules[p][m] # 0 => modules[p][m] = published[m]

\* The manifest of a published module describes that very build.
ManifestDescribes == \A m \in Mapping : published[m] # 0 => manifest[m] = published[m]

\* "One installation shares an independent NVCC budget across subprocesses": as
\* long as no compiler dies with the budget file in its hands, the compilers of
\* all processes together take no more time than the budget.
BudgetKept == Budget # 0 /\ ~uncharged => burned <= Budget
=============================================================================
