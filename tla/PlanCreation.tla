---------------------------- MODULE PlanCreation ----------------------------
(***************************************************************************)
(* Plan creation through the C API (cubutterflyCreatePlan): the selection  *)
(* cache or a measurement names the mapping, and the plan's constructor    *)
(* prepares the mapping's module.  Both caches are shared by the threads   *)
(* and the processes of an installation, and a thread that starts a        *)
(* compiler passes on the cache descriptors its process has open.          *)
(***************************************************************************)
EXTENDS Naturals, Sequences, FiniteSets

CONSTANTS
    Client, Process, ProcessOf,
    Key,
    Mapping,     \* the algorithms, all of which need a module
    Static,      \* the mapping the static model selects for a key
    Tab, Newline,
    Oversized, Duration, Timeout, Budget,
    Tuned,       \* bound: the mappings a client's measurement may favour, or none
                 \* where the client uses the default policy
    MaxFaults    \* bound: kills, full disks and compiler errors

ASSUME PlanAssumption ==
    /\ ProcessOf \in [Client -> Process]
    /\ Static \in [Key -> Mapping]
    /\ Tuned \in [Client -> SUBSET Mapping]
    /\ Tab # Newline /\ {Tab, Newline} \cap (Key \cup Mapping) = {}
    /\ Oversized \subseteq Mapping
    /\ Duration \in [Mapping -> Nat \ {0}]
    /\ {Timeout, Budget, MaxFaults} \subseteq Nat

VARIABLES
    created, file, flocked, select, latest, fresh,
    module_mutex, modules, caller, compiler, compile_lock, budget_lock, spent,
    manifest, published, builds, burned, uncharged,
    inherited,   \* per client: the clients whose lock descriptor its compiler has
    faults

Selection == INSTANCE SelectionCache WITH Algorithm <- Mapping
Module == INSTANCE ModuleCache

\* Nobody is not a client.
ASSUME ClientAssumption == Module!Nobody \notin Client

\* A part of a key or of an algorithm holds no newline either.
ASSUME PartAssumption == \A t \in Key \cup Mapping : Selection!Part(t) # Newline

svars == <<created, file, flocked, select, latest, fresh>>
mvars == <<module_mutex, modules, caller, compiler, compile_lock, budget_lock, spent,
           manifest, published, builds, burned, uncharged>>
pvars == <<svars, mvars, inherited, faults>>

Init ==
    /\ Selection!Init
    /\ Module!Init
    /\ inherited = [c \in Client |-> {}]
    /\ faults = 0

----------------------------------------------------------------------------
\* The default policy looks the key up; the measuring one tunes and stores the
\* mapping that wins.
CreatePlan(c) ==
    /\ caller[c] = [pc |-> "out"]
    /\ \E k \in Key :
        \/ /\ Tuned[c] = {}
           /\ Selection!BeginLookup(c, k)
        \/ \E m \in Tuned[c] : Selection!BeginStore(c, k, m)
    /\ UNCHANGED <<mvars, inherited, faults>>

SelectionStep(c) ==
    /\ Selection!Step(c)
    /\ UNCHANGED <<mvars, inherited, faults>>

StoreTorn(c) ==
    /\ faults < MaxFaults
    /\ faults' = faults + 1
    /\ Selection!StoreTorn(c)
    /\ UNCHANGED <<mvars, inherited>>

\* The mapping selected, or << >> where the answer of the cache is no algorithm.
Selected(c) ==
    CASE select[c].pc = "stored" -> <<select[c].algorithm>>
      [] select[c].pc = "found" ->
            IF select[c].match = << >> THEN <<Static[select[c].key]>>
            ELSE IF select[c].match \in {<<m>> : m \in Mapping} THEN select[c].match
            ELSE << >>

\* The constructor asks for the module.
PreparePlan(c) ==
    /\ select[c].pc \in {"found", "stored"}
    /\ Selected(c) # << >>
    /\ Module!Prepare(c, Selected(c)[1])
    /\ UNCHANGED <<svars, inherited, faults>>

\* An answer that is no algorithm, and a store that failed, end the creation.
SelectionFails(c) ==
    /\ caller[c] = [pc |-> "out"]
    /\ \/ select[c].pc = "thrown"
       \/ select[c].pc = "found" /\ Selected(c) = << >>
    /\ caller' = [caller EXCEPT ![c] = [pc |-> "thrown"]]
    /\ UNCHANGED <<svars, module_mutex, modules, compiler, compile_lock, budget_lock, spent,
                   manifest, published, builds, burned, uncharged, inherited, faults>>

\* The lock descriptors that are open in the process of a client.
Descriptors(c) ==
    { d \in Client :
        /\ ProcessOf[d] = ProcessOf[c]
        /\ \/ select[d].pc \in {"shared", "exclusive", "write", "flush", "written"}
           \/ select[d].pc = "read" /\ flocked[d] = "shared" }

\* The descriptors are opened without O_CLOEXEC, so a compiler inherits them.
PrepareStep(c) ==
    /\ \/ /\ Module!Enter(c)
          /\ inherited' = IF caller'[c].pc = "compiling"
                          THEN [inherited EXCEPT ![c] = Descriptors(c)] ELSE inherited
       \/ /\ Module!Load(c)
          /\ UNCHANGED inherited
    /\ UNCHANGED <<svars, faults>>

\* Descriptors that a compiler other than those of gone still has open.
Kept(gone) == UNION { inherited[d] : d \in { e \in Client \ gone : Module!Running(e) } }

\* A lock whose owner is dead ends with the last compiler that has it open.
CompilerStep(c) ==
    /\ Module!CompilerStep(c)
    /\ flocked' = [d \in Client |->
            IF select[d].pc = "dead" /\ compiler'[c].pc = "exited" /\ d \notin Kept({c})
            THEN "no" ELSE flocked[d]]
    /\ UNCHANGED <<created, file, select, latest, fresh, inherited, faults>>

CompilerErrs(c) ==
    /\ faults < MaxFaults
    /\ faults' = faults + 1
    /\ Module!CompilerErrs(c)
    /\ UNCHANGED <<svars, inherited>>

KillProcess(p) ==
    LET clients == { c \in Client : ProcessOf[c] = p }
    IN  /\ faults < MaxFaults
        /\ faults' = faults + 1
        /\ \E c \in clients : select[c].pc # "dead"
        /\ Selection!Kill(clients, Kept({}))
        /\ Module!KillClients(clients)
        /\ UNCHANGED inherited

KillCompiler(c) ==
    /\ faults < MaxFaults
    /\ faults' = faults + 1
    /\ Module!KillCompiler(c)
    /\ flocked' = [d \in Client |->
            IF select[d].pc = "dead" /\ d \notin Kept({c}) THEN "no" ELSE flocked[d]]
    /\ UNCHANGED <<created, file, select, latest, fresh, inherited>>

----------------------------------------------------------------------------
\* A creation from its call to its plan, its exception or its process's end.
Creating(c) ==
    select[c].pc # "out" /\ caller[c].pc \notin {"prepared", "thrown", "dead"}

Finished ==
    /\ \A c \in Client : caller[c].pc \in {"prepared", "thrown", "dead"} /\ ~Module!Running(c)
    /\ UNCHANGED pvars

CreationStep(c) ==
    \/ SelectionStep(c)
    \/ PreparePlan(c)
    \/ SelectionFails(c)
    \/ PrepareStep(c)

Next ==
    \/ \E c \in Client :
        \/ CreatePlan(c)
        \/ CreationStep(c)
        \/ CompilerStep(c)
        \/ StoreTorn(c)
        \/ CompilerErrs(c)
        \/ KillCompiler(c)
    \/ \E p \in Process : KillProcess(p)
    \/ Finished

Spec == Init /\ [][Next]_pvars

\* As long as a thread or a compiler can go on, one of them does; nobody has to
\* create a plan, and nothing has to fail.
FairSpec ==
    /\ Spec
    /\ WF_pvars(\E c \in Client : CreationStep(c) \/ CompilerStep(c))

----------------------------------------------------------------------------
(* Properties.                                                             *)

\* Types: those of both caches; a compiler inherits only from its own process,
\* and a lock is held by a client that is alive or by a compiler that runs.
TypeOK ==
    /\ Selection!TypeOK
    /\ Module!TypeOK
    /\ \A c \in Client : \A d \in inherited[c] : ProcessOf[d] = ProcessOf[c]
    /\ \A c \in Client : flocked[c] # "no" => select[c].pc # "dead" \/ c \in Kept({})

\* A lookup answers what was the last complete record of its key while it ran,
\* for as long as no record is joined to a cut one (lookup_cache, store_cache).
LookupFresh == Selection!LookupFresh

\* A process runs the one published build of a mapping and its manifest describes
\* that very build, whoever was killed on the way (prepare_register_module;
\* compile_mapping writes the manifest before os.replace).
BuildsPublished == Module!OneBuild /\ Module!ManifestDescribes

\* The compilers of all processes keep to the budget of the installation, unless
\* one dies with the budget file in its hands (compilation_budget).
BudgetKept == Module!BudgetKept

\* Every creation ends in a plan or an exception, also when a killed process has
\* left a lock to its compiler.
EveryCallReturns == \A c \in Client : Creating(c) ~> ~Creating(c)
=============================================================================
