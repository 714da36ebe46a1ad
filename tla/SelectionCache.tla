--------------------------- MODULE SelectionCache ---------------------------
(***************************************************************************)
(* The selection cache of the C API (src/c_api.cpp): a file that plan      *)
(* creations of any thread and process append records to and read, under   *)
(* flock.  A record is key, tab, algorithm, newline; the last record of a  *)
(* key counts.                                                             *)
(*                                                                         *)
(* The file is a sequence of tokens.  A write may be cut: a record leaves  *)
(* the stream's buffer in one or two writes, a full disk takes a prefix,   *)
(* and a process may be killed at any step.                                *)
(***************************************************************************)
EXTENDS Naturals, Sequences, FiniteSets

CONSTANTS
    Client,      \* threads that create plans, of any process
    Key,         \* workload keys
    Algorithm,   \* serialized algorithms
    Tab, Newline \* the separators, which keys and algorithms do not contain

VARIABLES
    created,     \* whether the file exists
    file,        \* its tokens
    flocked,     \* per client: the lock its CacheLock descriptor holds
    select,      \* per client: its call of lookup_cache or store_cache
    latest,      \* history: per key, the algorithm of the last complete record
    fresh        \* history: per client, what its lookup may answer

svars == <<created, file, flocked, select, latest, fresh>>

\* What is left of a token that a cut goes through.
Part(token) == <<"part", token>>

Record(k, a) == <<k, Tab, a, Newline>>

\* What an incomplete write of a record leaves behind: a cut in the key, in the
\* algorithm, or in front of the newline.
Torn(k, a) == { <<Part(k)>>, <<k, Tab, Part(a)>>, <<k, Tab, a>> }

Out == [pc |-> "out"]

Init ==
    /\ created = FALSE
    /\ file = << >>
    /\ flocked = [c \in Client |-> "no"]
    /\ select = [c \in Client |-> Out]
    /\ latest = [k \in Key |-> << >>]
    /\ fresh = [c \in Client |-> {}]

----------------------------------------------------------------------------
(* Reading a line at a time.                                               *)

Newlines == { i \in DOMAIN file : file[i] = Newline }

\* The line that ends before position end.
LineBefore(end) ==
    LET starts == { i \in Newlines : i < end } \cup {0}
    IN  SubSeq(file, 1 + CHOOSE s \in starts : \A i \in starts : i <= s, end - 1)

\* Mutant: the last line counts without its newline.
LineEndsAnyhow == Newlines \cup {Len(file) + 1}

\* A line that ends with the file, not with a newline, is not read.
LineEnds == Newlines

IsRecordOf(k, line) == Len(line) >= 2 /\ line[1] = k /\ line[2] = Tab

\* The text behind the separator in the last line with this key; empty if none.
Match(k) ==
    LET ends == { e \in LineEnds : IsRecordOf(k, LineBefore(e)) }
        last == CHOOSE e \in ends : \A i \in ends : i <= e
    IN  IF ends = {} THEN << >> ELSE SubSeq(LineBefore(last), 3, Len(LineBefore(last)))

----------------------------------------------------------------------------
(* lookup_cache.                                                           *)

BeginLookup(c, k) ==
    /\ select[c] = Out
    /\ select' = [select EXCEPT ![c] = [pc |-> "open", key |-> k]]
    /\ fresh' = [fresh EXCEPT ![c] = {latest[k]}]
    /\ UNCHANGED <<created, file, flocked, latest>>

\* A file that does not exist cannot be opened, and then is not locked either.
LookupOpen(c) ==
    /\ select[c].pc = "open"
    /\ select' = [select EXCEPT ![c].pc = IF created THEN "shared" ELSE "read"]
    /\ UNCHANGED <<created, file, flocked, latest, fresh>>

LookupLock(c) ==
    /\ select[c].pc = "shared"
    /\ \A d \in Client : flocked[d] # "exclusive"
    /\ flocked' = [flocked EXCEPT ![c] = "shared"]
    /\ select' = [select EXCEPT ![c].pc = "read"]
    /\ UNCHANGED <<created, file, latest, fresh>>

\* Every line is read, and the lock released.
LookupRead(c) ==
    /\ select[c].pc = "read"
    /\ select' = [select EXCEPT ![c] =
            [pc |-> "found", key |-> @.key, match |-> Match(@.key)]]
    /\ flocked' = [flocked EXCEPT ![c] = "no"]
    /\ UNCHANGED <<created, file, latest, fresh>>

----------------------------------------------------------------------------
(* store_cache.                                                            *)

BeginStore(c, k, a) ==
    /\ select[c] = Out
    /\ select' = [select EXCEPT ![c] = [pc |-> "create", key |-> k, algorithm |-> a]]
    /\ UNCHANGED <<created, file, flocked, latest, fresh>>

StoreOpen(c) ==
    /\ select[c].pc = "create"
    /\ created' = TRUE
    /\ select' = [select EXCEPT ![c].pc = "exclusive"]
    /\ UNCHANGED <<file, flocked, latest, fresh>>

StoreLock(c) ==
    /\ select[c].pc = "exclusive"
    /\ \A d \in Client : flocked[d] = "no"
    /\ flocked' = [flocked EXCEPT ![c] = "exclusive"]
    /\ select' = [select EXCEPT ![c].pc = "write"]
    /\ UNCHANGED <<created, file, latest, fresh>>

\* The record of c is complete: it answers lookups of its key from now on.
Recorded(c) ==
    LET k == select[c].key
        a == <<select[c].algorithm>>
    IN  /\ latest' = [latest EXCEPT ![k] = a]
        /\ fresh' = [d \in Client |->
                IF select[d].pc \in {"open", "shared", "read"} /\ select[d].key = k
                THEN fresh[d] \cup {a} ELSE fresh[d]]

StoreWrite(c) ==
    /\ select[c].pc = "write"
    /\ file' = file \o Record(select[c].key, select[c].algorithm)
    /\ Recorded(c)
    /\ select' = [select EXCEPT ![c].pc = "written"]
    /\ UNCHANGED <<created, flocked>>

\* A long algorithm goes out at once, its newline with the flush.
StoreWriteText(c) ==
    /\ select[c].pc = "write"
    /\ file' = file \o <<select[c].key, Tab, select[c].algorithm>>
    /\ select' = [select EXCEPT ![c].pc = "flush"]
    /\ UNCHANGED <<created, flocked, latest, fresh>>

StoreFlush(c) ==
    /\ select[c].pc = "flush"
    /\ file' = Append(file, Newline)
    /\ Recorded(c)
    /\ select' = [select EXCEPT ![c].pc = "written"]
    /\ UNCHANGED <<created, flocked>>

StoreUnlock(c) ==
    /\ select[c].pc = "written"
    /\ flocked' = [flocked EXCEPT ![c] = "no"]
    /\ select' = [select EXCEPT ![c].pc = "stored"]
    /\ UNCHANGED <<created, file, latest, fresh>>

\* The disk is full: part of the record is written and store_cache throws.
StoreTorn(c) ==
    /\ select[c].pc = "write"
    /\ \E torn \in Torn(select[c].key, select[c].algorithm) : file' = file \o torn
    /\ flocked' = [flocked EXCEPT ![c] = "no"]
    /\ select' = [select EXCEPT ![c].pc = "thrown"]
    /\ UNCHANGED <<created, latest, fresh>>

----------------------------------------------------------------------------
\* Mutant: the locks of a killed process stay, as a lock file's would.
KillKeepsLocks(clients, inherited) ==
    /\ select' = [c \in Client |-> IF c \in clients THEN [pc |-> "dead"] ELSE select[c]]
    /\ UNCHANGED <<created, file, flocked, latest, fresh>>

\* The process of clients is killed.  Its locks go with its descriptors, except
\* those that a child process has inherited.
Kill(clients, inherited) ==
    /\ select' = [c \in Client |-> IF c \in clients THEN [pc |-> "dead"] ELSE select[c]]
    /\ flocked' = [c \in Client |-> IF c \in clients \ inherited THEN "no" ELSE flocked[c]]
    /\ UNCHANGED <<created, file, latest, fresh>>

\* The caller of a finished lookup or store goes on.
Return(c) ==
    /\ select[c].pc \in {"found", "stored", "thrown"}
    /\ select' = [select EXCEPT ![c] = Out]
    /\ UNCHANGED <<created, file, flocked, latest, fresh>>

Step(c) ==
    \/ LookupOpen(c)
    \/ LookupLock(c)
    \/ LookupRead(c)
    \/ StoreOpen(c)
    \/ StoreLock(c)
    \/ StoreWrite(c)
    \/ StoreWriteText(c)
    \/ StoreFlush(c)
    \/ StoreUnlock(c)

\* Clients that look up and store as they like, each in a process of its own
\* that may be killed.
Next ==
    \E c \in Client :
        \/ \E k \in Key : BeginLookup(c, k)
        \/ \E k \in Key, a \in Algorithm : BeginStore(c, k, a)
        \/ Step(c)
        \/ Return(c)
        \/ select[c].pc # "dead" /\ Kill({c}, {})

Spec == Init /\ [][Next]_svars

----------------------------------------------------------------------------
(* Properties.                                                             *)

\* Types: a lock is held only inside a call, and the history of a lookup
\* starts with it.
TypeOK ==
    /\ created \in BOOLEAN
    /\ file # << >> => created
    /\ flocked \in [Client -> {"no", "shared", "exclusive"}]
    /\ latest \in [Key -> {<< >>} \cup {<<a>> : a \in Algorithm}]
    /\ \A c \in Client : select[c].pc \in {"open", "found"} => fresh[c] # {}

\* Some complete line is not one record: a cut one with another behind it.
Joined ==
    \E e \in Newlines :
        LineBefore(e) \notin { <<k, Tab, a>> : k \in Key, a \in Algorithm }

\* A lookup answers what was the last complete record of its key at some moment
\* between its beginning and its end, for as long as no record was appended
\* behind a cut one: neither the shared lock that a lookup of a missing file
\* does without, nor a record that is being written, changes its answer.
LookupFresh ==
    \A c \in Client :
        select[c].pc = "found" => select[c].match \in fresh[c] \/ Joined

\* "A terminated writer's incomplete last record is not replayable": what a
\* lookup answers is an algorithm that some complete record holds.
TornNotReplayed ==
    \A c \in Client :
        select[c].pc = "found" => select[c].match \in {<< >>} \cup {<<a>> : a \in Algorithm}
=============================================================================
