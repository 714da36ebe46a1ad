--------------------------- MODULE BatchDataflow ----------------------------
(***************************************************************************)
(* What the batch pipeline promises, without streams or events: the tiles  *)
(* of a sequence of invocations flow in order through stages that work     *)
(* concurrently, each boundary between two stages holds at most two tiles, *)
(* and an invocation begins when the one before it has ended.  Tiles are   *)
(* numbered across invocations.                                            *)
(***************************************************************************)
EXTENDS Naturals

CONSTANT Invocations

VARIABLES
    groups, tiles,       \* the stages, and the tiles of an invocation
    started, finished    \* per group: the tiles begun and completed

bvars == <<groups, tiles, started, finished>>

Group == 0 .. groups - 1
Last == groups - 1

Init ==
    /\ groups \in Nat \ {0, 1} /\ tiles \in Nat \ {0}
    /\ started = [g \in Group |-> 0]
    /\ finished = [g \in Group |-> 0]

Start(g) ==
    LET n == started[g]
        first == n - (n % tiles)      \* the first tile of n's invocation
    IN  /\ n < tiles * Invocations
        /\ finished[g] = n
        /\ finished[Last] >= first
        /\ g # 0 => finished[g - 1] > n
        /\ (g # Last /\ n >= first + 2) => finished[g + 1] > n - 2
        /\ started' = [started EXCEPT ![g] = n + 1]
        /\ UNCHANGED <<groups, tiles, finished>>

Finish(g) ==
    /\ finished[g] < started[g]
    /\ finished' = [finished EXCEPT ![g] = @ + 1]
    /\ UNCHANGED <<groups, tiles, started>>

Next == \E g \in Group : Start(g) \/ Finish(g)

Spec == Init /\ [][Next]_bvars
=============================================================================
