-------------------------- MODULE MCHardwareTuner --------------------------
(* Two workloads: one with an alias and two designs, one with a single design. *)
EXTENDS HardwareTuner

W == <<"fft", "ntt">>
InventoryOf == [w \in Members(W) |-> IF w = "fft" THEN <<"a", "b">> ELSE <<"c">>]
Evolves == [c \in {"a", "b", "c", "d"} |-> IF c = "b" THEN {"d"} ELSE {}]
Design == [c \in {"a", "b", "c", "d", "ifft", "intt"} |-> c]
Time == [c \in {"a", "b", "c", "d", "ifft", "intt"} |->
            CASE c = "a" -> 3 [] c = "b" -> 2 [] c = "c" -> 2 [] c = "d" -> 1
              [] c = "ifft" -> 4 [] c = "intt" -> 4]
IncumbentNames == [w \in Members(W) |-> IF w = "fft" THEN "ifft" ELSE "intt"]
Owner == [c \in {"a", "b", "c", "d", "ifft", "intt"} |->
            IF c \in {"c", "intt"} THEN "ntt" ELSE "fft"]
PeerHas == [p \in {"gpu2"} |-> {[design |-> "a", latency |-> 1, samples |-> Trials, work |-> "fft"]}]
=============================================================================
