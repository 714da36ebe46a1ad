-------------------------- MODULE ButterflyStages ---------------------------
(***************************************************************************)
(* The register butterflies that the one-CTA pipeline and the fold         *)
(* pipeline share (src/hybrid_dataflow.cuh, hybrid_apply_register_stage).  *)
(*                                                                         *)
(* A value is the pair <<position, level>> of the element it belongs to    *)
(* and the radix-2 stages it has been through.  A butterfly on any other   *)
(* operands than the two of its stage, or with another twiddle, yields     *)
(* Garbage.  The exchange of registers between the lanes of a warp is      *)
(* abstracted: a stage maps the values of a token at once.                 *)
(***************************************************************************)
EXTENDS Integers

Garbage == <<0, -1>>

CeilDiv(a, b) == (a + b - 1) \div b
Least(a, b) == IF a < b THEN a ELSE b

\* op.apply on the operands a (left) and b (right): the element whose digit
\* `stage` is 0 and the one 2^stage further, at that level, and the twiddle of
\* the left one's low digits.
RightOperands(stage, offset, a, b) ==
    /\ a[2] = stage
    /\ b[2] = stage
    /\ b[1] = a[1] + 2^stage
    /\ (a[1] \div 2^stage) % 2 = 0
    /\ offset = a[1] % 2^stage

LogicalOffset(stage_base, subgraph_offset, offset) ==
    subgraph_offset + offset * 2^stage_base

\* hybrid_apply_register_stage on a token of token_points values.
RegisterStage(v, token_points, local_stage, stage_base, subgraph_offset) ==
    LET half     == 2^local_stage
        stage    == stage_base + local_stage
        Left(l)  == IF (l \div half) % 2 = 0 THEN l ELSE l - half
        Paired(l) ==
            RightOperands(stage, LogicalOffset(stage_base, subgraph_offset, Left(l) % half),
                          v[Left(l)], v[Left(l) + half])
    IN  [l \in 0 .. token_points - 1 |->
            IF Paired(l) THEN <<v[l][1], stage + 1>> ELSE Garbage]

\* The stages of one role, in order; those past the fold's last are skipped.
RoleApplied(v, role, role_stages, active_stages, stage_base, subgraph_offset) ==
    LET after[fused \in 0 .. role_stages] ==
            IF fused = 0 THEN v
            ELSE LET local_stage == role * role_stages + (fused - 1)
                 IN  IF local_stage < active_stages
                     THEN RegisterStage(after[fused - 1], 2^active_stages, local_stage,
                                        stage_base, subgraph_offset)
                     ELSE after[fused - 1]
    IN  after[role_stages]

\* A token is an independent butterfly subgraph: its offset, and the element
\* that is its value `local`, in a fold that starts at stage_base.
SubgraphOffset(token, stage_base) == token % 2^stage_base

SubgraphPosition(token, stage_base, active_stages, local) ==
    LET subgraph_base == (token \div 2^stage_base) * 2^(stage_base + active_stages)
    IN  (subgraph_base + SubgraphOffset(token, stage_base)) + local * 2^stage_base
=============================================================================
