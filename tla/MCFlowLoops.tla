----------------------------- MODULE MCFlowLoops ----------------------------
(* Instances of FlowLoops for TLC: all graphs over three ids, with three   *)
(* nodes or with two and a missing one.                                    *)
EXTENDS FlowLoops

MCNodeSets == {{1, 2}, {1, 2, 3}}
=============================================================================
