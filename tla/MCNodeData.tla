----------------------------- MODULE MCNodeData -----------------------------
(* Instances of NodeData for TLC. *)
EXTENDS NodeData
=============================================================================
