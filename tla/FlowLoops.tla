------------------------------ MODULE FlowLoops -----------------------------
(***************************************************************************)
(* The two searches of one save (save_document_to_target): the compiler    *)
(* places the nodes, then the validator looks for the steps that no        *)
(* trigger reaches.  Both see one graph here: a flow in which no message   *)
(* is edited, whose links the validator and the edges of the compiler      *)
(* agree on.                                                               *)
(***************************************************************************)
EXTENDS FlowLayout

CONSTANTS
    None,           \* an absent value
    NodeSets        \* the sets of nodes a flow may have

ASSUME NodeSetsAssumption == NodeSets \subseteq SUBSET Ids

VARIABLES stack, reached

Search == INSTANCE FlowReachability

searchVars == <<stack, reached>>
loopVars   == <<vars, searchVars>>

LoopsInit ==
    /\ Search!Init
    /\ nodes \in NodeSets
    /\ triggers \subseteq nodes
    /\ InitSearch

Place    == Next /\ UNCHANGED searchVars
Validate == Done /\ Search!Next /\ UNCHANGED vars

LoopsSafety == LoopsInit /\ [][Place \/ Validate]_loopVars
LoopsSpec   == LoopsSafety /\ WF_loopVars(Place \/ Validate)

\* The validator's loop ends with the least set that holds the triggers and the
\* successors of its members.
ResultIsLeastClosedSet == Search!ResultIsLeastClosedSet

\* The validator's loop ends, cycles or not.
LoopTerminates == Search!LoopTerminates

(***************************************************************************)
(* The searches agree: in a flow the validator finds connected, with its   *)
(* links between its nodes, the first column shows the triggers and        *)
(* nothing else.                                                           *)
(***************************************************************************)
ConnectedFlowStartsWithTriggers ==
    /\ Done
    /\ Search!Done
    /\ nodes \subseteq reached
    /\ links \subseteq nodes \X nodes
    => \A n \in nodes : Column(n) = 0 <=> n \in triggers
=============================================================================
