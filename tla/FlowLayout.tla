----------------------------- MODULE FlowLayout -----------------------------
(***************************************************************************)
(* assign_positions (dsl/layout.py): where the editor shows the nodes of a *)
(* compiled flow.  A search from the roots gives every node its column;    *)
(* the nodes of a column stand under each other in the order of their ids. *)
(*                                                                         *)
(* The queue of the search is a set of entries: a second copy of an entry  *)
(* is skipped when it is popped.  Which entry is popped is left open: a    *)
(* node is labelled again when a shorter way to it turns up, so what holds *)
(* here does not depend on the order of the queue or of the edges.         *)
(***************************************************************************)
EXTENDS Integers, FiniteSets

CONSTANT Ids        \* node ids, as numbers: their order is that of sorted()

ASSUME IdsAssumption == Ids \subseteq Int /\ IsFiniteSet(Ids)

VARIABLES
    nodes,          \* ids of the nodes of the flow
    triggers,       \* trigger_ids
    links,          \* source and target of the edges, but for those that enter
                    \*   by the selected-message-target handle
    queue,          \* entries <<node_id, node_depth>>
    depth           \* depth[n], or Unset

vars == <<nodes, triggers, links, queue, depth>>
graph == <<nodes, triggers, links>>

Unset == -1

\* The keys of indegree: a target that is no node of the flow has one too.
Known    == nodes \cup {l[2] : l \in links}
Sources  == {n \in Known : \A l \in links : l[2] # n}        \* indegree 0

\* Faulty: only nodes that nothing leads to are roots.
SourcesOnly == IF Sources # {} THEN Sources ELSE nodes

Roots ==
    LET roots == (triggers \cap Known) \cup Sources
    IN  IF roots # {} THEN roots ELSE nodes

TypeOK ==
    /\ nodes \subseteq Ids
    /\ triggers \subseteq nodes
    /\ links \subseteq Ids \X Ids
    /\ queue \subseteq Ids \X Nat
    /\ depth \in [Ids -> Nat \cup {Unset}]

InitGraph ==
    /\ nodes \in SUBSET Ids
    /\ triggers \in SUBSET nodes
    /\ links \in SUBSET (Ids \X Ids)

InitSearch ==
    /\ queue = {<<n, 0>> : n \in Roots}
    /\ depth = [n \in Ids |-> Unset]

Init == InitGraph /\ InitSearch

Labelled(n)   == depth[n] # Unset
AsNear(entry) == Labelled(entry[1]) /\ depth[entry[1]] <= entry[2]

\* Faulty: the entry is looked at and stays in the queue.
SkipUnpopped(entry) ==
    /\ AsNear(entry)
    /\ UNCHANGED <<graph, queue, depth>>

Skip(entry) ==              \* current is not None and current <= node_depth
    /\ AsNear(entry)
    /\ queue' = queue \ {entry}
    /\ UNCHANGED <<graph, depth>>

\* Faulty: the entries of the neighbours carry the depth of the node.
LabelInPlace(entry) ==
    /\ ~AsNear(entry)
    /\ depth' = [depth EXCEPT ![entry[1]] = entry[2]]
    /\ queue' = (queue \ {entry})
                  \cup {<<m, entry[2]>> : m \in {l[2] : l \in {k \in links : k[1] = entry[1]}}}
    /\ UNCHANGED graph

Label(entry) ==
    /\ ~AsNear(entry)
    /\ depth' = [depth EXCEPT ![entry[1]] = entry[2]]
    /\ queue' = (queue \ {entry})
                  \cup {<<l[2], entry[2] + 1>> : l \in {k \in links : k[1] = entry[1]}}
    /\ UNCHANGED graph

Next == \E entry \in queue : Skip(entry) \/ Label(entry)

Safety == Init /\ [][Next]_vars
Spec   == Safety /\ WF_vars(Next)

Done == queue = {}
-----------------------------------------------------------------------------
(* The positions. *)

Column(n) == IF Labelled(n) THEN depth[n] ELSE 0             \* setdefault
Placed    == nodes \cup {n \in Ids : Labelled(n)}            \* keys of positions

\* Faulty: the nodes the search did not find are numbered apart.
RowOfFound(n) ==
    Cardinality({m \in Placed : Column(m) = Column(n) /\ m < n /\ (Labelled(m) <=> Labelled(n))})

Row(n) == Cardinality({m \in Placed : Column(m) = Column(n) /\ m < n})

Position(n) == <<520 * Column(n), 240 * Row(n)>>
-----------------------------------------------------------------------------
(***************************************************************************)
(* The inductive invariant.  Every root and every neighbour of a labelled  *)
(* node is labelled as near as it has to be, or is queued; a label is that *)
(* of a root, or comes from a node one step nearer; and no label or entry  *)
(* is below what any potential, a bound on the distances that holds at the *)
(* roots and along the links, allows.                                      *)
(***************************************************************************)
Reaches(n, d) == (Labelled(n) /\ depth[n] <= d) \/ <<n, d>> \in queue

NothingForgotten ==
    /\ \A n \in Roots : Reaches(n, 0)
    /\ \A l \in links : Labelled(l[1]) => Reaches(l[2], depth[l[1]] + 1)

ComesFrom(n, d) ==
    \/ d = 0 /\ n \in Roots
    \/ \E l \in links : l[2] = n /\ Labelled(l[1]) /\ depth[l[1]] + 1 <= d

EveryLabelHasASource ==
    /\ \A n \in Ids : Labelled(n) => ComesFrom(n, depth[n])
    /\ \A entry \in queue : ComesFrom(entry[1], entry[2])

Potentials ==
    {p \in [Ids -> 0 .. Cardinality(Ids)] :
        /\ \A n \in Roots : p[n] = 0
        /\ \A l \in links : p[l[2]] <= p[l[1]] + 1}

NothingTooNear ==
    \A p \in Potentials :
        /\ \A n \in Ids : Labelled(n) => p[n] <= depth[n]
        /\ \A entry \in queue : p[entry[1]] <= entry[2]

LayoutInvariant == TypeOK /\ NothingForgotten /\ EveryLabelHasASource /\ NothingTooNear

(***************************************************************************)
(* The column of a node is its distance from the nearest root: roots stand *)
(* in the first column, no link leads more than one column to the right,   *)
(* and each other node has a predecessor in the column before its own.     *)
(***************************************************************************)
ColumnsAreDistances ==
    Done =>
        /\ \A n \in Roots : depth[n] = 0
        /\ \A l \in links : Labelled(l[1]) =>
              Labelled(l[2]) /\ depth[l[2]] <= depth[l[1]] + 1
        /\ \A n \in Ids : Labelled(n) /\ n \notin Roots =>
              \E l \in links : l[2] = n /\ Labelled(l[1]) /\ depth[n] = depth[l[1]] + 1

(***************************************************************************)
(* Whatever the graph, also one with cycles, dangling edges or parts that  *)
(* no root leads to, no two nodes are shown at one place.                  *)
(***************************************************************************)
NodesStandApart ==
    Done => \A m, n \in Placed : Position(m) = Position(n) => m = n

\* The search ends, cycles or not.
SearchEnds == <>Done
=============================================================================
