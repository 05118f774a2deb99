-------------------------- MODULE FlowReachability --------------------------
(***************************************************************************)
(* The loop of reachable_from_triggers (dsl/validator.py): a stack of      *)
(* steps to visit, popped one at a time.  The stack may hold a step twice, *)
(* and the second copy is skipped; the order of the stack is left open, so *)
(* what holds here holds for any order.                                    *)
(***************************************************************************)
EXTENDS FlowDocument

VARIABLES
    triggers,       \* trigger_ids
    links,          \* adjacency, as a set of pairs
    stack,          \* copies of each step on the stack
    reached         \* reachable

vars == <<triggers, links, stack, reached>>

TypeOK ==
    /\ triggers \subseteq Ids
    /\ links \subseteq Ids \X Ids
    /\ stack \in [Ids -> Nat]
    /\ reached \subseteq Ids

Init ==
    /\ triggers \in SUBSET Ids
    /\ links \in SUBSET (Ids \X Ids)
    /\ stack = [n \in Ids |-> IF n \in triggers THEN 1 ELSE 0]
    /\ reached = {}

\* if node_id in reachable: continue
Skip(n) ==
    /\ stack[n] > 0
    /\ n \in reached
    /\ stack' = [stack EXCEPT ![n] = @ - 1]
    /\ UNCHANGED <<triggers, links, reached>>

\* Faulty: the successors of a step are pushed only if it was a trigger.
VisitTrigger(n) ==
    /\ stack[n] > 0
    /\ n \notin reached
    /\ reached' = reached \cup {n}
    /\ stack' = [m \in Ids |-> (IF m = n THEN stack[m] - 1 ELSE stack[m])
                                + (IF <<n, m>> \in links /\ n \in triggers /\ m \notin reached'
                                   THEN 1 ELSE 0)]
    /\ UNCHANGED <<triggers, links>>

\* Faulty: a step is pushed though it has been reached, and not skipped.
VisitAgain(n) ==
    /\ stack[n] > 0
    /\ reached' = reached \cup {n}
    /\ stack' = [m \in Ids |-> IF <<n, m>> \in links THEN 1 ELSE IF m = n THEN 0 ELSE stack[m]]
    /\ UNCHANGED <<triggers, links>>

\* reachable.add, then push the successors that have not been reached.
Visit(n) ==
    /\ stack[n] > 0
    /\ n \notin reached
    /\ reached' = reached \cup {n}
    /\ stack' = [m \in Ids |-> (IF m = n THEN stack[m] - 1 ELSE stack[m])
                                + (IF <<n, m>> \in links /\ m \notin reached' THEN 1 ELSE 0)]
    /\ UNCHANGED <<triggers, links>>

Next == \E n \in Ids : Skip(n) \/ Visit(n)

Safety == Init /\ [][Next]_vars
Spec   == Safety /\ WF_vars(Next)

Done == \A n \in Ids : stack[n] = 0

(***************************************************************************)
(* The inductive invariant: what has been found is on the stack or         *)
(* reached, its successors too, and nothing else is.                       *)
(***************************************************************************)
Found == reached \cup {n \in Ids : stack[n] > 0}

NothingForgotten ==
    /\ triggers \subseteq Found
    /\ \A l \in links : l[1] \in reached => l[2] \in Found

NothingInvented ==
    \A S \in SUBSET Ids : triggers \subseteq S /\ ClosedUnder(S, links) => Found \subseteq S

ReachabilityInvariant == TypeOK /\ NothingForgotten /\ NothingInvented

-----------------------------------------------------------------------------
\* Whatever the order of the visits, the loop of reachable_from_triggers ends
\* with the least set that contains the triggers and every successor of a
\* member: no connected step is called unreachable, no unconnected one
\* reachable.
ResultIsLeastClosedSet == Done => reached = Reachable(triggers, links)

\* The loop ends, cycles of routes or not.
LoopTerminates == <>Done
=============================================================================
