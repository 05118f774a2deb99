--------------------------- MODULE FlowLoopsProofs --------------------------
(***************************************************************************)
(* Proofs about the two searches of one save, for every finite set of ids, *)
(* every graph and every order in which the searches go through it: the    *)
(* placement of the nodes, then the loop of the validator, then both.      *)
(***************************************************************************)
EXTENDS FlowLoops, FiniteSetTheorems, TLAPS

LEMMA InitialTypes == Init => TypeOK
BY DEF Init, InitGraph, InitSearch, TypeOK, Roots, Known, Sources, Unset

LEMMA InitialInvariant == Init => LayoutInvariant
<1> SUFFICES ASSUME Init PROVE LayoutInvariant
  OBVIOUS
<1>1. TypeOK
  BY InitialTypes
<1>2. /\ \A n \in Ids : ~Labelled(n)
      /\ queue = {<<n, 0>> : n \in Roots}
      /\ Roots \subseteq Ids
  BY <1>1 DEF Init, InitSearch, TypeOK, Labelled, Roots, Known, Sources
<1>3. NothingForgotten
  BY <1>1, <1>2 DEF NothingForgotten, Reaches, TypeOK
<1>4. EveryLabelHasASource
  BY <1>1, <1>2 DEF EveryLabelHasASource, ComesFrom, TypeOK
<1>5. NothingTooNear
  BY <1>1, <1>2 DEF NothingTooNear, Potentials, TypeOK
<1> QED
  BY <1>1, <1>3, <1>4, <1>5 DEF LayoutInvariant

\* Popping an entry that is no nearer than the label loses nothing.
LEMMA SkipKeepsInvariant ==
    ASSUME LayoutInvariant, NEW entry \in queue, Skip(entry)
    PROVE  LayoutInvariant'
<1> USE DEF LayoutInvariant
<1>1. /\ UNCHANGED <<nodes, triggers, links, depth>>
      /\ queue' = queue \ {entry}
      /\ Labelled(entry[1])
      /\ depth[entry[1]] <= entry[2]
  BY DEF Skip, AsNear, graph
<1>2. UNCHANGED Roots
  BY <1>1 DEF Roots, Known, Sources
<1>3. TypeOK'
  BY <1>1 DEF TypeOK
<1>4. ASSUME NEW n \in Ids, NEW d, Reaches(n, d) PROVE Reaches(n, d)'
  BY <1>1, <1>4 DEF Reaches, Labelled
<1>5. Roots \subseteq Ids
  BY DEF TypeOK, Roots, Known, Sources
<1>6. NothingForgotten'
  BY <1>1, <1>2, <1>4, <1>5 DEF NothingForgotten, Labelled, TypeOK
<1>7. EveryLabelHasASource'
  BY <1>1, <1>2 DEF EveryLabelHasASource, ComesFrom, Labelled
<1>8. NothingTooNear'
  BY <1>1, <1>2 DEF NothingTooNear, Potentials, Labelled
<1> QED
  BY <1>3, <1>6, <1>7, <1>8

\* Labelling a node nearer than before, and queueing its neighbours.
LEMMA LabelKeepsInvariant ==
    ASSUME LayoutInvariant, NEW entry \in queue, Label(entry)
    PROVE  LayoutInvariant'
<1> USE DEF LayoutInvariant
<1> DEFINE n == entry[1]
           d == entry[2]
<1>1. n \in Ids /\ d \in Nat /\ entry = <<n, d>>
  BY DEF TypeOK
<1>2. /\ UNCHANGED <<nodes, triggers, links>>
      /\ UNCHANGED Roots
  BY DEF Label, graph, Roots, Known, Sources
<1>3. /\ depth' = [depth EXCEPT ![n] = d]
      /\ queue' = (queue \ {entry})
                    \cup {<<l[2], d + 1>> : l \in {k \in links : k[1] = n}}
      /\ Labelled(n) => d < depth[n]
  BY <1>1 DEF Label, AsNear, TypeOK, Labelled, Unset
<1>4. TypeOK'
  BY <1>1, <1>2, <1>3 DEF TypeOK
<1>5. /\ \A m \in Ids : Labelled(m) => Labelled(m)' /\ depth'[m] <= depth[m]
      /\ Labelled(n)' /\ depth'[n] = d
      /\ \A m \in Ids : m # n => UNCHANGED Labelled(m) /\ depth'[m] = depth[m]
  <2>1. /\ depth'[n] = d
        /\ \A m \in Ids : m # n => depth'[m] = depth[m]
    BY <1>1, <1>3 DEF TypeOK
  <2> QED
    BY <1>1, <1>3, <2>1 DEF TypeOK, Labelled, Unset
<1>6. ASSUME NEW m \in Ids, NEW e \in Nat, Reaches(m, e) PROVE Reaches(m, e)'
  BY <1>1, <1>3, <1>4, <1>5, <1>6 DEF Reaches, TypeOK, Unset, Labelled
<1>7. Roots \subseteq Ids
  BY DEF TypeOK, Roots, Known, Sources
<1>8. NothingForgotten'
  <2>1. \A m \in Roots : Reaches(m, 0)'
    BY <1>6, <1>7 DEF NothingForgotten
  <2>2. ASSUME NEW l \in links, Labelled(l[1])' PROVE Reaches(l[2], depth[l[1]] + 1)'
    <3>1. l[1] \in Ids /\ l[2] \in Ids
      BY DEF TypeOK
    <3>2. CASE l[1] = n
      BY <1>3, <1>5, <3>2 DEF Reaches
    <3>3. CASE l[1] # n
      <4>1. Labelled(l[1]) /\ depth'[l[1]] = depth[l[1]]
        BY <1>5, <2>2, <3>1, <3>3
      <4>2. depth[l[1]] + 1 \in Nat
        BY <3>1, <4>1 DEF TypeOK, Labelled, Unset
      <4>3. Reaches(l[2], depth[l[1]] + 1)
        BY <4>1 DEF NothingForgotten
      <4> HIDE DEF n, d
      <4>4. (Labelled(l[2])' /\ depth'[l[2]] <= depth[l[1]] + 1) \/ <<l[2], depth[l[1]] + 1>> \in queue'
        BY <1>6, <3>1, <4>2, <4>3 DEF Reaches
      <4> QED
        BY <4>1, <4>4 DEF Reaches
    <3> QED
      BY <3>2, <3>3
  <2> QED
    BY <1>2, <2>1, <2>2 DEF NothingForgotten
<1>9. EveryLabelHasASource'
  <2>1. ASSUME NEW m \in Ids, NEW e \in Nat, ComesFrom(m, e) PROVE ComesFrom(m, e)'
    BY <1>2, <1>4, <1>5, <2>1 DEF ComesFrom, TypeOK, Labelled, Unset
  <2>2. ComesFrom(n, d)
    BY <1>1 DEF EveryLabelHasASource
  <2>3. ASSUME NEW m \in Ids, Labelled(m)' PROVE ComesFrom(m, depth[m])'
    <3>1. CASE m = n
      BY <1>1, <1>5, <2>1, <2>2, <3>1 DEF ComesFrom
    <3>2. CASE m # n
      <4>1. ComesFrom(m, depth[m]) /\ depth[m] \in Nat /\ depth'[m] = depth[m]
        BY <1>5, <2>3, <3>2 DEF EveryLabelHasASource, TypeOK, Labelled, Unset
      <4> QED
        BY <2>1, <4>1 DEF ComesFrom
    <3> QED
      BY <3>1, <3>2
  <2>4. ASSUME NEW other \in queue' PROVE ComesFrom(other[1], other[2])'
    <3>1. CASE other \in queue
      BY <2>1, <3>1 DEF EveryLabelHasASource, TypeOK
    <3>2. CASE other \notin queue
      <4>1. PICK l \in links : l[1] = n /\ other = <<l[2], d + 1>>
        BY <1>3, <3>2
      <4> QED
        BY <1>1, <1>2, <1>5, <4>1 DEF ComesFrom
    <3> QED
      BY <3>1, <3>2
  <2> QED
    BY <2>3, <2>4 DEF EveryLabelHasASource
<1>10. NothingTooNear'
  <2> SUFFICES ASSUME NEW p \in Potentials
               PROVE  /\ \A m \in Ids : Labelled(m)' => p[m] <= depth'[m]
                      /\ \A other \in queue' : p[other[1]] <= other[2]
    BY <1>2 DEF NothingTooNear, Potentials
  <2>1. /\ \A m \in Ids : p[m] \in Int
        /\ \A l \in links : p[l[2]] <= p[l[1]] + 1
    BY DEF Potentials
  <2>2. p[n] <= d
    BY <1>1 DEF NothingTooNear
  <2>3. \A m \in Ids : Labelled(m)' => p[m] <= depth'[m]
    BY <1>5, <2>2 DEF NothingTooNear
  <2>4. ASSUME NEW other \in queue' PROVE p[other[1]] <= other[2]
    <3>1. CASE other \in queue
      BY <3>1 DEF NothingTooNear
    <3>2. CASE other \notin queue
      <4>1. PICK l \in links : l[1] = n /\ other = <<l[2], d + 1>>
        BY <1>3, <3>2
      <4>2. p[l[2]] <= p[n] + 1 /\ p[l[2]] \in Int /\ p[n] \in Int
        BY <1>1, <2>1, <4>1 DEF TypeOK
      <4> QED
        BY <1>1, <2>2, <4>1, <4>2
    <3> QED
      BY <3>1, <3>2
  <2> QED
    BY <2>3, <2>4
<1> QED
  BY <1>4, <1>8, <1>9, <1>10

\* What the search has labelled and queued is right at every turn of its loop, for
\* every graph and every order of the queue.
THEOREM LayoutInvariantHolds == Safety => []LayoutInvariant
<1>1. LayoutInvariant /\ [Next]_vars => LayoutInvariant'
  <2> SUFFICES ASSUME LayoutInvariant, [Next]_vars PROVE LayoutInvariant'
    OBVIOUS
  <2>1. CASE UNCHANGED vars
    <3>1. UNCHANGED <<nodes, triggers, links, queue, depth>>
      BY <2>1 DEF vars, graph
    <3>2. UNCHANGED Roots /\ \A n : Labelled(n)' = Labelled(n)
      BY <3>1 DEF Roots, Known, Sources, Labelled
    <3>3. TypeOK' /\ NothingForgotten'
      BY <3>1, <3>2 DEF LayoutInvariant, TypeOK, NothingForgotten, Reaches
    <3>4. EveryLabelHasASource'
      BY <3>1, <3>2 DEF LayoutInvariant, EveryLabelHasASource, ComesFrom
    <3>5. NothingTooNear'
      BY <3>1, <3>2 DEF LayoutInvariant, NothingTooNear, Potentials
    <3> QED
      BY <3>3, <3>4, <3>5 DEF LayoutInvariant
  <2>2. CASE Next
    BY <2>2, SkipKeepsInvariant, LabelKeepsInvariant DEF Next
  <2> QED
    BY <2>1, <2>2
<1> QED
  BY InitialInvariant, <1>1, PTL DEF Safety

\* When the queue is empty the columns are the distances from the nearest root: the
\* labels cannot be larger by NothingForgotten, nor smaller by EveryLabelHasASource.
THEOREM ColumnsAreRight == Safety => []ColumnsAreDistances
<1>1. LayoutInvariant => ColumnsAreDistances
  <2> SUFFICES ASSUME LayoutInvariant, Done PROVE ColumnsAreDistances
    BY DEF ColumnsAreDistances
  <2> USE DEF LayoutInvariant
  <2>1. \A n \in Roots : Labelled(n) /\ depth[n] <= 0
    BY DEF NothingForgotten, Reaches, Done
  <2>2. \A n \in Roots : n \in Ids
    BY DEF TypeOK, Roots, Known, Sources
  <2>3. \A n \in Roots : depth[n] = 0
    BY <2>1, <2>2 DEF TypeOK, Labelled, Unset
  <2>4. \A l \in links : Labelled(l[1]) => Labelled(l[2]) /\ depth[l[2]] <= depth[l[1]] + 1
    BY DEF NothingForgotten, Reaches, Done
  <2>5. ASSUME NEW n \in Ids, Labelled(n), n \notin Roots
        PROVE  \E l \in links : l[2] = n /\ Labelled(l[1]) /\ depth[n] = depth[l[1]] + 1
    <3>1. PICK l \in links : l[2] = n /\ Labelled(l[1]) /\ depth[l[1]] + 1 <= depth[n]
      BY <2>5 DEF EveryLabelHasASource, ComesFrom
    <3>2. depth[n] <= depth[l[1]] + 1 /\ l[1] \in Ids
      BY <2>4, <3>1 DEF TypeOK
    <3>3. depth[n] \in Int /\ depth[l[1]] \in Int
      BY <3>2 DEF TypeOK, Unset
    <3> QED
      BY <3>1, <3>2, <3>3
  <2> QED
    BY <2>3, <2>4, <2>5 DEF ColumnsAreDistances
<1> QED
  BY <1>1, LayoutInvariantHolds, PTL

\* Two nodes of one column have different rows: the row of the smaller id counts
\* fewer nodes.
THEOREM NodesAreApart == Safety => []NodesStandApart
<1>1. ASSUME LayoutInvariant, NEW m \in Placed, NEW n \in Placed, m < n
      PROVE  Position(m) # Position(n)
  <2> DEFINE Above(k) == {j \in Placed : Column(j) = Column(k) /\ j < k}
  <2>1. Placed \subseteq Ids
    BY <1>1 DEF Placed, LayoutInvariant, TypeOK
  <2>2. Placed \subseteq Int /\ IsFiniteSet(Placed)
    BY <2>1, IdsAssumption, FS_Subset
  <2>3. IsFiniteSet(Above(m)) /\ IsFiniteSet(Above(n))
    BY <2>2, FS_Subset
  <2>4. Cardinality(Above(m)) \in Nat /\ Cardinality(Above(n)) \in Nat
    BY <2>3, FS_CardinalityType
  <2>5. Column(m) \in Int /\ Column(n) \in Int
    BY <1>1, <2>1 DEF Column, LayoutInvariant, TypeOK, Labelled, Unset
  <2>6. SUFFICES ASSUME Column(m) = Column(n), Cardinality(Above(m)) = Cardinality(Above(n))
                 PROVE  FALSE
    BY <2>4, <2>5 DEF Position, Row
  <2>7. m \in Int /\ n \in Int
    BY <2>2
  <2>8. m \in Above(n) /\ m \notin Above(m)
    BY <1>1, <2>6, <2>7
  <2>9. ASSUME NEW j \in Above(m) PROVE j \in Above(n)
    <3>1. j \in Placed /\ j \in Int /\ Column(j) = Column(m) /\ j < m
      BY <2>2
    <3> QED
      BY <1>1, <2>6, <2>7, <3>1
  <2> HIDE DEF Above
  <2> QED
    BY <2>3, <2>6, <2>8, <2>9, FS_Subset
<1>2. LayoutInvariant => Placed \subseteq Int
  <2>1. LayoutInvariant => Placed \subseteq Ids
    BY DEF Placed, LayoutInvariant, TypeOK
  <2> QED
    BY <2>1, IdsAssumption
<1>3. LayoutInvariant => NodesStandApart
  <2> SUFFICES ASSUME LayoutInvariant, NEW m \in Placed, NEW n \in Placed,
                      Position(m) = Position(n)
               PROVE  m = n
    BY DEF NodesStandApart
  <2>1. m \in Int /\ n \in Int
    BY <1>2
  <2>2. ~(m < n) /\ ~(n < m)
    BY <1>1
  <2> QED
    BY <2>1, <2>2
<1> QED
  BY <1>3, LayoutInvariantHolds, PTL
-----------------------------------------------------------------------------
(***************************************************************************)
(* The loop of reachable_from_triggers (FlowReachability).                 *)
(***************************************************************************)

LEMMA FoundAfterSkip ==
    ASSUME Search!TypeOK, NEW n \in Ids, Search!Skip(n)
    PROVE  Search!Found' = Search!Found
BY DEF Search!TypeOK, Search!Skip, Search!Found

\* Visiting adds to what is found exactly the successors of the step.
LEMMA FoundAfterVisit ==
    ASSUME Search!TypeOK, NEW n \in Ids, Search!Visit(n)
    PROVE  /\ Search!Found \subseteq Search!Found'
           /\ \A m \in Ids : <<n, m>> \in links => m \in Search!Found'
           /\ \A m \in Search!Found' : m \in Search!Found \/ <<n, m>> \in links
           /\ n \in Search!Found
<1> USE DEF Search!TypeOK, Search!Visit, Search!Found
<1>1. \A m \in Ids : m # n => stack'[m] >= stack[m]
  OBVIOUS
<1>2. n \in reached'
  OBVIOUS
<1>3. Search!Found \subseteq Search!Found'
  BY <1>1, <1>2
<1>4. \A m \in Ids : <<n, m>> \in links => m \in Search!Found'
  <2> TAKE m \in Ids
  <2> HAVE <<n, m>> \in links
  <2>1. CASE m \in reached'
    BY <2>1
  <2>2. CASE m \notin reached'
    <3>1. stack'[m] > 0
      BY <2>2
    <3> QED BY <3>1
  <2> QED BY <2>1, <2>2
<1>5. \A m \in Search!Found' : m \in Search!Found \/ <<n, m>> \in links
  OBVIOUS
<1> QED BY <1>3, <1>4, <1>5

LEMMA TypeStep == Search!TypeOK /\ [Search!Next]_Search!vars => Search!TypeOK'
<1> SUFFICES ASSUME Search!TypeOK, [Search!Next]_Search!vars PROVE Search!TypeOK'
  OBVIOUS
<1>1. ASSUME NEW n \in Ids, Search!Skip(n) PROVE Search!TypeOK'
  BY <1>1 DEF Search!TypeOK, Search!Skip
<1>2. ASSUME NEW n \in Ids, Search!Visit(n) PROVE Search!TypeOK'
  BY <1>2 DEF Search!TypeOK, Search!Visit
<1>3. CASE UNCHANGED Search!vars
  BY <1>3 DEF Search!TypeOK, Search!vars
<1> QED BY <1>1, <1>2, <1>3 DEF Search!Next

LEMMA NothingForgottenStep ==
    Search!TypeOK /\ Search!NothingForgotten /\ [Search!Next]_Search!vars => Search!NothingForgotten'
<1> SUFFICES ASSUME Search!TypeOK, Search!NothingForgotten, [Search!Next]_Search!vars PROVE Search!NothingForgotten'
  OBVIOUS
<1>1. ASSUME NEW n \in Ids, Search!Skip(n) PROVE Search!NothingForgotten'
  BY <1>1, FoundAfterSkip DEF Search!NothingForgotten, Search!Skip
<1>2. ASSUME NEW n \in Ids, Search!Visit(n) PROVE Search!NothingForgotten'
  <2>1. /\ Search!Found \subseteq Search!Found'
        /\ \A m \in Ids : <<n, m>> \in links => m \in Search!Found'
    BY <1>2, FoundAfterVisit
  <2>2. triggers' \subseteq Search!Found'
    BY <1>2, <2>1 DEF Search!NothingForgotten, Search!Visit
  <2>3. ASSUME NEW l \in links', l[1] \in reached' PROVE l[2] \in Search!Found'
    <3>1. l \in links /\ l \in Ids \X Ids
      BY <1>2 DEF Search!Visit, Search!TypeOK
    <3>2. CASE l[1] \in reached
      BY <3>1, <3>2, <2>1 DEF Search!NothingForgotten
    <3>3. CASE l[1] = n
      <4>1. l = <<n, l[2]>> /\ l[2] \in Ids
        BY <3>1, <3>3
      <4> QED BY <4>1, <3>1, <2>1
    <3> QED BY <3>2, <3>3, <2>3, <1>2 DEF Search!Visit
  <2> QED BY <2>2, <2>3 DEF Search!NothingForgotten
<1>3. CASE UNCHANGED Search!vars
  BY <1>3 DEF Search!NothingForgotten, Search!Found, Search!vars
<1> QED BY <1>1, <1>2, <1>3 DEF Search!Next

LEMMA NothingInventedStep ==
    Search!TypeOK /\ Search!NothingInvented /\ [Search!Next]_Search!vars => Search!NothingInvented'
<1> SUFFICES ASSUME Search!TypeOK, Search!NothingInvented, [Search!Next]_Search!vars,
                    NEW S \in SUBSET Ids, triggers' \subseteq S, Search!ClosedUnder(S, links')
             PROVE  Search!Found' \subseteq S
  BY DEF Search!NothingInvented
<1>0. triggers' = triggers /\ links' = links
  BY DEF Search!Next, Search!Skip, Search!Visit, Search!vars
<1>a. Search!Found \subseteq S
  BY <1>0 DEF Search!NothingInvented
<1>1. ASSUME NEW n \in Ids, Search!Skip(n) PROVE Search!Found' \subseteq S
  BY <1>1, <1>a, FoundAfterSkip
<1>2. ASSUME NEW n \in Ids, Search!Visit(n) PROVE Search!Found' \subseteq S
  <2>1. n \in S
    BY <1>2, <1>a, FoundAfterVisit
  <2>2. ASSUME NEW m \in Search!Found' PROVE m \in S
    <3>1. CASE m \in Search!Found
      BY <3>1, <1>a
    <3>2. CASE <<n, m>> \in links
      <4>1. <<n, m>>[1] \in S => <<n, m>>[2] \in S
        BY <3>2, <1>0 DEF Search!ClosedUnder
      <4> QED BY <4>1, <2>1
    <3> QED BY <3>1, <3>2, <1>2, FoundAfterVisit
  <2> QED BY <2>2
<1>3. CASE UNCHANGED Search!vars
  BY <1>3, <1>a DEF Search!Found, Search!vars
<1> QED BY <1>1, <1>2, <1>3 DEF Search!Next

LEMMA InvariantInitially == Search!Init => Search!ReachabilityInvariant
<1> SUFFICES ASSUME Search!Init PROVE Search!ReachabilityInvariant
  OBVIOUS
<1>1. Search!TypeOK
  BY DEF Search!Init, Search!TypeOK
<1>2. Search!Found = triggers
  BY DEF Search!Init, Search!Found
<1> QED BY <1>1, <1>2 DEF Search!ReachabilityInvariant, Search!NothingForgotten, Search!NothingInvented, Search!Init

\* At every step of the loop what is reached or on the stack is connected to
\* a trigger, and nothing connected is lost (validator.py,
\* reachable_from_triggers).
THEOREM LoopInvariant == Search!Safety => []Search!ReachabilityInvariant
<1>1. Search!ReachabilityInvariant /\ [Search!Next]_Search!vars => Search!ReachabilityInvariant'
  BY TypeStep, NothingForgottenStep, NothingInventedStep DEF Search!ReachabilityInvariant
<1> QED BY InvariantInitially, <1>1, PTL DEF Search!Safety

\* When the stack is empty, the result is the least set that contains the
\* triggers and is closed under the routes: the validator's verdict on a step
\* (validator.py, analyze_dsl_connectivity) does not depend on the order in
\* which routes were visited.
THEOREM ReachabilityIsCorrect == Search!Safety => []Search!ResultIsLeastClosedSet
<1>1. ASSUME Search!ReachabilityInvariant, Search!Done PROVE reached = Search!Reachable(triggers, links)
  <2>1. Search!Found = reached
    BY <1>1 DEF Search!ReachabilityInvariant, Search!TypeOK, Search!Done, Search!Found
  <2>2. reached \in SUBSET Ids /\ triggers \subseteq reached /\ Search!ClosedUnder(reached, links)
    BY <1>1, <2>1 DEF Search!ReachabilityInvariant, Search!TypeOK, Search!NothingForgotten, Search!ClosedUnder
  <2>3. Search!Reachable(triggers, links) \subseteq reached
    BY <2>2 DEF Search!Reachable
  <2>4. reached \subseteq Search!Reachable(triggers, links)
    BY <1>1, <2>1, <2>2 DEF Search!ReachabilityInvariant, Search!NothingInvented, Search!Reachable
  <2> QED BY <2>3, <2>4
<1>2. Search!ReachabilityInvariant => Search!ResultIsLeastClosedSet
  BY <1>1 DEF Search!ResultIsLeastClosedSet
<1> QED BY LoopInvariant, <1>2, PTL
-----------------------------------------------------------------------------
(***************************************************************************)
(* Both searches, one after the other on one graph (FlowLoops).            *)
(***************************************************************************)

\* Each search runs as it does alone: what is proved of it above holds in a save.
LEMMA LoopsAreSearches == LoopsSafety => Safety /\ Search!Safety
<1>1. LoopsInit => Init /\ Search!Init
  BY NodeSetsAssumption DEF LoopsInit, Init, InitGraph, Search!Init
<1>2. [Place \/ Validate]_loopVars => [Next]_vars
  BY DEF Place, Validate, loopVars, searchVars, vars
<1>3. [Place \/ Validate]_loopVars => [Search!Next]_(Search!vars)
  <2>1. Place => UNCHANGED Search!vars
    BY DEF Place, Next, Skip, Label, graph, searchVars, Search!vars
  <2> QED
    BY <2>1 DEF Validate, loopVars, searchVars, vars, Search!vars
<1> QED
  BY <1>1, <1>2, <1>3, PTL DEF LoopsSafety, Safety, Search!Safety

\* In a save, too, the validator finds the least set that holds the triggers and the
\* successors of its members (validator.py, reachable_from_triggers).
THEOREM SavesFindTheLeastSet == LoopsSafety => []ResultIsLeastClosedSet
  BY LoopsAreSearches, ReachabilityIsCorrect, PTL DEF ResultIsLeastClosedSet

\* A node that every closed set with the triggers contains is a trigger, or some
\* link leads to it.
LEMMA ReachedIsLedTo ==
    ASSUME Search!ReachabilityInvariant, NEW n \in reached, n \notin triggers
    PROVE  \E l \in links : l[2] = n
<1> SUFFICES ASSUME \A l \in links : l[2] # n
             PROVE  FALSE
  OBVIOUS
<1> DEFINE S == Ids \ {n}
<1>1. S \in SUBSET Ids /\ triggers \subseteq S
  BY DEF Search!ReachabilityInvariant, Search!TypeOK
<1>2. Search!ClosedUnder(S, links)
  <2> SUFFICES ASSUME NEW l \in links PROVE l[2] \in S
    BY DEF Search!ClosedUnder
  <2>1. l[2] \in Ids
    BY DEF Search!ReachabilityInvariant, Search!TypeOK
  <2> QED
    BY <2>1
<1>3. reached \subseteq S
  <2> HIDE DEF S
  <2> QED
    BY <1>1, <1>2 DEF Search!ReachabilityInvariant, Search!NothingInvented, Search!Found
<1> QED
  BY <1>3

\* Whatever the validator reaches, the layout has labelled.
LEMMA ReachedIsLabelled ==
    ASSUME LayoutInvariant, ColumnsAreDistances, Done, Search!ReachabilityInvariant,
           NEW n \in reached, nodes # {}
    PROVE  Labelled(n)
<1> DEFINE S == {m \in Ids : Labelled(m)}
<1>1. triggers \subseteq S
  <2>1. triggers \subseteq Roots
    BY DEF LayoutInvariant, TypeOK, Roots, Known
  <2>2. \A m \in Roots : m \in Ids /\ Labelled(m)
    BY DEF LayoutInvariant, TypeOK, NothingForgotten, Reaches, Done, Roots, Known, Sources
  <2> QED
    BY <2>1, <2>2
<1>2. Search!ClosedUnder(S, links)
  BY DEF ColumnsAreDistances, Search!ClosedUnder, LayoutInvariant, TypeOK
<1>3. reached \subseteq S
  <2>1. S \in SUBSET Ids
    OBVIOUS
  <2> HIDE DEF S
  <2> QED
    BY <1>1, <1>2, <2>1 DEF Search!ReachabilityInvariant, Search!NothingInvented, Search!Found
<1> QED
  BY <1>3

\* The searches agree: in a flow the validator finds connected, the first column
\* shows the triggers and nothing else (compiler.py, assign_positions; validator.py,
\* analyze_dsl_connectivity).
THEOREM ConnectedFlowsStartWithTriggers == LoopsSafety => []ConnectedFlowStartsWithTriggers
<1>1. ASSUME LayoutInvariant, ColumnsAreDistances, Search!ReachabilityInvariant,
             Done, nodes \subseteq reached, NEW n \in nodes
      PROVE  Column(n) = 0 <=> n \in triggers
  <2>0. n \in Ids /\ n \in reached
    BY <1>1 DEF LayoutInvariant, TypeOK
  <2>1. ASSUME n \in triggers PROVE Column(n) = 0
    <3>1. n \in Roots
      BY <1>1, <2>1 DEF Roots, Known
    <3> QED
      BY <1>1, <3>1 DEF ColumnsAreDistances, Column
  <2>2. ASSUME Column(n) = 0, n \notin triggers PROVE FALSE
    <3>1. Labelled(n) /\ depth[n] = 0
      BY <1>1, <2>0, <2>2, ReachedIsLabelled DEF Column
    <3>2. PICK l \in links : l[2] = n
      BY <1>1, <2>0, <2>2, ReachedIsLedTo
    <3>3. n \notin Sources
      BY <3>2 DEF Sources
    <3>4. triggers \cap Known # {}
      <4>1. triggers # {}
        <5> SUFFICES ASSUME triggers = {} PROVE FALSE
          OBVIOUS
        <5>1. {} \in SUBSET Ids /\ triggers \subseteq {} /\ Search!ClosedUnder({}, links)
          BY DEF Search!ClosedUnder
        <5>2. reached \subseteq {}
          BY <1>1, <5>1 DEF Search!ReachabilityInvariant, Search!NothingInvented, Search!Found
        <5> QED
          BY <2>0, <5>2
      <4> QED
        BY <1>1, <4>1 DEF LayoutInvariant, TypeOK, Known
    <3>5. n \notin Roots
      BY <2>2, <3>3, <3>4 DEF Roots
    <3>6. PICK k \in links : Labelled(k[1]) /\ depth[n] = depth[k[1]] + 1
      BY <1>1, <2>0, <3>1, <3>5 DEF ColumnsAreDistances
    <3>7. depth[k[1]] \in Nat
      BY <1>1, <3>6 DEF LayoutInvariant, TypeOK, Labelled
    <3> QED
      BY <3>1, <3>6, <3>7
  <2> QED
    BY <2>1, <2>2
<1>2. LayoutInvariant /\ ColumnsAreDistances /\ Search!ReachabilityInvariant
        => ConnectedFlowStartsWithTriggers
  BY <1>1 DEF ConnectedFlowStartsWithTriggers
<1> QED
  BY <1>2, LoopsAreSearches, LayoutInvariantHolds, ColumnsAreRight, LoopInvariant, PTL
=============================================================================
