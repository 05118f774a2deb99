-------------------------- MODULE FlowEditsProofs --------------------------
(***************************************************************************)
(* Proofs about FlowEdits, for every set of ids, steps and routes and any  *)
(* order of the edits.                                                     *)
(***************************************************************************)
EXTENDS FlowEdits, FlowDocumentProofs

-----------------------------------------------------------------------------
(***************************************************************************)
(* The edits keep the form of a document.                                  *)
(***************************************************************************)
\* What makes a document well formed, list by list.
OfPool(list) == \A s \in ToSet(list) : /\ IsStep(s) /\ Ordinary(s.routes)
                                       /\ s.id \in Ids /\ s.target \in Ids \cup {None}

LEMMA FormOfLists ==
    ASSUME NEW t, NEW s, NEW r
    PROVE  WellFormed(Doc(t, s, r)) <=>
              /\ IsList(t) /\ IsList(s) /\ IsList(r)
              /\ OfPool(t) /\ OfPool(s)
              /\ \A x \in ToSet(r) : IsRoute(x)
              /\ ToSet(r) \subseteq RoutePool /\ Len(r) <= MaxRoutes
              /\ DistinctIds(t) /\ DistinctIds(s)
              /\ IdsOf(t) \cap IdsOf(s) = {}
<1> DEFINE d == Doc(t, s, r)
<1>1. d.triggers = t /\ d.steps = s /\ d.routes = r /\ Steps(d) = t \o s
      /\ d = [triggers |-> d.triggers, steps |-> d.steps, routes |-> d.routes]
  BY DocFields
<1> HIDE DEF d
<1>2. IsList(t) /\ IsList(s) => ToSet(t \o s) = ToSet(t) \cup ToSet(s)
  BY BothLists
<1>3. WellFormed(d) <=>
              /\ IsList(t) /\ IsList(s) /\ IsList(r)
              /\ OfPool(t) /\ OfPool(s)
              /\ \A x \in ToSet(r) : IsRoute(x)
              /\ ToSet(r) \subseteq RoutePool /\ Len(r) <= MaxRoutes
              /\ DistinctIds(t) /\ DistinctIds(s)
              /\ IdsOf(t) \cap IdsOf(s) = {}
  <2>1. WellFormed(d) <=>
              /\ IsList(t) /\ IsList(s) /\ IsList(r)
              /\ \A x \in ToSet(t \o s) : IsStep(x) /\ Ordinary(x.routes)
              /\ StepsOfPool(t) /\ StepsOfPool(s)
              /\ \A x \in ToSet(r) : IsRoute(x)
              /\ ToSet(r) \subseteq RoutePool /\ Len(r) <= MaxRoutes
              /\ DistinctIds(t) /\ DistinctIds(s)
              /\ IdsOf(t) \cap IdsOf(s) = {}
    BY <1>1 DEF WellFormed, IsDocument
  <2>2. IsList(t) /\ IsList(s) =>
          ((\A x \in ToSet(t \o s) : IsStep(x) /\ Ordinary(x.routes)) /\ StepsOfPool(t) /\ StepsOfPool(s)
             <=> OfPool(t) /\ OfPool(s))
    BY <1>2 DEF OfPool, StepsOfPool
  <2> QED
    BY <2>1, <2>2
<1> QED
  BY <1>3 DEF d

\* Every well-formed document is given by its lists.
LEMMA ListsOfForm ==
    ASSUME NEW d, WellFormed(d)
    PROVE  d = Doc(d.triggers, d.steps, d.routes)
  BY DEF WellFormed, IsDocument, Doc

\* Putting a step into a document: it is there once, in the list it is put into,
\* and the other steps stay (parser.py, replace_step).
LEMMA ReplaceKeepsForm ==
    ASSUME NEW d, WellFormed(d), NEW step, step \in StepPool, NEW asTrigger
    PROVE  /\ WellFormed(ReplaceStep(d, step, asTrigger))
           /\ IdsOf(Steps(ReplaceStep(d, step, asTrigger))) = IdsOf(Steps(d)) \cup {step.id}
<1> DEFINE id == step.id
           t == d.triggers
           s == d.steps
           r == d.routes
           tt == Without(t, id)
           ss == Without(s, id)
<1>1. /\ IsList(t) /\ IsList(s) /\ IsList(r)
      /\ OfPool(t) /\ OfPool(s)
      /\ \A x \in ToSet(r) : IsRoute(x)
      /\ ToSet(r) \subseteq RoutePool /\ Len(r) <= MaxRoutes
      /\ DistinctIds(t) /\ DistinctIds(s)
      /\ IdsOf(t) \cap IdsOf(s) = {}
  <2>1. WellFormed(Doc(t, s, r)) /\ d = Doc(t, s, r)
    BY ListsOfForm
  <2> QED
    BY <2>1, FormOfLists
<1>2. /\ IsStep(step) /\ Ordinary(step.routes)
      /\ step.id \in Ids /\ step.target \in Ids \cup {None}
  BY EditsAssumption
<1>3. ReplaceStep(d, step, asTrigger) =
        IF IsTrigger(step, asTrigger) THEN Doc(tt \o <<step>>, ss \o << >>, r)
                                      ELSE Doc(tt \o << >>, ss \o <<step>>, r)
  BY ListsOfForm, ReplacedDocument
<1> HIDE DEF t, s, r
<1>4. /\ IsList(tt) /\ ToSet(tt) = {x \in ToSet(t) : x.id # id}
      /\ IdsOf(tt) = IdsOf(t) \ {id} /\ DistinctIds(tt)
      /\ IsList(ss) /\ ToSet(ss) = {x \in ToSet(s) : x.id # id}
      /\ IdsOf(ss) = IdsOf(s) \ {id} /\ DistinctIds(ss)
  BY <1>1, WithoutEffect
<1> HIDE DEF tt, ss
<1>5. \A list \in {tt, ss} :
        /\ IsList(list \o <<step>>) /\ ToSet(list \o <<step>>) = ToSet(list) \cup {step}
        /\ IdsOf(list \o <<step>>) = IdsOf(list) \cup {id}
        /\ DistinctIds(list \o <<step>>)
        /\ list \o << >> = list
  BY <1>4, AtTheEnd
<1>6. OfPool(tt) /\ OfPool(ss) /\ OfPool(tt \o <<step>>) /\ OfPool(ss \o <<step>>)
  BY <1>1, <1>2, <1>4, <1>5 DEF OfPool
<1>7. IdsOf(Steps(d)) = IdsOf(t) \cup IdsOf(s)
  BY <1>1, BothLists DEF Steps, t, s
<1>8. CASE IsTrigger(step, asTrigger)
  <2> DEFINE e == Doc(tt \o <<step>>, ss, r)
  <2>1. ReplaceStep(d, step, asTrigger) = e
    BY <1>3, <1>5, <1>8
  <2>2. WellFormed(e)
    BY <1>1, <1>4, <1>5, <1>6, FormOfLists
  <2>3. IdsOf(Steps(e)) = (IdsOf(tt) \cup {id}) \cup IdsOf(ss)
    <3> DEFINE longer == tt \o <<step>>
    <3>1. Steps(e) = longer \o ss
      <4>1. \A a : Steps(Doc(a, ss, r)) = a \o ss
        BY DocFields
      <4> HIDE DEF longer
      <4>2. Steps(Doc(longer, ss, r)) = longer \o ss
        BY <4>1
      <4> QED
        BY <4>2 DEF longer
    <3>2. IsList(longer) /\ IdsOf(longer) = IdsOf(tt) \cup {id}
      BY <1>5
    <3> HIDE DEF longer, e
    <3> QED
      BY <1>4, <3>1, <3>2, BothLists
  <2> HIDE DEF e
  <2> QED
    BY <1>4, <1>7, <2>1, <2>2, <2>3
<1>9. CASE ~ IsTrigger(step, asTrigger)
  <2> DEFINE e == Doc(tt, ss \o <<step>>, r)
  <2>1. ReplaceStep(d, step, asTrigger) = e
    BY <1>3, <1>5, <1>9
  <2>2. WellFormed(e)
    BY <1>1, <1>4, <1>5, <1>6, FormOfLists
  <2>3. IdsOf(Steps(e)) = IdsOf(tt) \cup (IdsOf(ss) \cup {id})
    <3> DEFINE longer == ss \o <<step>>
    <3>1. Steps(e) = tt \o longer
      <4>1. \A a : Steps(Doc(tt, a, r)) = tt \o a
        BY DocFields
      <4> HIDE DEF longer
      <4>2. Steps(Doc(tt, longer, r)) = tt \o longer
        BY <4>1
      <4> QED
        BY <4>2 DEF longer
    <3>2. IsList(longer) /\ IdsOf(longer) = IdsOf(ss) \cup {id}
      BY <1>5
    <3> HIDE DEF longer, e
    <3> QED
      BY <1>4, <3>1, <3>2, BothLists
  <2> HIDE DEF e
  <2> QED
    BY <1>4, <1>7, <2>1, <2>2, <2>3
<1> QED
  BY <1>8, <1>9

\* What is left of a list of the pool once a step is removed.
LEMMA RestOfPool ==
    ASSUME NEW list, IsList(list), OfPool(list), NEW id
    PROVE  /\ IsList(Rest(list, id))
           /\ ToSet(Rest(list, id)) = {Forget(s, id) : s \in {x \in ToSet(list) : x.id # id}}
           /\ IdsOf(Rest(list, id)) = IdsOf(list) \ {id}
           /\ DistinctIds(list) => DistinctIds(Rest(list, id))
           /\ OfPool(Rest(list, id))
<1>1. OrdinarySteps(list)
  BY DEF OfPool, OrdinarySteps
<1>2. /\ IsList(Rest(list, id))
      /\ ToSet(Rest(list, id)) = {Forget(s, id) : s \in {x \in ToSet(list) : x.id # id}}
      /\ IdsOf(Rest(list, id)) = IdsOf(list) \ {id}
      /\ DistinctIds(list) => DistinctIds(Rest(list, id))
  BY <1>1, RestEffect
<1>3. \A s \in ToSet(list) :
         /\ IsStep(Forget(s, id)) /\ Ordinary(Forget(s, id).routes)
         /\ Forget(s, id).id \in Ids /\ Forget(s, id).target \in Ids \cup {None}
  <2> TAKE s \in ToSet(list)
  <2>1. IsStep(s) /\ Ordinary(s.routes) /\ s.id \in Ids /\ s.target \in Ids \cup {None}
    BY DEF OfPool
  <2>2. /\ IsStep(Forget(s, id)) /\ Ordinary(Forget(s, id).routes)
        /\ Forget(s, id).id = s.id
        /\ Forget(s, id).target = (IF s.target = id THEN None ELSE s.target)
    BY <2>1, ForgetEffect
  <2> QED
    BY <2>1, <2>2
<1>4. OfPool(Rest(list, id))
  BY <1>2, <1>3 DEF OfPool
<1> QED
  BY <1>2, <1>4

\* The lists of a well-formed document.
LEMMA FormOf ==
    ASSUME NEW d, WellFormed(d)
    PROVE  /\ IsList(d.triggers) /\ IsList(d.steps) /\ IsList(d.routes)
           /\ OfPool(d.triggers) /\ OfPool(d.steps)
           /\ \A x \in ToSet(d.routes) : IsRoute(x)
           /\ ToSet(d.routes) \subseteq RoutePool /\ Len(d.routes) <= MaxRoutes
           /\ DistinctIds(d.triggers) /\ DistinctIds(d.steps)
           /\ IdsOf(d.triggers) \cap IdsOf(d.steps) = {}
           /\ IdsOf(Steps(d)) = IdsOf(d.triggers) \cup IdsOf(d.steps)
           /\ ToSet(Steps(d)) = ToSet(d.triggers) \cup ToSet(d.steps)
<1>1. WellFormed(Doc(d.triggers, d.steps, d.routes))
  BY ListsOfForm
<1>2. /\ IsList(d.triggers) /\ IsList(d.steps) /\ IsList(d.routes)
      /\ OfPool(d.triggers) /\ OfPool(d.steps)
      /\ \A x \in ToSet(d.routes) : IsRoute(x)
      /\ ToSet(d.routes) \subseteq RoutePool /\ Len(d.routes) <= MaxRoutes
      /\ DistinctIds(d.triggers) /\ DistinctIds(d.steps)
      /\ IdsOf(d.triggers) \cap IdsOf(d.steps) = {}
  BY <1>1, FormOfLists
<1> QED
  BY <1>2, BothLists DEF Steps

\* Removing a step: every other step is still there, with its id.
LEMMA RemoveKeepsForm ==
    ASSUME NEW d, WellFormed(d), NEW id
    PROVE  WellFormed(RemoveStep(d, id))
<1> DEFINE t == Rest(d.triggers, id)
           s == Rest(d.steps, id)
           r == Avoiding(d.routes, id)
<1>1. /\ IsList(t) /\ OfPool(t) /\ DistinctIds(t) /\ IdsOf(t) = IdsOf(d.triggers) \ {id}
      /\ IsList(s) /\ OfPool(s) /\ DistinctIds(s) /\ IdsOf(s) = IdsOf(d.steps) \ {id}
  BY FormOf, RestOfPool
<1>2. IsList(r) /\ Len(r) <= MaxRoutes /\ ToSet(r) \subseteq ToSet(d.routes)
  <2>1. IsList(d.routes) /\ Len(d.routes) <= MaxRoutes /\ Len(d.routes) \in Nat
    BY FormOf DEF IsList
  <2>2. IsList(r) /\ Len(r) <= Len(d.routes) /\ ToSet(r) \subseteq ToSet(d.routes)
    BY <2>1, AvoidingEffect
  <2>3. Len(r) \in Nat
    BY <2>2 DEF IsList
  <2> QED
    BY <2>1, <2>2, <2>3, EditsAssumption
<1>3. RemoveStep(d, id) = Doc(t, s, r)
  BY RemovedDocument
<1>4. /\ \A x \in ToSet(r) : IsRoute(x)
      /\ ToSet(r) \subseteq RoutePool
      /\ IdsOf(t) \cap IdsOf(s) = {}
  BY <1>1, <1>2, FormOf
<1> HIDE DEF t, s, r
<1>5. WellFormed(Doc(t, s, r))
  BY <1>1, <1>2, <1>4, FormOfLists
<1> QED
  BY <1>3, <1>5

\* Adding a route of the pool: it is in the document once, the steps stay.
LEMMA ConnectKeepsForm ==
    ASSUME NEW d, WellFormed(d), NEW route, route \in RoutePool, Len(d.routes) < MaxRoutes
    PROVE  /\ WellFormed(UpsertRoute(d, route))
           /\ IdsOf(Steps(UpsertRoute(d, route))) = IdsOf(Steps(d))
<1> DEFINE t == d.triggers
           s == d.steps
           r == d.routes
           kept == Only(r, ToSet(r) \ {route})
           longer == Append(kept, route)
<1>1. /\ IsList(t) /\ IsList(s) /\ IsList(r)
      /\ OfPool(t) /\ OfPool(s)
      /\ \A x \in ToSet(r) : IsRoute(x)
      /\ ToSet(r) \subseteq RoutePool /\ Len(r) < MaxRoutes
      /\ DistinctIds(t) /\ DistinctIds(s)
      /\ IdsOf(t) \cap IdsOf(s) = {}
      /\ IdsOf(Steps(d)) = IdsOf(t) \cup IdsOf(s)
  BY FormOf
<1>2. UpsertRoute(d, route) = Doc(t, s, longer)
  BY ListsOfForm, ConnectedDocument
<1> HIDE DEF t, s, r
<1>3. IsList(kept) /\ ToSet(kept) \subseteq ToSet(r) /\ Len(kept) <= Len(r)
  <2>1. IsList(kept) /\ ToSet(kept) = ToSet(r) \cap (ToSet(r) \ {route}) /\ Len(kept) <= Len(r)
    BY <1>1, Filtered
  <2> QED
    BY <2>1
<1> HIDE DEF kept
<1> DEFINE S == ToSet(kept) \cup {route}
<1>4. kept \in Seq(S) /\ route \in S
  BY <1>3, ListOver
<1> HIDE DEF S
<1>5. longer \in Seq(S) /\ ToSet(longer) = S /\ Len(longer) = Len(kept) + 1
  BY <1>4, ToSetOfAppend DEF S
<1>6. IsList(longer) /\ ToSet(longer) = ToSet(kept) \cup {route} /\ Len(longer) <= MaxRoutes
  <2>1. Len(r) \in Nat /\ Len(kept) \in Nat /\ MaxRoutes \in Nat
    BY <1>1, <1>3, EditsAssumption DEF IsList
  <2> QED
    BY <1>1, <1>3, <1>5, <2>1 DEF IsList, S
<1>7. /\ \A x \in ToSet(longer) : IsRoute(x)
      /\ ToSet(longer) \subseteq RoutePool
  BY <1>1, <1>3, <1>6, EditsAssumption
<1> HIDE DEF longer
<1>8. WellFormed(Doc(t, s, longer))
  BY <1>1, <1>6, <1>7, FormOfLists
<1>9. Steps(Doc(t, s, longer)) = t \o s /\ IdsOf(t \o s) = IdsOf(t) \cup IdsOf(s)
  BY <1>1, DocFields, BothLists
<1> QED
  BY <1>1, <1>2, <1>8, <1>9

\* The empty document.
LEMMA EmptyForm == WellFormed(EmptyDocument)
<1> DEFINE e == << >>
<1>1. IsList(e) /\ ToSet(e) = {} /\ Len(e) = 0
  BY DEF IsList, ToSet
<1>2. EmptyDocument = Doc(e, e, e)
  BY DEF EmptyDocument, Doc
<1> HIDE DEF e
<1>3. DistinctIds(e) /\ IdsOf(e) = {} /\ OfPool(e)
  <2>1. DOMAIN e = {}
    BY DEF e
  <2> QED
    BY <1>1, <2>1 DEF DistinctIds, IdsOf, OfPool
<1>4. MaxRoutes \in Nat
  BY EditsAssumption
<1>5. WellFormed(Doc(e, e, e))
  BY <1>1, <1>3, <1>4, FormOfLists
<1> QED
  BY <1>2, <1>5

LEMMA InitForm == Init => DocumentInvariant
  BY EmptyForm DEF Init, DocumentInvariant

LEMMA StepForm == DocumentInvariant /\ [Next]_doc => DocumentInvariant'
<1> SUFFICES ASSUME DocumentInvariant, [Next]_doc PROVE DocumentInvariant'
  OBVIOUS
<1>1. WellFormed(doc)
  BY DEF DocumentInvariant
<1>2. ASSUME NEW step \in StepPool, NEW asTrigger \in {"yes", "no", "kind"}, Replace(step, asTrigger)
      PROVE  WellFormed(doc')
  BY <1>1, <1>2, ReplaceKeepsForm DEF Replace
<1>3. ASSUME NEW id \in Ids, Drop(id) PROVE WellFormed(doc')
  BY <1>1, <1>3, RemoveKeepsForm DEF Drop
<1>4. ASSUME NEW route \in RoutePool, Connect(route) PROVE WellFormed(doc')
  BY <1>1, <1>4, ConnectKeepsForm DEF Connect
<1>5. ASSUME UNCHANGED doc PROVE WellFormed(doc')
  BY <1>1, <1>5
<1>6. ASSUME Next PROVE WellFormed(doc')
  <2> HIDE DEF WellFormed, Replace, Drop, Connect
  <2> QED
    BY <1>2, <1>3, <1>4, <1>6 DEF Next
<1> QED
  BY <1>5, <1>6 DEF DocumentInvariant

\* A document keeps its form under any edits in any order, and an id is used by
\* one step: replace_step takes the old step out of both lists (parser.py).
THEOREM DocumentsKeepTheirForm == Spec => []DocumentInvariant
<1>1. Init => DocumentInvariant
  BY InitForm
<1>2. DocumentInvariant /\ [Next]_doc => DocumentInvariant'
  BY StepForm
<1> QED
  BY <1>1, <1>2, PTL DEF Spec

-----------------------------------------------------------------------------
(***************************************************************************)
(* What follows from the form.                                             *)
(***************************************************************************)
\* Two lists that share no id, one after the other.
LEMMA DistinctTogether ==
    ASSUME NEW t, IsList(t), DistinctIds(t), NEW s, IsList(s), DistinctIds(s),
           IdsOf(t) \cap IdsOf(s) = {}
    PROVE  IsList(t \o s) /\ DistinctIds(t \o s)
<1> DEFINE m == Len(t)
           n == Len(s)
           both == t \o s
           S == ToSet(t) \cup ToSet(s)
<1>1. IsList(both)
  BY BothLists
<1>2. t \in Seq(S) /\ s \in Seq(S)
  BY ListOver
<1> HIDE DEF S
<1>3. /\ m \in Nat /\ n \in Nat /\ DOMAIN t = 1 .. m /\ DOMAIN s = 1 .. n
      /\ DOMAIN both = 1 .. m + n
      /\ \A i \in 1 .. m : both[i] = t[i]
      /\ \A i \in 1 .. m + n : i > m => both[i] = s[i - m] /\ i - m \in 1 .. n
  BY <1>2
<1>4. \A i \in 1 .. m : t[i].id \in IdsOf(t)
  BY <1>3 DEF IdsOf, ToSet
<1>5. \A i \in 1 .. n : s[i].id \in IdsOf(s)
  BY <1>3 DEF IdsOf, ToSet
<1> HIDE DEF both, m, n
<1>6. DistinctIds(both)
  <2> SUFFICES ASSUME NEW i \in 1 .. m + n, NEW j \in 1 .. m + n, both[i].id = both[j].id
               PROVE  i = j
    BY <1>3 DEF DistinctIds
  <2>1. CASE i <= m /\ j <= m
    <3>1. i \in 1 .. m /\ j \in 1 .. m
      BY <1>3, <2>1
    <3> QED
      BY <1>3, <3>1 DEF DistinctIds
  <2>2. CASE i > m /\ j > m
    <3>1. both[i] = s[i - m] /\ i - m \in 1 .. n /\ both[j] = s[j - m] /\ j - m \in 1 .. n
      BY <1>3, <2>2
    <3>2. i - m = j - m
      BY <1>3, <3>1 DEF DistinctIds
    <3> QED
      BY <1>3, <3>2
  <2>3. CASE i <= m /\ j > m
    <3>1. both[i].id \in IdsOf(t) /\ both[j].id \in IdsOf(s)
      BY <1>3, <1>4, <1>5, <2>3
    <3> QED
      BY <3>1
  <2>4. CASE i > m /\ j <= m
    <3>1. both[j].id \in IdsOf(t) /\ both[i].id \in IdsOf(s)
      BY <1>3, <1>4, <1>5, <2>4
    <3> QED
      BY <3>1
  <2> QED
    BY <1>3, <2>1, <2>2, <2>3, <2>4
<1> QED
  BY <1>1, <1>6 DEF both

LEMMA FormIsTyped == DocumentInvariant => TypeOK
<1> SUFFICES ASSUME WellFormed(doc) PROVE TypeOK
  BY DEF DocumentInvariant
<1>1. StepsOfPool(doc.triggers) /\ StepsOfPool(doc.steps)
      /\ ToSet(doc.routes) \subseteq RoutePool /\ Len(doc.routes) <= MaxRoutes
  BY DEF WellFormed
<1>2. IsList(Steps(doc)) /\ DistinctIds(Steps(doc))
  BY FormOf, DistinctTogether DEF Steps
<1> QED
  BY <1>1, <1>2, IdsAreCounted DEF TypeOK

\* What the edits leave is a document of the pool in which no id is used twice,
\* whatever the order of the edits and whichever list a step was in before
\* (parser.py, replace_step).
THEOREM DocumentsAreTyped == Spec => []TypeOK
  BY DocumentsKeepTheirForm, FormIsTyped, PTL

LEMMA FormIsOrdinary == DocumentInvariant => IsDocument(doc) /\ OrdinaryDocument(doc)
<1> SUFFICES ASSUME WellFormed(doc) PROVE IsDocument(doc) /\ OrdinaryDocument(doc)
  BY DEF DocumentInvariant
<1>1. \A r \in ToSet(doc.routes) : r.targetHandle # Selected
  BY EditsAssumption DEF WellFormed
<1>2. \A s \in ToSet(Steps(doc)) : Ordinary(s.routes)
  BY DEF WellFormed
<1> QED
  BY <1>1, <1>2 DEF WellFormed, OrdinaryDocument, Ordinary

\* build_dsl_adjacency and the compiler agree on the links of every document the
\* edits can make (validator.py, compiler.py).
THEOREM ValidatorAndCompilerAgree == Spec => []ValidatorSeesTheCompiledFlow
<1>1. DocumentInvariant => ValidatorSeesTheCompiledFlow
  BY FormIsOrdinary, CompiledLinks DEF ValidatorSeesTheCompiledFlow
<1> QED
  BY <1>1, DocumentsKeepTheirForm, PTL

\* A document the validator lets through compiles to a sound flow, whatever edits
\* led to it: ids are unique, edges lead from node to node, and a trigger leads to
\* every action (validator.py, compiler.py).
THEOREM AcceptedDocumentsAreSound == Spec => []AcceptedIsSound
<1>1. DocumentInvariant => AcceptedIsSound
  <2> SUFFICES ASSUME DocumentInvariant, Accepted(doc),
                      \A t \in ToSet(doc.triggers) : t.kind \in TriggerKinds
               PROVE  SoundFlow(Compile(doc))
    BY DEF AcceptedIsSound
  <2>1. IdsOf(doc.triggers) \subseteq Ids
    BY DEF DocumentInvariant, WellFormed, StepsOfPool, IdsOf
  <2> QED
    BY <2>1, FormIsOrdinary, AcceptedFlowIsSound
<1> QED
  BY <1>1, DocumentsKeepTheirForm, PTL

-----------------------------------------------------------------------------
(***************************************************************************)
(* References to steps that do not exist.                                  *)
(***************************************************************************)
\* What is named by the routes, and by the steps.
Ends(routes) == UNION {{r.source, r.target} : r \in routes}
NamedBy(s) == {s.target} \cup {b.next : b \in ToSet(s.buttons)} \cup Ends(ToSet(s.routes))

LEMMA DanglingNames ==
    ASSUME NEW d
    PROVE  Dangling(d) = (Ends(ToSet(d.routes)) \cup UNION {NamedBy(s) : s \in ToSet(Steps(d))})
                         \ (IdsOf(Steps(d)) \cup {None})
<1> DEFINE steps == ToSet(Steps(d))
           routes == ToSet(d.routes) \cup UNION {ToSet(s.routes) : s \in steps}
           A == UNION {{r.source, r.target} : r \in routes}
           B == UNION {{s.target} \cup {b.next : b \in ToSet(s.buttons)} : s \in steps}
           C == Ends(ToSet(d.routes)) \cup UNION {NamedBy(s) : s \in steps}
<1>1. Dangling(d) = (A \cup B) \ (IdsOf(Steps(d)) \cup {None})
  BY DEF Dangling
<1>2. A \cup B \subseteq C
  <2>1. A \subseteq C
    BY DEF Ends, NamedBy
  <2>2. B \subseteq C
    BY DEF NamedBy
  <2> QED
    BY <2>1, <2>2
<1>3. C \subseteq A \cup B
  <2>1. Ends(ToSet(d.routes)) \subseteq A
    BY DEF Ends
  <2>2. \A s \in steps : NamedBy(s) \subseteq A \cup B
    <3> TAKE s \in steps
    <3>1. Ends(ToSet(s.routes)) \subseteq A
      BY DEF Ends
    <3>2. {s.target} \cup {b.next : b \in ToSet(s.buttons)} \subseteq B
      OBVIOUS
    <3> HIDE DEF A, B
    <3> QED
      BY <3>1, <3>2 DEF NamedBy
  <2> HIDE DEF A, B
  <2> QED
    BY <2>1, <2>2
<1> HIDE DEF A, B, C
<1>4. A \cup B = C
  BY <1>2, <1>3
<1> QED
  BY <1>1, <1>4 DEF C

\* A removed step is not named by what is left, and nothing new is named.
LEMMA RemovedIsForgotten ==
    ASSUME NEW d, WellFormed(d), NEW id
    PROVE  Dangling(RemoveStep(d, id)) \subseteq Dangling(d)
<1> DEFINE e == RemoveStep(d, id)
           t == Rest(d.triggers, id)
           s == Rest(d.steps, id)
           r == Avoiding(d.routes, id)
           was == ToSet(Steps(d))
           left == {x \in was : x.id # id}
<1>1. /\ IsList(t) /\ IdsOf(t) = IdsOf(d.triggers) \ {id}
      /\ ToSet(t) = {Forget(x, id) : x \in {y \in ToSet(d.triggers) : y.id # id}}
      /\ IsList(s) /\ IdsOf(s) = IdsOf(d.steps) \ {id}
      /\ ToSet(s) = {Forget(x, id) : x \in {y \in ToSet(d.steps) : y.id # id}}
  BY FormOf, RestOfPool
<1>2. ToSet(r) = {x \in ToSet(d.routes) : x.source # id /\ x.target # id}
  BY FormOf, AvoidingEffect
<1>3. e.routes = r /\ Steps(e) = t \o s
  <2>1. e = Doc(t, s, r)
    BY RemovedDocument
  <2> HIDE DEF t, s, r
  <2> QED
    BY <2>1, DocFields
<1> HIDE DEF e, t, s, r
<1>4. /\ ToSet(Steps(e)) = {Forget(x, id) : x \in left}
      /\ IdsOf(Steps(e)) = IdsOf(Steps(d)) \ {id}
  <2>1. /\ ToSet(Steps(e)) = ToSet(t) \cup ToSet(s)
        /\ IdsOf(Steps(e)) = IdsOf(t) \cup IdsOf(s)
    BY <1>1, <1>3, BothLists
  <2>2. was = ToSet(d.triggers) \cup ToSet(d.steps)
        /\ IdsOf(Steps(d)) = IdsOf(d.triggers) \cup IdsOf(d.steps)
    BY FormOf
  <2> HIDE DEF was
  <2> QED
    BY <1>1, <2>1, <2>2
<1>5. \A x \in left : NamedBy(Forget(x, id)) \subseteq (NamedBy(x) \ {id}) \cup {None}
  <2> TAKE x \in left
  <2>1. IsStep(x) /\ Ordinary(x.routes)
    BY DEF WellFormed, IsDocument
  <2> DEFINE f == Forget(x, id)
  <2>2. /\ f.target = (IF x.target = id THEN None ELSE x.target)
        /\ ToSet(f.routes) = {q \in ToSet(x.routes) : q.source # id /\ q.target # id}
        /\ {b.next : b \in ToSet(f.buttons)} \subseteq ({b.next : b \in ToSet(x.buttons)} \ {id}) \cup {None}
    BY <2>1, ForgetEffect
  <2> HIDE DEF f
  <2>3. Ends(ToSet(f.routes)) \subseteq Ends(ToSet(x.routes)) \ {id}
    BY <2>2 DEF Ends
  <2>4. NamedBy(f) \subseteq (NamedBy(x) \ {id}) \cup {None}
    BY <2>2, <2>3 DEF NamedBy
  <2> QED
    BY <2>4 DEF f
<1>6. Ends(ToSet(r)) \subseteq Ends(ToSet(d.routes)) \ {id}
  BY <1>2 DEF Ends
<1> DEFINE N == Ends(ToSet(d.routes)) \cup UNION {NamedBy(x) : x \in was}
           M == Ends(ToSet(e.routes)) \cup UNION {NamedBy(x) : x \in ToSet(Steps(e))}
<1>7. M \subseteq (N \ {id}) \cup {None}
  <2>1. Ends(ToSet(e.routes)) \subseteq N \ {id}
    BY <1>3, <1>6
  <2>2. \A y \in ToSet(Steps(e)) : NamedBy(y) \subseteq (N \ {id}) \cup {None}
    <3> TAKE y \in ToSet(Steps(e))
    <3>1. PICK x \in left : y = Forget(x, id)
      BY <1>4
    <3>2. NamedBy(x) \subseteq N
      OBVIOUS
    <3> HIDE DEF N, left
    <3> QED
      BY <1>5, <3>1, <3>2
  <2> HIDE DEF N
  <2> QED
    BY <2>1, <2>2
<1>8. Dangling(d) = N \ (IdsOf(Steps(d)) \cup {None}) /\ Dangling(e) = M \ (IdsOf(Steps(e)) \cup {None})
  BY DanglingNames
<1> HIDE DEF N, M
<1> QED
  BY <1>4, <1>7, <1>8 DEF e

\* After any edits, taking a step out of a document takes every reference to it
\* along, in routes, steps, buttons and edited messages: no link to nowhere is
\* left that was not there before (parser.py, remove_step).
THEOREM RemovalsAreClean == Spec => RemovalLeavesNoReference
<1> DEFINE Shrinks == IdsOf(Steps(doc')) \subseteq IdsOf(Steps(doc)) /\ IdsOf(Steps(doc')) # IdsOf(Steps(doc))
           Clean == Shrinks => Dangling(doc') \subseteq Dangling(doc)
<1>1. DocumentInvariant /\ [Next]_doc => [Clean]_doc
  <2> SUFFICES ASSUME WellFormed(doc), Next PROVE Clean
    BY DEF DocumentInvariant
  <2>1. ASSUME NEW step \in StepPool, NEW asTrigger \in {"yes", "no", "kind"}, Replace(step, asTrigger)
        PROVE  ~ Shrinks
    <3>1. IdsOf(Steps(doc')) = IdsOf(Steps(doc)) \cup {step.id}
      BY <2>1, ReplaceKeepsForm DEF Replace
    <3> QED
      BY <3>1
  <2>2. ASSUME NEW id \in Ids, Drop(id) PROVE Dangling(doc') \subseteq Dangling(doc)
    BY <2>2, RemovedIsForgotten DEF Drop
  <2>3. ASSUME NEW route \in RoutePool, Connect(route) PROVE ~ Shrinks
    <3>1. IdsOf(Steps(doc')) = IdsOf(Steps(doc))
      BY <2>3, ConnectKeepsForm DEF Connect
    <3> QED
      BY <3>1
  <2> HIDE DEF Shrinks
  <2> QED
    BY <2>1, <2>2, <2>3 DEF Next
<1> QED
  BY <1>1, DocumentsKeepTheirForm, PTL DEF Spec, RemovalLeavesNoReference

-----------------------------------------------------------------------------
(***************************************************************************)
(* A file the tools wrote is read back.  Written says what form such a     *)
(* file has; in a file of that form every node is read on its own and its  *)
(* step compiles to the node and the edges that leave it (NodeReadBack);   *)
(* the loop of the import reads every node once (ImportedDocument), so     *)
(* what it reads compiles to the file (ReadBackIsSame).                    *)
(***************************************************************************)
\* If no id is used twice, the kind of an id is that of its step.
LEMMA KindOfStep ==
    ASSUME NEW d, IsDocument(d), DistinctIds(Steps(d)), NEW s \in ToSet(Steps(d))
    PROVE  KindOf(d, s.id) = s.kind
<1> DEFINE list == Steps(d)
           k == LastId(list, s.id)
<1>1. KindOf(d, s.id) = IF k = 0 THEN None ELSE list[k].kind
  BY DEF KindOf, LastId
<1>2. IsList(list)
  BY StepsAreAList
<1>3. \A x, y \in ToSet(list) : x.id = y.id => x = y
  BY DEF DistinctIds, ToSet
<1>4. k # 0 /\ list[k] = s
  <2> HIDE DEF list
  <2>1. s \in ToSet(list)
    BY DEF list
  <2> QED
    BY <1>2, <1>3, <2>1, LastPositions
<1> HIDE DEF list, k
<1> QED
  BY <1>1, <1>4

\* The form of a file that was written (compiler.py): its nodes, the edges that
\* leave a node, and no old-style condition that leads to an else.
NodeOf(id, type, value, branches, texts) ==
    [id |-> id, type |-> type, value |-> value, branches |-> branches, texts |-> texts]

WrittenNode(n) ==
    /\ n = NodeOf(n.id, n.type, n.value, n.branches, n.texts)
    /\ n.type \notin ButtonKinds => n.texts = << >>

\* An edge that leaves node n.
WrittenEdge(flow, n, e) ==
    /\ n.type \in OutputKinds => e.handle.form # "plain"
    /\ IsEdit(n.type, e) =>
          /\ e.handle = NoHandle /\ e.target # None
          /\ \A f \in ToSet(flow.edges) :
                f.source = n.id /\ f.targetHandle = Selected => f.target = e.target
    /\ IsPress(n.type, e) =>
          /\ e.targetHandle = NoHandle /\ e.target # None
          /\ \E t \in ToSet(n.texts) : e.handle = ButtonOf(t)
          /\ \A f \in ToSet(flow.edges) :
                f.source = n.id /\ f.handle = e.handle => f.target = e.target

Unmerged(flow, n) == n.type = "if_condition" => n.branches \/ ElseOf(flow, n) = None

Written(flow) ==
    /\ IsFlow(flow) /\ DistinctIds(flow.nodes)
    /\ \A n \in ToSet(flow.nodes) : WrittenNode(n) /\ Unmerged(flow, n)
    /\ \A e \in ToSet(flow.edges) : e.source \in IdsOf(flow.nodes)
    /\ \A n \in ToSet(flow.nodes), e \in ToSet(flow.edges) :
          e.source = n.id => WrittenEdge(flow, n, e)

EdgesFrom(flow, id) == {e \in ToSet(flow.edges) : e.source = id}

\* What the edges of a step and of its routes are when it is written.
WrittenRoute(kind, r) == [r EXCEPT !.handle = Prefixed(kind, @)]
WrittenAgain(read) ==
    {WrittenRoute(read.step.kind, r) : r \in ToSet(read.routes) \cup ToSet(read.step.routes)}
    \cup ToSet(ImplicitEdges(read.step))

\* A node is read back: the step compiles to it, and its edges to those that leave it.
ReadBack(flow, node, read) ==
    /\ CompileStep(read.step) = node
    /\ read.step.id = node.id /\ read.step.kind = node.type /\ read.step.global = FALSE
    /\ WrittenAgain(read) = EdgesFrom(flow, node.id)
    /\ \A r \in ToSet(read.routes) \cup ToSet(read.step.routes) :
          r.source = node.id /\ \E e \in EdgesFrom(flow, node.id) : r.target = e.target
    /\ read.step.target # None => \E e \in EdgesFrom(flow, node.id) : read.step.target = e.target
    /\ \A b \in ToSet(read.step.buttons) :
          b.next # None => \E e \in EdgesFrom(flow, node.id) : b.next = e.target

\* A route is read without the prefix of its handle and written with it.
LEMMA RouteIsKept ==
    ASSUME NEW e, IsRoute(e), NEW kind, kind \in OutputKinds => e.handle.form # "plain"
    PROVE  /\ WrittenRoute(kind, ReadRoute(kind, e)) = e
           /\ ReadRoute(kind, e).source = e.source /\ ReadRoute(kind, e).target = e.target
<1> DEFINE h == Unprefixed(kind, e.handle)
           k == Prefixed(kind, h)
           r == RouteOf(e.source, e.target, h, e.targetHandle)
<1>1. k = e.handle /\ e = RouteOf(e.source, e.target, e.handle, e.targetHandle)
  BY DEF IsRoute, IsHandle, Handle, Prefixed, Unprefixed, Output, Plain, RouteOf
<1>2. ReadRoute(kind, e) = r
  BY RouteIsRead
<1>3. r.handle = h /\ r.source = e.source /\ r.target = e.target
      /\ \A x : [r EXCEPT !.handle = x] = RouteOf(e.source, e.target, x, e.targetHandle)
  BY DEF RouteOf
<1> HIDE DEF r
<1>4. WrittenRoute(kind, r) = RouteOf(e.source, e.target, k, e.targetHandle)
  BY <1>3 DEF WrittenRoute
<1> QED
  BY <1>1, <1>2, <1>3, <1>4

\* A runtime node keeps its edges as routes of its own.
LEMMA RawNodeReadBack ==
    ASSUME NEW flow, Written(flow), NEW node \in ToSet(flow.nodes), node.type = "raw_node"
    PROVE  ReadBack(flow, node, ImportNode(node, From(flow, node.id)))
<1> DEFINE edges == From(flow, node.id)
           e == << >>
           read == ImportNode(node, edges)
           step == ReadStep(node.id, node.type, node.value, e, None, node.branches, edges)
<1>1. read = ReadOf(step, e)
  BY ReadNode
<1>2. read.step = step /\ read.routes = e
  BY <1>1 DEF ReadOf
<1>3. IsList(edges) /\ ToSet(edges) = EdgesFrom(flow, node.id) /\ ToSet(e) = {} /\ IsList(e)
  BY FromEffect, EmptyList DEF Written, EdgesFrom
<1>4. \A x \in EdgesFrom(flow, node.id) : IsRoute(x) /\ x.source = node.id
  BY DEF EdgesFrom, Written, IsFlow
<1> HIDE DEF edges, e, read
<1>5. /\ step.id = node.id /\ step.kind = "raw_node" /\ step.kind = node.type /\ step.global = FALSE
      /\ step.value = node.value /\ step.branches = node.branches
      /\ step.buttons = e /\ step.target = None /\ step.routes = edges
      /\ step = [id |-> step.id, kind |-> step.kind, global |-> step.global, value |-> step.value,
                 buttons |-> step.buttons, target |-> step.target, branches |-> step.branches,
                 routes |-> step.routes]
  BY DEF ReadStep
<1> HIDE DEF step
<1>6. IsStep(step)
  BY <1>3, <1>4, <1>5 DEF IsStep
<1>7. CompileStep(step) = node
  <2>1. node = NodeOf(node.id, node.type, node.value, node.branches, node.texts) /\ node.texts = << >>
    BY DEF Written, WrittenNode, ButtonKinds
  <2>2. CompileStep(step) = NodeOf(step.id, step.kind, step.value, step.branches, << >>)
    BY <1>5 DEF CompileStep, ButtonKinds, NodeOf
  <2> QED
    BY <1>5, <2>1, <2>2
<1>8. ToSet(ImplicitEdges(step)) = EdgesFrom(flow, node.id)
  BY <1>3, <1>5, <1>6, ImplicitSet DEF PressEdges, EditEdges, RawEdges, ButtonKinds, TargetKinds
<1>9. \A x \in EdgesFrom(flow, node.id) : WrittenRoute("raw_node", x) = x
  <2> SUFFICES ASSUME NEW x \in EdgesFrom(flow, node.id) PROVE WrittenRoute("raw_node", x) = x
    OBVIOUS
  <2>1. x = RouteOf(x.source, x.target, x.handle, x.targetHandle)
    BY <1>4 DEF IsRoute, RouteOf
  <2>2. WrittenRoute("raw_node", x) = [x EXCEPT !.handle = x.handle]
    BY DEF WrittenRoute, Prefixed, OutputKinds
  <2>3. \A h : [x EXCEPT !.handle = h] = RouteOf(x.source, x.target, h, x.targetHandle)
    BY <2>1 DEF RouteOf
  <2> QED
    BY <2>1, <2>2, <2>3
<1>10. WrittenAgain(read) = EdgesFrom(flow, node.id)
  BY <1>2, <1>3, <1>5, <1>8, <1>9 DEF WrittenAgain
<1> HIDE DEF EdgesFrom
<1>11. ReadBack(flow, node, read)
  BY <1>2, <1>3, <1>4, <1>5, <1>7, <1>10 DEF ReadBack
<1> QED
  BY <1>11 DEF read, edges

\* The presses of buttons are read back as the targets of the buttons.
LEMMA PressesReadBack ==
    ASSUME NEW flow, Written(flow), NEW node \in ToSet(flow.nodes),
           NEW step, step.id = node.id, step.kind = node.type,
           step.buttons = ReadButtons(node, From(flow, node.id))
    PROVE  /\ PressEdges(step) = {e \in EdgesFrom(flow, node.id) : IsPress(node.type, e)}
           /\ IsList(step.buttons) /\ \A b \in ToSet(step.buttons) : IsButton(b)
           /\ [i \in DOMAIN step.buttons |-> step.buttons[i].text] = node.texts
           /\ \A b \in ToSet(step.buttons) :
                 b.next # None => \E e \in EdgesFrom(flow, node.id) : b.next = e.target
<1> DEFINE kind   == node.type
           texts  == node.texts
           edges  == From(flow, node.id)
           others == OthersOf(kind, edges)
           bs     == HydrateButtons(texts, others)
           E      == EdgesFrom(flow, node.id)
<1>1. IsList(edges) /\ ToSet(edges) = E
  BY FromEffect DEF Written, EdgesFrom
<1>2. IsList(texts) /\ \A e \in E : IsRoute(e) /\ e.source = node.id /\ WrittenEdge(flow, node, e)
                                    /\ e \in ToSet(flow.edges)
  BY DEF EdgesFrom, Written, IsFlow
<1>3. texts = << >> \/ kind \in ButtonKinds
  BY DEF Written, WrittenNode
<1>4. step.buttons = bs
  BY DEF ReadButtons
<1> HIDE DEF E, edges
<1>5. IsList(others) /\ ToSet(others) = {e \in E : ~ IsEdit(kind, e)}
  BY <1>1, EdgesAreSplit
<1> HIDE DEF kind, texts, others
<1>6. /\ IsList(bs) /\ ToSet(bs) = {bs[i] : i \in DOMAIN texts}
      /\ [i \in DOMAIN bs |-> bs[i].text] = texts
      /\ ToSet(texts) = {texts[i] : i \in DOMAIN texts}
      /\ \A i \in DOMAIN texts :
            /\ IsButton(bs[i]) /\ bs[i].text = texts[i]
            /\ \/ bs[i].next = None /\ \A e \in ToSet(others) : e.handle # ButtonOf(texts[i])
               \/ \E e \in ToSet(others) : e.handle = ButtonOf(texts[i]) /\ bs[i].next = e.target
  BY <1>2, <1>5, HydratedButtons
<1> HIDE DEF bs
<1>7. \A e \in E : IsPress(kind, e) =>
         /\ ~ IsEdit(kind, e) /\ e.targetHandle = NoHandle /\ e.target # None
         /\ \E t \in ToSet(texts) : e.handle = ButtonOf(t)
         /\ \A f \in E : f.handle = e.handle => f.target = e.target
  <2> SUFFICES ASSUME NEW e \in E, IsPress(kind, e)
               PROVE  /\ ~ IsEdit(kind, e) /\ e.targetHandle = NoHandle /\ e.target # None
                      /\ \E t \in ToSet(texts) : e.handle = ButtonOf(t)
                      /\ \A f \in E : f.handle = e.handle => f.target = e.target
    OBVIOUS
  <2>1. WrittenEdge(flow, node, e)
    BY <1>2
  <2>2. NoHandle # Selected
    BY DEF NoHandle, Selected, Handle
  <2> QED
    BY <1>2, <2>1, <2>2 DEF WrittenEdge, IsEdit, kind, texts
<1>8. \A e, b : /\ IsRoute(e) /\ e.source = node.id /\ e.targetHandle = NoHandle
                /\ e.handle = ButtonOf(b.text) /\ e.target = b.next
                => PressEdge(step, b) = e
  BY DEF IsRoute, PressEdge, Route
<1>9. \A e, t : e.handle = ButtonOf(t) => IsButtonEdge(e)
  BY DEF IsButtonEdge, ButtonOf, Handle
<1>10. ASSUME kind \in ButtonKinds, NEW b \in ToSet(bs), b.next # None
       PROVE  PressEdge(step, b) \in {e \in E : IsPress(kind, e)}
  <2>1. PICK i \in DOMAIN texts : b = bs[i]
    BY <1>6, <1>10
  <2>2. PICK e \in ToSet(others) : e.handle = ButtonOf(texts[i]) /\ bs[i].next = e.target
    BY <1>6, <1>10, <2>1
  <2>3. e \in E /\ IsPress(kind, e) /\ e.handle = ButtonOf(b.text) /\ e.target = b.next
    BY <1>5, <1>6, <1>9, <1>10, <2>1, <2>2 DEF IsPress
  <2>4. PressEdge(step, b) = e
    BY <1>2, <1>7, <1>8, <2>3
  <2> QED
    BY <2>3, <2>4
<1>11. ASSUME NEW e \in E, IsPress(kind, e)
       PROVE  kind \in ButtonKinds /\ \E b \in ToSet(bs) : b.next # None /\ e = PressEdge(step, b)
  <2>1. PICK i \in DOMAIN texts : e.handle = ButtonOf(texts[i])
    BY <1>6, <1>7, <1>11
  <2>2. e \in ToSet(others)
    BY <1>5, <1>7, <1>11
  <2>3. PICK f \in ToSet(others) : f.handle = ButtonOf(texts[i]) /\ bs[i].next = f.target
    BY <1>6, <2>1, <2>2
  <2>4. bs[i].next = e.target /\ e.target # None
    BY <1>5, <1>7, <1>11, <2>1, <2>3
  <2>5. e = PressEdge(step, bs[i])
    BY <1>2, <1>6, <1>7, <1>8, <1>11, <2>1, <2>4
  <2> QED
    BY <1>6, <1>11, <2>4, <2>5 DEF IsPress
<1>12. PressEdges(step) = {e \in E : IsPress(kind, e)}
  <2>1. CASE kind \in ButtonKinds
    <3>1. PressEdges(step) = {PressEdge(step, b) : b \in {c \in ToSet(bs) : c.next # None}}
      BY <1>4, <2>1 DEF PressEdges, kind
    <3> QED
      BY <1>10, <1>11, <2>1, <3>1
  <2>2. CASE kind \notin ButtonKinds
    <3>1. PressEdges(step) = {}
      BY <2>2 DEF PressEdges, kind
    <3> QED
      BY <2>2, <3>1 DEF IsPress
  <2> QED
    BY <2>1, <2>2
<1>13. \A b \in ToSet(bs) : IsButton(b) /\ (b.next # None => \E e \in E : b.next = e.target)
  BY <1>5, <1>6
<1> QED
  BY <1>4, <1>6, <1>12, <1>13 DEF E, kind, texts

\* The edit of a message is read back as the target of its step.
LEMMA EditReadBack ==
    ASSUME NEW flow, Written(flow), NEW node \in ToSet(flow.nodes),
           NEW step, step.id = node.id, step.kind = node.type,
           step.target = ReadTarget(node.type, From(flow, node.id))
    PROVE  /\ EditEdges(step) = {e \in EdgesFrom(flow, node.id) : IsEdit(node.type, e)}
           /\ step.target # None => \E e \in EdgesFrom(flow, node.id) : step.target = e.target
<1> DEFINE kind   == node.type
           edges  == From(flow, node.id)
           edits  == EditsOf(kind, edges)
           E      == EdgesFrom(flow, node.id)
           edge   == EditEdge(step)
<1>1. IsList(edges) /\ ToSet(edges) = E
  BY FromEffect DEF Written, EdgesFrom
<1>2. \A e \in E : IsRoute(e) /\ e.source = node.id /\ WrittenEdge(flow, node, e) /\ e \in ToSet(flow.edges)
  BY DEF EdgesFrom, Written, IsFlow
<1>3. step.target = IF edits = << >> THEN None ELSE Last(edits).target
  BY DEF ReadTarget
<1> HIDE DEF E, edges
<1>4. IsList(edits) /\ ToSet(edits) = {e \in E : IsEdit(kind, e)}
  BY <1>1, EdgesAreSplit
<1> HIDE DEF edits
<1>5. \A e \in E : IsEdit(kind, e) =>
         /\ kind \in TargetKinds /\ e.handle = NoHandle /\ e.targetHandle = Selected /\ e.target # None
         /\ \A f \in E : IsEdit(kind, f) => f.target = e.target
  BY <1>2 DEF WrittenEdge, IsEdit
<1> HIDE DEF kind
<1>6. edge = RouteOf(step.id, step.target, NoHandle, Selected)
  <2> DEFINE r == Route(step.id, step.target, NoHandle)
  <2>1. r = RouteOf(step.id, step.target, NoHandle, NoHandle)
    BY DEF Route, RouteOf
  <2>2. edge = [r EXCEPT !.targetHandle = Selected]
    BY DEF EditEdge
  <2> HIDE DEF r, edge
  <2> QED
    BY <2>1, <2>2 DEF RouteOf
<1>7. \A e \in E : IsEdit(kind, e) /\ e.target = step.target => e = edge
  BY <1>2, <1>5, <1>6 DEF IsRoute, RouteOf
<1> HIDE DEF edge
<1>8. CASE edits = << >>
  <2>1. step.target = None /\ {e \in E : IsEdit(kind, e)} = {}
    BY <1>3, <1>4, <1>8, EmptyList
  <2> QED
    BY <2>1 DEF EditEdges, E, kind
<1>9. CASE edits # << >>
  <2>1. PICK e \in E : IsEdit(kind, e) /\ e = Last(edits)
    BY <1>4, <1>9, LastOfList
  <2>2. step.target = e.target /\ e.target # None /\ kind \in TargetKinds
    BY <1>3, <1>5, <1>9, <2>1
  <2>3. EditEdges(step) = {edge}
    BY <2>2 DEF EditEdges, edge, kind
  <2>4. {x \in E : IsEdit(kind, x)} = {edge}
    BY <1>5, <1>7, <2>1, <2>2
  <2> QED
    BY <2>1, <2>2, <2>3, <2>4 DEF E, kind
<1> QED
  BY <1>8, <1>9

\* Every node is read back.
LEMMA NodeReadBack ==
    ASSUME NEW flow, Written(flow), NEW node \in ToSet(flow.nodes)
    PROVE  ReadBack(flow, node, ImportNode(node, From(flow, node.id)))
<1>1. CASE node.type = "raw_node"
  BY <1>1, RawNodeReadBack
<1>2. CASE node.type # "raw_node"
  <2> DEFINE kind == node.type
             edges == From(flow, node.id)
             E == EdgesFrom(flow, node.id)
             none == << >>
             read == ImportNode(node, edges)
             buttons == ReadButtons(node, edges)
             target == ReadTarget(kind, edges)
             step == ReadStep(node.id, kind, node.value, buttons, target, node.branches, none)
             routes == ReadRoutes(kind, edges)
  <2>1. read = ReadOf(step, routes)
    BY <1>2, ReadNode
  <2>2. read.step = step /\ read.routes = routes
    BY <2>1 DEF ReadOf
  <2>3. IsList(edges) /\ ToSet(edges) = E /\ ToSet(none) = {} /\ IsList(none)
    BY FromEffect, EmptyList DEF Written, EdgesFrom
  <2>4. \A x \in E : /\ IsRoute(x) /\ x.source = node.id
                     /\ (kind \in OutputKinds => x.handle.form # "plain")
    BY DEF EdgesFrom, Written, IsFlow, WrittenEdge
  <2> HIDE DEF edges, none, read, buttons, target, routes
  <2>5. /\ step.id = node.id /\ step.kind = kind /\ step.global = FALSE
        /\ step.value = node.value /\ step.branches = node.branches
        /\ step.buttons = buttons /\ step.target = target /\ step.routes = none
        /\ step = [id |-> step.id, kind |-> step.kind, global |-> step.global, value |-> step.value,
                   buttons |-> step.buttons, target |-> step.target, branches |-> step.branches,
                   routes |-> step.routes]
    BY DEF ReadStep
  <2> HIDE DEF step
  <2>6. /\ PressEdges(step) = {e \in E : IsPress(kind, e)}
        /\ IsList(step.buttons) /\ \A b \in ToSet(step.buttons) : IsButton(b)
        /\ [i \in DOMAIN step.buttons |-> step.buttons[i].text] = node.texts
        /\ \A b \in ToSet(step.buttons) : b.next # None => \E e \in E : b.next = e.target
    BY <2>5, PressesReadBack DEF buttons, edges
  <2>7. /\ EditEdges(step) = {e \in E : IsEdit(kind, e)}
        /\ step.target # None => \E e \in E : step.target = e.target
    BY <2>5, EditReadBack DEF target, edges
  <2>8. IsStep(step)
    BY <2>3, <2>5, <2>6 DEF IsStep
  <2>9. ToSet(routes) = {ReadRoute(kind, e) : e \in {f \in E : ~ IsEdit(kind, f) /\ ~ IsPress(kind, f)}}
    BY <2>3, EdgesAreSplit DEF routes
  <2>10. \A e \in E : /\ WrittenRoute(kind, ReadRoute(kind, e)) = e
                      /\ ReadRoute(kind, e).source = e.source /\ ReadRoute(kind, e).target = e.target
    BY <2>4, RouteIsKept
  <2> HIDE DEF E
  <2>11. {WrittenRoute(kind, r) : r \in ToSet(routes)} = {f \in E : ~ IsEdit(kind, f) /\ ~ IsPress(kind, f)}
    BY <2>9, <2>10
  <2>12. RawEdges(step) = {}
    BY <1>2, <2>5 DEF RawEdges
  <2>13. ToSet(ImplicitEdges(step)) = {e \in E : IsPress(kind, e)} \cup {e \in E : IsEdit(kind, e)}
    BY <2>6, <2>7, <2>8, <2>12, ImplicitSet
  <2>14. ToSet(routes) \cup ToSet(step.routes) = ToSet(routes)
    BY <2>3, <2>5
  <2>15. WrittenAgain(read) = E
    BY <2>2, <2>5, <2>11, <2>13, <2>14 DEF WrittenAgain
  <2>16. CompileStep(step) = node
    <3>1. node = NodeOf(node.id, kind, node.value, node.branches, node.texts)
          /\ (kind \notin ButtonKinds => node.texts = << >>)
      BY DEF Written, WrittenNode
    <3>2. CompileStep(step) = NodeOf(step.id, step.kind, step.value, step.branches, node.texts)
      BY <2>5, <2>6, <3>1 DEF CompileStep, NodeOf
    <3> QED
      BY <2>5, <3>1, <3>2
  <2>17. \A r \in ToSet(routes) : r.source = node.id /\ \E e \in E : r.target = e.target
    BY <2>4, <2>9, <2>10
  <2> HIDE DEF kind
  <2>18. ReadBack(flow, node, read)
    BY <2>2, <2>5, <2>6, <2>7, <2>14, <2>15, <2>16, <2>17 DEF ReadBack, E, kind
  <2> QED
    BY <2>18 DEF read, edges
<1> QED
  BY <1>1, <1>2
-----------------------------------------------------------------------------
(***************************************************************************)
(* The loop over the nodes of a file that was written.                     *)
(***************************************************************************)
Alone(flow, node)  == ImportNode(node, From(flow, node.id))
IsRoot(flow, node) == node.type \in TriggerKinds /\ ~ HasIncoming(flow, node.id)

\* What a document holds of the given nodes.
ReadFrom(flow, nodes, d) ==
    /\ ToSet(d.triggers) = {Alone(flow, x).step : x \in {y \in nodes : IsRoot(flow, y)}}
    /\ ToSet(d.steps)    = {Alone(flow, x).step : x \in {y \in nodes : ~ IsRoot(flow, y)}}
    /\ ToSet(d.routes)   = UNION {ToSet(Alone(flow, x).routes) : x \in nodes}

\* A step at the end of one of the lists, and its routes at the end of theirs.
AtEnd(d, read, p) ==
    /\ p.routes = d.routes \o read.routes
    /\ \/ p.triggers = Append(d.triggers, read.step) /\ p.steps = d.steps
       \/ p.triggers = d.triggers /\ p.steps = Append(d.steps, read.step)

\* What a step at the end adds.
LEMMA PlacedStep ==
    ASSUME NEW d, ProperDocument(d), NEW read, IsList(read.routes), NEW p, AtEnd(d, read, p)
    PROVE  /\ ToSet(Append(d.triggers, read.step)) = ToSet(d.triggers) \cup {read.step}
           /\ ToSet(Append(d.steps, read.step)) = ToSet(d.steps) \cup {read.step}
           /\ ToSet(p.routes) = ToSet(d.routes) \cup ToSet(read.routes)
           /\ Len(Steps(p)) = Len(Steps(d)) + 1
<1> DEFINE t == d.triggers
           s == d.steps
           x == read.step
           S == (ToSet(t) \cup ToSet(s)) \cup {x}
<1>1. IsList(t) /\ IsList(s) /\ IsList(d.routes)
  BY DEF ProperDocument, IsDocument
<1>2. t \in Seq(S) /\ s \in Seq(S) /\ x \in S
  BY <1>1, ListOver
<1>3. Steps(p) = p.triggers \o p.steps /\ Steps(d) = t \o s
  BY DEF Steps
<1>4. \/ p.triggers = Append(t, x) /\ p.steps = s
      \/ p.triggers = t /\ p.steps = Append(s, x)
  BY DEF AtEnd
<1>5. ToSet(p.routes) = ToSet(d.routes) \cup ToSet(read.routes)
  BY <1>1, BothLists DEF AtEnd
<1> HIDE DEF t, s, x, S
<1>6. /\ ToSet(Append(t, x)) = ToSet(t) \cup {x} /\ ToSet(Append(s, x)) = ToSet(s) \cup {x}
      /\ Append(t, x) \in Seq(S) /\ Append(s, x) \in Seq(S)
  BY <1>2, ToSetOfAppend
<1>7. /\ Len(Append(t, x)) = Len(t) + 1 /\ Len(Append(s, x)) = Len(s) + 1
      /\ Len(t) \in Nat /\ Len(s) \in Nat /\ Len(t \o s) = Len(t) + Len(s)
      /\ Len(Append(t, x) \o s) = Len(Append(t, x)) + Len(s)
      /\ Len(t \o Append(s, x)) = Len(t) + Len(Append(s, x))
  BY <1>2, <1>6
<1>8. Len(Steps(p)) = Len(Steps(d)) + 1
  <2>1. Steps(p) = Append(t, x) \o s \/ Steps(p) = t \o Append(s, x)
    BY <1>3, <1>4
  <2>2. CASE Steps(p) = Append(t, x) \o s
    BY <1>3, <1>7, <2>2
  <2>3. CASE Steps(p) = t \o Append(s, x)
    BY <1>3, <1>7, <2>3
  <2> QED
    BY <2>1, <2>2, <2>3
<1> QED
  BY <1>5, <1>6, <1>8 DEF t, s, x

\* What one turn adds, for a node that was not visited.
TurnReads(flow, node, nodes, d, visited, seen) ==
    /\ ReadFrom(flow, nodes \cup {node}, seen.doc)
    /\ seen.visited = visited \cup {node.id}
    /\ Len(Steps(seen.doc)) = Len(Steps(d)) + 1

LEMMA OneTurn ==
    ASSUME NEW flow, Written(flow), NEW node, node \in ToSet(flow.nodes), NEW nodes,
           NEW d, ProperDocument(d), ReadFrom(flow, nodes, d), NEW visited, node.id \notin visited,
           NEW seen, seen = ImportNext(flow, SeenAs(d, visited), node)
    PROVE  TurnReads(flow, node, nodes, d, visited, seen)
<1> DEFINE read == Alone(flow, node)
           root == IsRoot(flow, node)
           p == Place(d, read, root)
<1>1. seen.doc = p /\ seen.visited = visited \cup {node.id}
  <2>1. SeenAs(d, visited).doc = d /\ SeenAs(d, visited).visited = visited
    BY DEF SeenAs
  <2>2. ~ (node.type = "if_condition" /\ ~ node.branches /\ ElseOf(flow, node) # None)
    BY DEF Written, Unmerged
  <2>3. seen = SeenAs(p, visited \cup {node.id})
    BY <2>1, <2>2 DEF ImportNext, SeenAs, IsRoot, Alone
  <2> QED
    BY <2>3 DEF SeenAs
<1>2. IsList(read.routes)
  <2>1. ReadForm(read)
    BY ImportedForm DEF Alone, Written
  <2> QED
    BY <2>1 DEF ReadForm, RouteList
<1>3. root \in BOOLEAN
  BY DEF IsRoot
<1>4. /\ p.routes = d.routes \o read.routes
      /\ root => p.triggers = Append(d.triggers, read.step) /\ p.steps = d.steps
      /\ ~ root => p.triggers = d.triggers /\ p.steps = Append(d.steps, read.step)
  <2> HIDE DEF read, root
  <2> QED
    BY <1>3 DEF Place
<1> HIDE DEF read, p
<1>6. /\ ToSet(Append(d.triggers, read.step)) = ToSet(d.triggers) \cup {read.step}
      /\ ToSet(Append(d.steps, read.step)) = ToSet(d.steps) \cup {read.step}
      /\ ToSet(p.routes) = ToSet(d.routes) \cup ToSet(read.routes)
      /\ Len(Steps(p)) = Len(Steps(d)) + 1
  <2>1. AtEnd(d, read, p)
    BY <1>3, <1>4 DEF AtEnd
  <2> HIDE DEF root
  <2> QED
    BY <1>2, <2>1, PlacedStep
<1>5. ReadFrom(flow, nodes \cup {node}, p)
  <2> DEFINE more == nodes \cup {node}
             steps(set) == {Alone(flow, x).step : x \in set}
             roots(set) == {y \in set : IsRoot(flow, y)}
             rest(set)  == {y \in set : ~ IsRoot(flow, y)}
  <2>1. /\ ToSet(d.triggers) = steps(roots(nodes)) /\ ToSet(d.steps) = steps(rest(nodes))
        /\ ToSet(d.routes) = UNION {ToSet(Alone(flow, x).routes) : x \in nodes}
    BY DEF ReadFrom
  <2>2. ToSet(p.routes) = UNION {ToSet(Alone(flow, x).routes) : x \in more}
    BY <1>6, <2>1 DEF read
  <2>3. \A set : steps(set \cup {node}) = steps(set) \cup {read.step}
    BY DEF read
  <2>4. CASE root
    <3>1. roots(more) = roots(nodes) \cup {node} /\ rest(more) = rest(nodes)
      BY <2>4
    <3> HIDE DEF steps, roots, rest, more
    <3>2. ToSet(p.triggers) = steps(roots(more)) /\ ToSet(p.steps) = steps(rest(more))
      BY <1>4, <1>6, <2>1, <2>3, <2>4, <3>1
    <3> QED
      BY <2>2, <3>2 DEF ReadFrom, steps, roots, rest, more
  <2>5. CASE ~ root
    <3>1. roots(more) = roots(nodes) /\ rest(more) = rest(nodes) \cup {node}
      BY <2>5
    <3> HIDE DEF steps, roots, rest, more
    <3>2. ToSet(p.triggers) = steps(roots(more)) /\ ToSet(p.steps) = steps(rest(more))
      BY <1>4, <1>6, <2>1, <2>3, <2>5, <3>1
    <3> QED
      BY <2>2, <3>2 DEF ReadFrom, steps, roots, rest, more
  <2> QED
    BY <2>4, <2>5
<1> QED
  BY <1>1, <1>5, <1>6 DEF TurnReads

\* The document that is imported.
LEMMA ImportedDocument ==
    ASSUME NEW flow, Written(flow)
    PROVE  /\ ProperDocument(Import(flow))
           /\ ReadFrom(flow, ToSet(flow.nodes), Import(flow))
           /\ Len(Steps(Import(flow))) = Len(flow.nodes)
<1> DEFINE nodes == flow.nodes
           n == Len(nodes)
           upto(i) == {nodes[k] : k \in 1 .. i}
           ids(i) == {nodes[k].id : k \in 1 .. i}
<1>1. n \in Nat /\ ToSet(nodes) = upto(n) /\ DOMAIN nodes = 1 .. n
      /\ \A i \in 1 .. n : nodes[i] \in ToSet(nodes)
  <2>1. nodes \in Seq(ToSet(nodes))
    BY DEF Written, IsFlow, IsList
  <2> QED
    BY <2>1, ToSetOfSeq
<1>2. PICK h : Turns(flow, h)
  <2>1. IsFlow(flow) /\ Readable(flow)
    BY DEF Written, Unmerged, Readable
  <2> QED
    BY <2>1, ImportTurns
<1>3. /\ h[0] = SeenAs(EmptyDocument, {})
      /\ \A i \in 1 .. n : h[i] = ImportNext(flow, h[i - 1], nodes[i])
      /\ \A i \in 0 .. n : ProperDocument(h[i].doc) /\ h[i] = SeenAs(h[i].doc, h[i].visited)
      /\ Import(flow) = h[n].doc
  BY <1>2 DEF Turns
<1>4. \A i, j \in 1 .. n : nodes[i].id = nodes[j].id => i = j
  BY <1>1 DEF Written, DistinctIds
<1> DEFINE P(i) == /\ ReadFrom(flow, upto(i), h[i].doc)
                   /\ h[i].visited = ids(i)
                   /\ Len(Steps(h[i].doc)) = i
           S == {i \in Nat : i <= n => P(i)}
<1>5. P(0)
  <2>1. h[0].doc = EmptyDocument /\ h[0].visited = {}
    BY <1>3 DEF SeenAs
  <2>2. upto(0) = {} /\ ids(0) = {}
    OBVIOUS
  <2>3. ReadFrom(flow, {}, EmptyDocument)
    BY EmptyList DEF ReadFrom, EmptyDocument
  <2>4. Len(Steps(EmptyDocument)) = 0
    <3> DEFINE e == << >>
    <3>1. e \in Seq({})  /\ Len(e) = 0
      OBVIOUS
    <3>2. Steps(EmptyDocument) = e \o e
      BY DEF Steps, EmptyDocument
    <3> HIDE DEF e
    <3>3. Len(e \o e) = Len(e) + Len(e)
      BY <3>1
    <3> QED
      BY <3>1, <3>2, <3>3
  <2> QED
    BY <2>1, <2>2, <2>3, <2>4
<1>6. ASSUME NEW i \in Nat, i + 1 <= n, P(i) PROVE P(i + 1)
  <2> DEFINE x == nodes[i + 1]
             d == h[i].doc
             visited == h[i].visited
             seen == h[i + 1]
  <2>1. /\ i \in 0 .. n /\ i + 1 \in 1 .. n /\ (i + 1) - 1 = i
    BY <1>1, <1>6
  <2>2. x \in ToSet(flow.nodes)
    BY <1>1, <2>1
  <2>3. ProperDocument(d) /\ h[i] = SeenAs(d, visited) /\ seen = ImportNext(flow, h[i], x)
    BY <1>3, <2>1
  <2>4. x.id \notin visited
    BY <1>1, <1>4, <1>6, <2>1
  <2>5. upto(i + 1) = upto(i) \cup {x} /\ ids(i + 1) = ids(i) \cup {x.id}
    BY <2>1
  <2>6. seen = ImportNext(flow, SeenAs(d, visited), x)
    BY <2>3
  <2>7. ReadFrom(flow, upto(i), d) /\ visited = ids(i) /\ Len(Steps(d)) = i
    BY <1>6
  <2> DEFINE before == upto(i)
  <2> HIDE DEF x, d, visited, seen, upto, ids
  <2>8. /\ ReadFrom(flow, before \cup {x}, seen.doc) /\ seen.visited = visited \cup {x.id}
        /\ Len(Steps(seen.doc)) = Len(Steps(d)) + 1
    <3>1. ReadFrom(flow, before, d)
      BY <2>7
    <3> HIDE DEF before
    <3>2. TurnReads(flow, x, before, d, visited, seen)
      BY <2>2, <2>3, <2>4, <2>6, <3>1, OneTurn
    <3> QED
      BY <3>2 DEF TurnReads
  <2> QED
    BY <2>5, <2>7, <2>8 DEF seen
<1> HIDE DEF P
<1>7. Nat \subseteq S
  <2>1. 0 \in S
    BY <1>5
  <2>2. \A i \in Nat : i \in S => i + 1 \in S
    BY <1>1, <1>6
  <2> HIDE DEF S
  <2> QED
    BY <2>1, <2>2, Induction
<1>8. P(n)
  BY <1>1, <1>7
<1> QED
  BY <1>1, <1>3, <1>8 DEF P

-----------------------------------------------------------------------------
\* The document that is imported compiles to the file it was read from.
LEMMA ReadBackIsSame ==
    ASSUME NEW flow, Written(flow)
    PROVE  SameFlow(Compile(Import(flow)), flow)
<1> DEFINE d == Import(flow)
           nodes == ToSet(flow.nodes)
           step(x) == Alone(flow, x).step
<1>1. ProperDocument(d) /\ ReadFrom(flow, nodes, d) /\ Len(Steps(d)) = Len(flow.nodes)
  BY ImportedDocument
<1>2. \A x \in nodes : ReadBack(flow, x, Alone(flow, x))
  BY NodeReadBack DEF Alone
<1> HIDE DEF d
<1>3. IsDocument(d) /\ OrdinaryDocument(d)
  BY <1>1 DEF ProperDocument
<1>4. ToSet(Steps(d)) = {step(x) : x \in nodes} /\ IsList(Steps(d))
  BY <1>1, <1>3, StepsAreAList DEF ReadFrom
<1>5. DistinctIds(Steps(d))
  <2>1. IdsOf(Steps(d)) = IdsOf(flow.nodes)
    BY <1>2, <1>4 DEF IdsOf, ReadBack
  <2>2. Cardinality(IdsOf(flow.nodes)) = Len(flow.nodes)
    BY IdsAreCounted DEF Written, IsFlow
  <2> QED
    BY <1>1, <1>4, <2>1, <2>2, IdsAreCounted
<1>6. \A x \in nodes : KindOf(d, x.id) = x.type
  <2> SUFFICES ASSUME NEW x \in nodes PROVE KindOf(d, x.id) = x.type
    OBVIOUS
  <2>1. step(x) \in ToSet(Steps(d)) /\ step(x).id = x.id /\ step(x).kind = x.type
    BY <1>2, <1>4 DEF ReadBack
  <2> HIDE DEF step
  <2> QED
    BY <1>3, <1>5, <2>1, KindOfStep
<1> DEFINE routes(x) == ToSet(Alone(flow, x).routes) \cup ToSet(step(x).routes)
<1>7. AllRoutes(d) = UNION {routes(x) : x \in nodes}
  <2>1. ToSet(d.routes) = UNION {ToSet(Alone(flow, x).routes) : x \in nodes}
    BY <1>1 DEF ReadFrom
  <2>2. UNION {ToSet(s.routes) : s \in ToSet(Steps(d))} = UNION {ToSet(step(x).routes) : x \in nodes}
    BY <1>4
  <2> HIDE DEF step
  <2> QED
    BY <2>1, <2>2 DEF AllRoutes
<1>8. \A x \in nodes : \A r \in routes(x) : CompileRoute(d, r) = WrittenRoute(x.type, r)
  <2> SUFFICES ASSUME NEW x \in nodes, NEW r \in routes(x)
               PROVE  CompileRoute(d, r) = WrittenRoute(x.type, r)
    OBVIOUS
  <2>1. r.source = x.id
    BY <1>2 DEF ReadBack
  <2> QED
    BY <1>6, <2>1 DEF CompileRoute, WrittenRoute
<1>9. /\ ToSet(Compile(d).edges) = {CompileRoute(d, r) : r \in AllRoutes(d)}
                                   \cup UNION {ToSet(ImplicitEdges(s)) : s \in ToSet(Steps(d))}
      /\ ToSet(Compile(d).nodes) = {CompileStep(s) : s \in ToSet(Steps(d))}
  BY <1>3, CompiledEdges, CompiledNodes
<1>10. \A x \in nodes : {WrittenRoute(x.type, r) : r \in routes(x)} \cup ToSet(ImplicitEdges(step(x)))
                        = EdgesFrom(flow, x.id)
  <2> SUFFICES ASSUME NEW x \in nodes
               PROVE  {WrittenRoute(x.type, r) : r \in routes(x)} \cup ToSet(ImplicitEdges(step(x)))
                        = EdgesFrom(flow, x.id)
    OBVIOUS
  <2>1. WrittenAgain(Alone(flow, x)) = EdgesFrom(flow, x.id) /\ step(x).kind = x.type
    BY <1>2 DEF ReadBack
  <2>2. WrittenAgain(Alone(flow, x)) =
          {WrittenRoute(step(x).kind, r) : r \in routes(x)} \cup ToSet(ImplicitEdges(step(x)))
    BY DEF WrittenAgain
  <2> HIDE DEF routes, step
  <2> QED
    BY <2>1, <2>2
<1>11. ToSet(Compile(d).nodes) = nodes
  BY <1>2, <1>4, <1>9 DEF ReadBack
<1>12. ToSet(flow.edges) = UNION {EdgesFrom(flow, x.id) : x \in nodes}
  BY DEF EdgesFrom, Written, IdsOf
<1> HIDE DEF routes, step, nodes
<1>13. ToSet(Compile(d).edges) = UNION {EdgesFrom(flow, x.id) : x \in nodes}
  <2>1. {CompileRoute(d, r) : r \in AllRoutes(d)}
          = UNION {{WrittenRoute(x.type, r) : r \in routes(x)} : x \in nodes}
    BY <1>7, <1>8
  <2>2. UNION {ToSet(ImplicitEdges(s)) : s \in ToSet(Steps(d))}
          = UNION {ToSet(ImplicitEdges(step(x))) : x \in nodes}
    BY <1>4
  <2> DEFINE A(x) == {WrittenRoute(x.type, r) : r \in routes(x)}
             B(x) == ToSet(ImplicitEdges(step(x)))
             C(x) == EdgesFrom(flow, x.id)
  <2>3. \A x \in nodes : A(x) \cup B(x) = C(x)
    BY <1>10
  <2>4. ToSet(Compile(d).edges) = (UNION {A(x) : x \in nodes}) \cup UNION {B(x) : x \in nodes}
    BY <1>9, <2>1, <2>2
  <2> HIDE DEF A, B, C
  <2>5. (UNION {A(x) : x \in nodes}) \cup (UNION {B(x) : x \in nodes}) = UNION {C(x) : x \in nodes}
    BY <2>3
  <2> QED
    BY <2>4, <2>5 DEF C
<1> QED
  BY <1>11, <1>12, <1>13 DEF SameFlow, d, nodes
-----------------------------------------------------------------------------
(***************************************************************************)
(* The file of an accepted and faithful document has the form.             *)
(***************************************************************************)
\* The edges that leave the node of a step: of routes, of buttons, of an edit.
PlainEdge(s, e) ==
    /\ e.targetHandle # Selected /\ ~ IsPress(s.kind, e)
    /\ s.kind \in OutputKinds => e.handle.form # "plain"
PressedEdge(s, e) == s.kind \in ButtonKinds /\ \E b \in ToSet(s.buttons) : b.next # None /\ e = PressEdge(s, b)
EditingEdge(s, e) == s.kind \in TargetKinds /\ s.target # None /\ e = EditEdge(s)

\* What the edges of buttons and of edits say.
LEMMA EdgeFields ==
    ASSUME NEW s
    PROVE  /\ \A b : /\ PressEdge(s, b).source = s.id /\ PressEdge(s, b).target = b.next
                     /\ PressEdge(s, b).handle = ButtonOf(b.text) /\ PressEdge(s, b).targetHandle = NoHandle
           /\ EditEdge(s).source = s.id /\ EditEdge(s).target = s.target
           /\ EditEdge(s).handle = NoHandle /\ EditEdge(s).targetHandle = Selected
           /\ NoHandle # Selected /\ NoHandle.form # "button"
           /\ \A t, u : ButtonOf(t) = ButtonOf(u) => t = u
           /\ \A t : ButtonOf(t).form = "button"
<1>1. \A b : /\ PressEdge(s, b).source = s.id /\ PressEdge(s, b).target = b.next
             /\ PressEdge(s, b).handle = ButtonOf(b.text) /\ PressEdge(s, b).targetHandle = NoHandle
  BY DEF PressEdge, Route
<1>2. EditEdge(s) = RouteOf(s.id, s.target, NoHandle, Selected)
  <2> DEFINE r == Route(s.id, s.target, NoHandle)
  <2>1. r = RouteOf(s.id, s.target, NoHandle, NoHandle)
    BY DEF Route, RouteOf
  <2>2. EditEdge(s) = [r EXCEPT !.targetHandle = Selected]
    BY DEF EditEdge
  <2> HIDE DEF r
  <2> QED
    BY <2>1, <2>2 DEF RouteOf
<1>3. \A t, u : ButtonOf(t) = ButtonOf(u) => t = u
  BY DEF ButtonOf, Handle
<1>4. NoHandle # Selected /\ NoHandle.form # "button" /\ \A t : ButtonOf(t).form = "button"
  BY DEF NoHandle, Selected, ButtonOf, Handle
<1> QED
  BY <1>1, <1>2, <1>3, <1>4 DEF RouteOf

\* Every edge that leaves the node of a step is one of the three.
LEMMA EdgesOfCompiled ==
    ASSUME NEW d, IsDocument(d), OrdinaryDocument(d), DistinctIds(Steps(d)), Faithful(d),
           NEW s \in ToSet(Steps(d)), NEW e \in ToSet(Compile(d).edges), e.source = s.id
    PROVE  PlainEdge(s, e) \/ PressedEdge(s, e) \/ EditingEdge(s, e)
<1> DEFINE steps == ToSet(Steps(d))
<1>1. \A t \in steps : IsStep(t) /\ Ordinary(t.routes)
  BY StepsAreAList DEF OrdinaryDocument
<1>2. \A t \in steps : t.id = s.id => t = s
  BY DEF DistinctIds, ToSet
<1>3. \A r \in AllRoutes(d) : IsRoute(r) /\ r.targetHandle # Selected
  BY <1>1 DEF AllRoutes, IsDocument, OrdinaryDocument, IsStep, Ordinary
<1>4. \/ \E r \in AllRoutes(d) : e = CompileRoute(d, r)
      \/ \E t \in steps : e \in ToSet(ImplicitEdges(t))
  BY CompiledEdges
<1>5. ASSUME NEW r \in AllRoutes(d), e = CompileRoute(d, r) PROVE PlainEdge(s, e)
  <2> DEFINE h == Prefixed(s.kind, r.handle)
             k == Prefixed(KindOf(d, r.source), r.handle)
  <2>1. r = RouteOf(r.source, r.target, r.handle, r.targetHandle)
    BY <1>3 DEF IsRoute, RouteOf
  <2>2. \A x : [r EXCEPT !.handle = x] = RouteOf(r.source, r.target, x, r.targetHandle)
    BY <2>1 DEF RouteOf
  <2>3. e = RouteOf(r.source, r.target, k, r.targetHandle)
    BY <1>5, <2>2 DEF CompileRoute
  <2>4. r.source = s.id
    <3> HIDE DEF k
    <3> QED
      BY <2>3 DEF RouteOf
  <2>5. KindOf(d, r.source) = s.kind
    BY <2>4, KindOfStep
  <2>6. e.handle = h /\ e.targetHandle = r.targetHandle
    <3>1. k = h
      BY <2>5
    <3> HIDE DEF k, h
    <3> QED
      BY <2>3, <3>1 DEF RouteOf
  <2>7. s.kind \in OutputKinds => h.form # "plain"
    BY DEF Prefixed, Output, Handle
  <2>8. s.kind \in ButtonKinds => h = r.handle /\ r.handle.form # "button"
    <3>1. s.kind \in ButtonKinds => ~ IsButtonEdge(r)
      BY <2>4 DEF Faithful, RoutesOf, AllRoutes
    <3> QED
      BY <3>1 DEF Prefixed, ButtonKinds, OutputKinds, IsButtonEdge
  <2> HIDE DEF h
  <2> QED
    BY <1>3, <2>6, <2>7, <2>8 DEF PlainEdge, IsPress, IsButtonEdge
<1>6. ASSUME NEW t \in steps, e \in ToSet(ImplicitEdges(t))
      PROVE  PlainEdge(s, e) \/ PressedEdge(s, e) \/ EditingEdge(s, e)
  <2>1. e \in (PressEdges(t) \cup EditEdges(t)) \cup RawEdges(t)
    BY <1>1, <1>6, ImplicitSet
  <2>2. CASE e \in PressEdges(t)
    <3>1. PICK b \in ToSet(t.buttons) : t.kind \in ButtonKinds /\ b.next # None /\ e = PressEdge(t, b)
      BY <2>2 DEF PressEdges
    <3>2. t = s
      BY <1>2, <3>1, EdgeFields
    <3> QED
      BY <3>1, <3>2 DEF PressedEdge
  <2>3. CASE e \in EditEdges(t)
    <3>1. t.kind \in TargetKinds /\ t.target # None /\ e = EditEdge(t)
      BY <2>3 DEF EditEdges
    <3>2. t = s
      BY <1>2, <3>1, EdgeFields
    <3> QED
      BY <3>1, <3>2 DEF EditingEdge
  <2>4. CASE e \in RawEdges(t)
    <3>1. t.kind = "raw_node" /\ e \in ToSet(t.routes)
      BY <2>4 DEF RawEdges
    <3>2. e.source = t.id /\ e.targetHandle # Selected
      BY <1>1, <3>1 DEF Faithful, Ordinary
    <3>3. s.kind = "raw_node"
      BY <1>2, <3>1, <3>2
    <3> QED
      BY <3>2, <3>3 DEF PlainEdge, IsPress, ButtonKinds, OutputKinds
  <2> QED
    BY <2>1, <2>2, <2>3, <2>4
<1> QED
  BY <1>4, <1>5, <1>6

\* What is written to the file has the form.
LEMMA FileIsWritten ==
    ASSUME NEW d, IsDocument(d), OrdinaryDocument(d), IdsOf(Steps(d)) \subseteq Ids,
           Accepted(d), Faithful(d)
    PROVE  Written(Compile(d))
<1> DEFINE flow == Compile(d)
           steps == ToSet(Steps(d))
<1>1. DistinctIds(Steps(d)) /\ IsList(Steps(d)) /\ \A s \in steps : IsStep(s)
  BY StepsAreAList, Checked, IdsAreCounted
<1>2. IsFlow(flow)
  BY <1>1, CompiledForm
<1>3. /\ ToSet(flow.nodes) = {CompileStep(s) : s \in steps} /\ IsList(flow.nodes)
      /\ IdsOf(flow.nodes) = IdsOf(Steps(d)) /\ Len(flow.nodes) = Len(Steps(d))
  BY CompiledNodes
<1>4. DistinctIds(flow.nodes)
  <2>1. Cardinality(IdsOf(Steps(d))) = Len(Steps(d))
    BY Checked
  <2> HIDE DEF flow
  <2> QED
    BY <1>3, <2>1, IdsAreCounted
<1>5. \A e \in ToSet(flow.edges) : e.source \in IdsOf(flow.nodes)
  BY Checked
<1>6. \A n \in ToSet(flow.nodes) : Unmerged(flow, n)
  BY DEF Faithful, Unmerged
<1>7. \A s \in steps, e \in ToSet(flow.edges) :
         e.source = s.id => PlainEdge(s, e) \/ PressedEdge(s, e) \/ EditingEdge(s, e)
  BY <1>1, EdgesOfCompiled
<1>8. \A s \in steps : \A b, c \in ToSet(s.buttons) : b.text = c.text => b.next = c.next
  BY DEF Faithful, ToSet
<1>9. \A s \in steps : /\ CompileStep(s).id = s.id /\ CompileStep(s).type = s.kind
                       /\ WrittenNode(CompileStep(s))
                       /\ s.kind \in ButtonKinds => \A b \in ToSet(s.buttons) : b.text \in ToSet(CompileStep(s).texts)
  <2> SUFFICES ASSUME NEW s \in steps
               PROVE  /\ CompileStep(s).id = s.id /\ CompileStep(s).type = s.kind
                      /\ WrittenNode(CompileStep(s))
                      /\ s.kind \in ButtonKinds =>
                            \A b \in ToSet(s.buttons) : b.text \in ToSet(CompileStep(s).texts)
    OBVIOUS
  <2> DEFINE list == [i \in DOMAIN s.buttons |-> s.buttons[i].text]
             texts == IF s.kind \in ButtonKinds THEN list ELSE << >>
  <2>1. CompileStep(s) = NodeOf(s.id, s.kind, s.value, s.branches, texts)
    BY DEF CompileStep, NodeOf
  <2>2. \A b \in ToSet(s.buttons) : b.text \in ToSet(list)
    BY DEF ToSet
  <2>3. s.kind \in ButtonKinds => texts = list
    OBVIOUS
  <2>4. s.kind \notin ButtonKinds => texts = << >>
    OBVIOUS
  <2> HIDE DEF texts, list
  <2> QED
    BY <2>1, <2>2, <2>3, <2>4 DEF NodeOf, WrittenNode
<1> HIDE DEF flow
<1>10. ASSUME NEW s \in steps, NEW e \in ToSet(flow.edges), e.source = s.id
       PROVE  WrittenEdge(flow, CompileStep(s), e)
  <2> DEFINE n == CompileStep(s)
  <2>1. n.id = s.id /\ n.type = s.kind
    BY <1>9
  <2>2. \A f \in ToSet(flow.edges) : f.source = s.id =>
           PlainEdge(s, f) \/ PressedEdge(s, f) \/ EditingEdge(s, f)
    BY <1>7
  <2>3. \A f : PressedEdge(s, f) =>
           /\ s.kind \in ButtonKinds /\ f.targetHandle = NoHandle /\ f.target # None
           /\ \E b \in ToSet(s.buttons) : f.handle = ButtonOf(b.text) /\ f.target = b.next
    <3> SUFFICES ASSUME NEW f, PressedEdge(s, f)
                 PROVE  /\ s.kind \in ButtonKinds /\ f.targetHandle = NoHandle /\ f.target # None
                        /\ \E b \in ToSet(s.buttons) : f.handle = ButtonOf(b.text) /\ f.target = b.next
      OBVIOUS
    <3>1. PICK b \in ToSet(s.buttons) : s.kind \in ButtonKinds /\ b.next # None /\ f = PressEdge(s, b)
      BY DEF PressedEdge
    <3>2. f.handle = ButtonOf(b.text) /\ f.target = b.next /\ f.targetHandle = NoHandle
      BY <3>1 DEF PressEdge, Route
    <3> QED
      BY <3>1, <3>2
  <2>4. \A f : EditingEdge(s, f) =>
           /\ s.kind \in TargetKinds /\ f.handle = NoHandle /\ f.target # None /\ f.target = s.target
    BY EdgeFields DEF EditingEdge
  <2>5. \A f : PlainEdge(s, f) =>
           /\ f.targetHandle # Selected /\ ~ IsPress(s.kind, f)
           /\ s.kind \in OutputKinds => f.handle.form # "plain"
    BY DEF PlainEdge
  <2>6. NoHandle # Selected /\ NoHandle.form # "button" /\ (\A t : ButtonOf(t).form = "button")
        /\ \A t, u : ButtonOf(t) = ButtonOf(u) => t = u
    BY EdgeFields
  <2>7. \A f : IsEdit(s.kind, f) => f.targetHandle = Selected
    BY DEF IsEdit
  <2>8. \A f : IsPress(s.kind, f) <=> s.kind \in ButtonKinds /\ f.handle.form = "button"
    BY DEF IsPress, IsButtonEdge
  <2> HIDE DEF n
  <2>9. s.kind \in OutputKinds => e.handle.form # "plain"
    <3>1. s.kind \in OutputKinds => s.kind \notin ButtonKinds /\ s.kind \notin TargetKinds
      BY DEF OutputKinds, ButtonKinds, TargetKinds
    <3> QED
      BY <1>10, <2>2, <2>3, <2>4, <2>5, <3>1
  <2>10. ASSUME IsEdit(s.kind, e)
         PROVE  /\ e.handle = NoHandle /\ e.target # None
                /\ \A f \in ToSet(flow.edges) :
                      f.source = s.id /\ f.targetHandle = Selected => f.target = e.target
    <3>1. \A f \in ToSet(flow.edges) : f.source = s.id /\ f.targetHandle = Selected => EditingEdge(s, f)
      BY <2>2, <2>3, <2>5, <2>6
    <3>2. EditingEdge(s, e)
      BY <1>10, <2>7, <2>10, <3>1
    <3> QED
      BY <2>4, <3>1, <3>2
  <2>11. ASSUME IsPress(s.kind, e)
         PROVE  /\ e.targetHandle = NoHandle /\ e.target # None
                /\ \E b \in ToSet(s.buttons) : e.handle = ButtonOf(b.text)
                /\ \A f \in ToSet(flow.edges) :
                      f.source = s.id /\ f.handle = e.handle => f.target = e.target
    <3>1. \A f \in ToSet(flow.edges) : f.source = s.id /\ IsPress(s.kind, f) => PressedEdge(s, f)
      BY <2>2, <2>4, <2>5, <2>6, <2>8
    <3>2. PICK b \in ToSet(s.buttons) : e.handle = ButtonOf(b.text) /\ e.target = b.next
      BY <1>10, <2>3, <2>11, <3>1
    <3>3. ASSUME NEW f \in ToSet(flow.edges), f.source = s.id, f.handle = e.handle
          PROVE  f.target = e.target
      <4>1. PressedEdge(s, f)
        BY <2>8, <2>11, <3>1, <3>3
      <4>2. PICK c \in ToSet(s.buttons) : f.handle = ButtonOf(c.text) /\ f.target = c.next
        BY <2>3, <4>1
      <4>3. c.text = b.text
        BY <2>6, <3>2, <3>3, <4>2
      <4> QED
        BY <1>8, <3>2, <4>2, <4>3
    <3>4. e.targetHandle = NoHandle /\ e.target # None
      BY <1>10, <2>3, <2>11, <3>1
    <3> QED
      BY <3>2, <3>3, <3>4
  <2>12. s.kind \in ButtonKinds => \A b \in ToSet(s.buttons) : b.text \in ToSet(n.texts)
    BY <1>9 DEF n
  <2>13. IsPress(s.kind, e) => \E t \in ToSet(n.texts) : e.handle = ButtonOf(t)
    BY <2>8, <2>11, <2>12
  <2>14. WrittenEdge(flow, n, e)
    BY <2>1, <2>9, <2>10, <2>11, <2>13 DEF WrittenEdge
  <2> QED
    BY <2>14 DEF n
<1>11. \A n \in ToSet(flow.nodes), e \in ToSet(flow.edges) : e.source = n.id => WrittenEdge(flow, n, e)
  BY <1>3, <1>9, <1>10
<1>12. \A n \in ToSet(flow.nodes) : WrittenNode(n)
  BY <1>3, <1>9
<1>13. Written(flow)
  BY <1>2, <1>4, <1>5, <1>6, <1>11, <1>12 DEF Written
<1> QED
  BY <1>13 DEF flow

\* A file the tools wrote is read as a document that compiles to the same file
\* (compiler.py, importer.py): the editing goes on where the last session left it.
THEOREM RoundTripKeepsTheFlow == Spec => []RoundTripKeepsFlow
<1>1. DocumentInvariant => RoundTripKeepsFlow
  <2> SUFFICES ASSUME DocumentInvariant, Accepted(doc), Faithful(doc)
               PROVE  SameFlow(Compile(Import(Compile(doc))), Compile(doc))
    BY DEF RoundTripKeepsFlow
  <2>1. IsDocument(doc) /\ OrdinaryDocument(doc)
    BY FormIsOrdinary
  <2>2. IdsOf(Steps(doc)) \subseteq Ids
    BY <2>1, StepsAreAList DEF DocumentInvariant, WellFormed, StepsOfPool, IdsOf
  <2> QED
    BY <2>1, <2>2, FileIsWritten, ReadBackIsSame
<1> QED
  BY <1>1, DocumentsKeepTheirForm, PTL
-----------------------------------------------------------------------------
(***************************************************************************)
(* The validator accepts what was read.                                    *)
(***************************************************************************)
\* A document in which no check of the validator fails.
Correct(d) ==
    /\ Cardinality(IdsOf(Steps(d))) = Len(Steps(d))
    /\ \A s \in ToSet(Steps(d)) : s.kind \in NativeKinds \cup {"raw_node"}
    /\ \A r \in ToSet(d.routes) : r.source \in IdsOf(Steps(d)) /\ r.target \in IdsOf(Steps(d))
    /\ \A s \in ToSet(Steps(d)) : s.target \in IdsOf(Steps(d)) \cup {None}
    /\ \A s \in ToSet(Steps(d)) : \A b \in ToSet(s.buttons) : b.next \in IdsOf(Steps(d)) \cup {None}
    /\ \A s \in ToSet(Steps(d)) : ~ s.global
    /\ d.triggers # << >>
    /\ Unreachable(d) = {}

\* validate_document finds nothing in it.
LEMMA CorrectHasNoErrors ==
    ASSUME NEW d, IsDocument(d), Correct(d)
    PROVE  DocumentErrors(d) = {}
<1> DEFINE ids == IdsOf(Steps(d))
<1>1. ~ (Cardinality(IdsOf(Steps(d))) # Len(Steps(d)))
  BY DEF Correct
<1>2. ~ (\E s \in ToSet(Steps(d)) : s.kind \notin NativeKinds \cup {"raw_node"})
  BY DEF Correct
<1>3. /\ ~ (\E r \in ToSet(d.routes) : r.source \notin ids)
      /\ ~ (\E r \in ToSet(d.routes) : r.target \notin ids)
  BY DEF Correct
<1>4. ~ (\E s \in ToSet(Steps(d)) : s.kind \in TargetKinds /\ s.target \notin ids \cup {None})
  BY DEF Correct
<1>5. ~ (\E s \in ToSet(Steps(d)) : /\ s.kind \in ButtonKinds
                                    /\ \E b \in ToSet(s.buttons) : b.next \notin ids \cup {None})
  BY DEF Correct
<1>6. ~ Misuses(d)
  <2>1. \A t \in ToSet(d.triggers) : ~ t.global
    BY StepsAreAList DEF Correct
  <2> QED
    BY <2>1 DEF Misuses
<1>7. ~ (d.triggers = << >>) /\ ~ (d.triggers # << >> /\ Unreachable(d) # {})
  BY DEF Correct
<1> QED
  BY <1>1, <1>2, <1>3, <1>4, <1>5, <1>6, <1>7, Zenon DEF DocumentErrors

\* Ids are counted again, every name is that of a node, and triggers and links are
\* those of the document that was written.
LEMMA ReadBackIsAccepted ==
    ASSUME NEW d, IsDocument(d), OrdinaryDocument(d), IdsOf(Steps(d)) \subseteq Ids,
           Accepted(d), Faithful(d), TriggersInPlace(d),
           \A s \in ToSet(d.triggers), e \in ToSet(Compile(d).edges) : e.target # s.id
    PROVE  Accepted(Import(Compile(d)))
<1> DEFINE flow == Compile(d)
           D == Import(flow)
           nodes == ToSet(flow.nodes)
           step(x) == Alone(flow, x).step
           ids == IdsOf(flow.nodes)
<1>1. Written(flow)
  BY FileIsWritten
<1>2. SameFlow(Compile(D), flow)
  BY <1>1, ReadBackIsSame
<1>3. ProperDocument(D) /\ ReadFrom(flow, nodes, D) /\ Len(Steps(D)) = Len(flow.nodes)
  BY <1>1, ImportedDocument
<1>4. \A x \in nodes : ReadBack(flow, x, Alone(flow, x))
  BY <1>1, NodeReadBack DEF Alone
<1>5. \A e \in ToSet(flow.edges) : e.source \in ids /\ e.target \in ids
  BY Checked
<1>6. nodes = {CompileStep(s) : s \in ToSet(Steps(d))} /\ ids = IdsOf(Steps(d))
      /\ ToSet(Steps(d)) = ToSet(d.triggers) \cup ToSet(d.steps)
      /\ \A s : CompileStep(s).id = s.id /\ CompileStep(s).type = s.kind
  BY CompiledNodes, StepsAreAList DEF CompileStep
<1>7. /\ \A s \in ToSet(Steps(d)) : s.kind \in NativeKinds \cup {"raw_node"}
      /\ d.triggers # << >>
      /\ IdsOf(d.steps) \subseteq Reachable(IdsOf(d.triggers), Links(d))
  <2>1. DocumentErrors(d) = {} /\ Compilable(d)
    BY DEF Accepted, Errors
  <2>2. d.triggers # << >>
    BY <2>1 DEF DocumentErrors
  <2> QED
    BY <2>1, <2>2, Checked DEF Compilable, Unreachable
<1>8. \A s \in ToSet(d.triggers), e \in ToSet(flow.edges) : e.target # s.id
  OBVIOUS
<1>9. FlowLinks(flow) = Links(d)
  BY CompiledLinks
<1> HIDE DEF flow, D
<1>10. IsDocument(D) /\ OrdinaryDocument(D)
  BY <1>3 DEF ProperDocument
<1>11. ToSet(Steps(D)) = {step(x) : x \in nodes}
  BY <1>3, <1>10, StepsAreAList DEF ReadFrom
<1>12. IdsOf(Steps(D)) = ids
  BY <1>4, <1>11 DEF IdsOf, ReadBack
<1>13. \A s \in ToSet(d.triggers) : \E x \in nodes : x.id = s.id /\ IsRoot(flow, x)
  <2> SUFFICES ASSUME NEW s \in ToSet(d.triggers)
               PROVE  \E x \in nodes : x.id = s.id /\ IsRoot(flow, x)
    OBVIOUS
  <2>1. CompileStep(s) \in nodes /\ CompileStep(s).id = s.id /\ CompileStep(s).type \in TriggerKinds
    BY <1>6 DEF TriggersInPlace
  <2> QED
    BY <1>8, <2>1 DEF IsRoot, HasIncoming
<1>14. IdsOf(d.triggers) \subseteq IdsOf(D.triggers)
  <2>1. \A x \in nodes : IsRoot(flow, x) => step(x) \in ToSet(D.triggers) /\ step(x).id = x.id
    BY <1>3, <1>4 DEF ReadFrom, ReadBack
  <2> QED
    BY <1>13, <2>1 DEF IdsOf
<1>15. IdsOf(D.steps) \subseteq IdsOf(d.steps)
  <2> SUFFICES ASSUME NEW t \in ToSet(D.steps) PROVE t.id \in IdsOf(d.steps)
    BY DEF IdsOf
  <2>1. PICK x \in nodes : ~ IsRoot(flow, x) /\ t = step(x)
    BY <1>3 DEF ReadFrom
  <2>2. PICK s \in ToSet(Steps(d)) : x = CompileStep(s)
    BY <1>6
  <2>3. t.id = s.id /\ x.id = s.id
    BY <1>4, <1>6, <2>1, <2>2 DEF ReadBack
  <2>4. s \notin ToSet(d.triggers)
    <3> SUFFICES ASSUME s \in ToSet(d.triggers) PROVE FALSE
      OBVIOUS
    <3>1. x.type \in TriggerKinds
      BY <1>6, <2>2 DEF TriggersInPlace
    <3>2. ~ HasIncoming(flow, x.id)
      BY <1>8, <2>3 DEF HasIncoming
    <3> QED
      BY <2>1, <3>1, <3>2 DEF IsRoot
  <2> QED
    BY <1>6, <2>3, <2>4 DEF IdsOf
<1>16. D.triggers # << >>
  <2>1. PICK s : s \in ToSet(d.triggers)
    <3>1. IsList(d.triggers)
      BY DEF IsDocument
    <3> QED
      BY <1>7, <3>1, LastOfList
  <2>2. s.id \in IdsOf(D.triggers)
    BY <1>14, <2>1 DEF IdsOf
  <2> QED
    BY <2>2, EmptyList DEF IdsOf
<1>17. Links(D) = Links(d)
  <2>1. FlowLinks(Compile(D)) = Links(D)
    BY <1>10, CompiledLinks
  <2>2. FlowLinks(Compile(D)) = FlowLinks(flow)
    BY <1>2, LinksOfFlow DEF SameFlow
  <2> QED
    BY <1>9, <2>1, <2>2
<1>18. Unreachable(D) = {}
  <2> DEFINE few == IdsOf(d.triggers)
             more == IdsOf(D.triggers)
             links == Links(d)
  <2>1. Reachable(few, links) \subseteq Reachable(more, links)
    <3>1. few \subseteq more
      BY <1>14
    <3> HIDE DEF few, more, links
    <3> QED
      BY <3>1, ReachableGrows
  <2> QED
    BY <1>7, <1>15, <1>17, <2>1 DEF Unreachable
<1>19. \A x \in nodes :
          /\ step(x).kind = x.type /\ ~ step(x).global
          /\ step(x).target \in ids \cup {None}
          /\ \A b \in ToSet(step(x).buttons) : b.next \in ids \cup {None}
          /\ \A r \in ToSet(Alone(flow, x).routes) : r.source \in ids /\ r.target \in ids
  <2> SUFFICES ASSUME NEW x \in nodes
               PROVE  /\ step(x).kind = x.type /\ ~ step(x).global
                      /\ step(x).target \in ids \cup {None}
                      /\ \A b \in ToSet(step(x).buttons) : b.next \in ids \cup {None}
                      /\ \A r \in ToSet(Alone(flow, x).routes) : r.source \in ids /\ r.target \in ids
    OBVIOUS
  <2>1. \A e \in EdgesFrom(flow, x.id) : e.target \in ids
    BY <1>5 DEF EdgesFrom
  <2>2. x.id \in ids
    BY DEF IdsOf
  <2>3. ReadBack(flow, x, Alone(flow, x))
    BY <1>4
  <2> HIDE DEF ids
  <2> QED
    BY <2>1, <2>2, <2>3 DEF ReadBack
<1>20. Cardinality(IdsOf(Steps(D))) = Len(Steps(D))
  <2>1. Cardinality(ids) = Len(flow.nodes)
    BY <1>1, IdsAreCounted DEF Written, IsFlow
  <2> QED
    BY <1>3, <1>12, <2>1
<1>21. \A x \in nodes : x.type \in NativeKinds \cup {"raw_node"}
  BY <1>6, <1>7
<1>22. \A r \in ToSet(D.routes) : r.source \in ids /\ r.target \in ids
  BY <1>3, <1>19 DEF ReadFrom
<1>23. CompiledErrors(Compile(D)) = {}
  <2> DEFINE F == Compile(D)
  <2>1. ToSet(F.nodes) = nodes /\ ToSet(F.edges) = ToSet(flow.edges)
    BY <1>2 DEF SameFlow
  <2>2. IdsOf(F.nodes) = ids
    BY <2>1 DEF IdsOf
  <2>3. F.nodes # << >>
    <3>1. nodes # {}
      <4>1. PICK s : s \in ToSet(d.triggers)
        <5>1. IsList(d.triggers)
          BY DEF IsDocument
        <5> QED
          BY <1>7, <5>1, LastOfList
      <4> QED
        BY <1>6, <4>1
    <3> HIDE DEF F, nodes
    <3> QED
      BY <2>1, <3>1, EmptyList
  <2> HIDE DEF F, ids
  <2>4. CompiledErrors(F) = {}
    BY <1>5, <2>1, <2>2, <2>3 DEF CompiledErrors
  <2> QED
    BY <2>4 DEF F
<1> HIDE DEF ids, nodes, step
<1>24. Correct(D)
  BY <1>11, <1>12, <1>16, <1>18, <1>19, <1>20, <1>21, <1>22 DEF Correct
<1>25. DocumentErrors(D) = {}
  BY <1>10, <1>24, CorrectHasNoErrors
<1>26. Compilable(D)
  BY <1>24 DEF Correct, Compilable
<1>27. Accepted(D)
  BY <1>23, <1>25, <1>26 DEF Accepted, Errors
<1> QED
  BY <1>27 DEF D, flow

\* The validator accepts a flow again that it accepted before the session ended, if
\* no trigger is led to (validator.py, importer.py): each step is read in the list
\* it was in, and every link is found again.
THEOREM WrittenFlowsStayAccepted == Spec => []WrittenFlowStaysAccepted
<1>1. DocumentInvariant => WrittenFlowStaysAccepted
  <2> SUFFICES ASSUME DocumentInvariant, Accepted(doc), Faithful(doc), TriggersInPlace(doc),
                      \A s \in ToSet(doc.triggers), e \in ToSet(Compile(doc).edges) : e.target # s.id
               PROVE  Accepted(Import(Compile(doc)))
    BY DEF WrittenFlowStaysAccepted
  <2>1. IsDocument(doc) /\ OrdinaryDocument(doc)
    BY FormIsOrdinary
  <2>2. IdsOf(Steps(doc)) \subseteq Ids
    BY <2>1, StepsAreAList DEF DocumentInvariant, WellFormed, StepsOfPool, IdsOf
  <2> QED
    BY <2>1, <2>2, ReadBackIsAccepted
<1> QED
  BY <1>1, DocumentsKeepTheirForm, PTL
=============================================================================
