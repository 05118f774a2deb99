----------------------------- MODULE FlowEdits ------------------------------
(***************************************************************************)
(* A document under the edits of dsl/parser.py, in any order, and what the *)
(* validator and the compiler make of it after each.                       *)
(***************************************************************************)
EXTENDS FlowCompiler

CONSTANTS
    StepPool,       \* the steps that may be put into the document
    RoutePool,      \* the routes that may be added
    MaxRoutes       \* bound: top-level routes of a document

ASSUME EditsAssumption ==
    /\ MaxRoutes \in Nat
    /\ \A s \in StepPool : /\ IsStep(s) /\ Ordinary(s.routes)
                          /\ s.id \in Ids /\ s.target \in Ids \cup {None}
    /\ \A r \in RoutePool : IsRoute(r) /\ r.targetHandle # Selected

VARIABLE doc

Init == doc = EmptyDocument

Replace(step, asTrigger) == doc' = ReplaceStep(doc, step, asTrigger)

Drop(id) ==
    /\ FindStep(doc, id) # None
    /\ doc' = RemoveStep(doc, id)

Connect(route) ==
    /\ Len(doc.routes) < MaxRoutes
    /\ doc' = UpsertRoute(doc, route)

Next ==
    \/ \E step \in StepPool, asTrigger \in {"yes", "no", "kind"} : Replace(step, asTrigger)
    \/ \E id \in Ids : Drop(id)
    \/ \E route \in RoutePool : Connect(route)

Spec == Init /\ [][Next]_doc

-----------------------------------------------------------------------------
StepsOfPool(list) == \A s \in ToSet(list) : s.id \in Ids /\ s.target \in Ids \cup {None}

TypeOK ==
    /\ StepsOfPool(doc.triggers) /\ StepsOfPool(doc.steps)
    /\ ToSet(doc.routes) \subseteq RoutePool
    /\ Len(doc.routes) <= MaxRoutes
    /\ Cardinality(IdsOf(Steps(doc))) = Len(Steps(doc))

(***************************************************************************)
(* The inductive invariant: a document keeps its form, and an id is used   *)
(* once, in one of the two lists.                                          *)
(***************************************************************************)
WellFormed(d) ==
    /\ IsDocument(d)
    /\ StepsOfPool(d.triggers) /\ StepsOfPool(d.steps)
    /\ ToSet(d.routes) \subseteq RoutePool /\ Len(d.routes) <= MaxRoutes
    /\ \A s \in ToSet(Steps(d)) : Ordinary(s.routes)
    /\ DistinctIds(d.triggers) /\ DistinctIds(d.steps)
    /\ IdsOf(d.triggers) \cap IdsOf(d.steps) = {}

DocumentInvariant == WellFormed(doc)

\* The validator and the compiler find the links of a document separately
\* (build_dsl_adjacency in validator.py, compile_route and
\* compile_implicit_edges in compiler.py).  They find the same ones, so the
\* verdict on reachability is about the flow that is written.
ValidatorSeesTheCompiledFlow == Links(doc) = FlowLinks(Compile(doc))

\* What the validator says of a document holds of the file it compiles to: ids are
\* unique, edges lead from node to node, and a trigger leads to every action, if
\* what is stored as a trigger is one (validator.py, compiler.py).
AcceptedIsSound ==
    Accepted(doc) /\ (\A t \in ToSet(doc.triggers) : t.kind \in TriggerKinds)
        => SoundFlow(Compile(doc))

RoutesOf(d) == ToSet(d.routes) \cup UNION {ToSet(s.routes) : s \in ToSet(Steps(d))}

\* The steps and routes whose form the file can keep: the buttons of a step
\* with one text have one target, no other route of a menu passes for a button,
\* the routes of a runtime node are its own, and no old-style condition leads to
\* an else.
Faithful(d) ==
    /\ \A s \in ToSet(Steps(d)) :
          /\ \A i, j \in DOMAIN s.buttons :
                s.buttons[i].text = s.buttons[j].text => s.buttons[i].next = s.buttons[j].next
          /\ s.kind \in ButtonKinds => \A r \in RoutesOf(d) : r.source = s.id => ~ IsButtonEdge(r)
          /\ s.kind = "raw_node" => \A r \in ToSet(s.routes) : r.source = s.id
    /\ \A n \in ToSet(Compile(d).nodes) :
          n.type = "if_condition" => n.branches \/ ElseOf(Compile(d), n) = None

\* An accepted document survives a new session: written by save_document_to_target
\* and imported by load_flow_document_from_target it compiles to the same file.
RoundTripKeepsFlow ==
    Accepted(doc) /\ Faithful(doc) => SameFlow(Compile(Import(Compile(doc))), Compile(doc))

\* Triggers are stored as triggers, and nothing else is.
TriggersInPlace(d) ==
    /\ \A s \in ToSet(d.triggers) : s.kind \in TriggerKinds
    /\ \A s \in ToSet(d.steps) : s.kind \notin TriggerKinds

\* A trigger with an incoming edge, be it that of a step which edits its message, is
\* imported as a step (importer.py, line 41).  If no trigger has one and triggers are
\* stored as such, the imported document is accepted as the written one was: the
\* flow stays editable in the next session.
WrittenFlowStaysAccepted ==
    /\ Accepted(doc) /\ Faithful(doc)
    /\ TriggersInPlace(doc)
    /\ \A s \in ToSet(doc.triggers), e \in ToSet(Compile(doc).edges) : e.target # s.id
    => Accepted(Import(Compile(doc)))

\* "Trigger kinds must live in flow.triggers" (tools/dsl_tools.py:325).  Written
\* and imported again, a document that keeps to it still does.
ImportedTriggersStayTriggers ==
    Accepted(doc) /\ TriggersInPlace(doc) => TriggersInPlace(Import(Compile(doc)))

\* References to steps that do not exist.
Dangling(d) ==
    LET steps  == ToSet(Steps(d))
        routes == ToSet(d.routes) \cup UNION {ToSet(s.routes) : s \in steps}
        named  == (UNION {{r.source, r.target} : r \in routes})
                  \cup UNION {{s.target} \cup {b.next : b \in ToSet(s.buttons)} : s \in steps}
    IN  named \ (IdsOf(Steps(d)) \cup {None})

\* Removing a step takes every reference to it along (parser.py, remove_step):
\* routes at the top and in steps, buttons, the edited message.  No removal
\* leaves a link to nowhere behind.
RemovalLeavesNoReference ==
    [][IdsOf(Steps(doc')) \subseteq IdsOf(Steps(doc)) /\ IdsOf(Steps(doc')) # IdsOf(Steps(doc))
        => Dangling(doc') \subseteq Dangling(doc)]_doc
=============================================================================
