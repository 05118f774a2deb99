---------------------------- MODULE FlowCompiler ----------------------------
(***************************************************************************)
(* Compiling a document to the flow file (dsl/compiler.py) and reading the *)
(* file back (dsl/importer.py).                                            *)
(*                                                                         *)
(* A node of the file carries what its step carries except for the links,  *)
(* which become edges; the type of a node stands for the kind it is        *)
(* imported as.  Positions are left out.                                   *)
(***************************************************************************)
EXTENDS FlowDocument

EmptyFlow == [nodes |-> << >>, edges |-> << >>]

Compilable(doc) == \A s \in ToSet(Steps(doc)) : s.kind \in NativeKinds \cup {"raw_node"}

\* The catalog has no field for the global flag of a callback trigger: it is
\* not written.  Neither is the keyboard of a kind that has none.
CompileStep(step) ==
    [id |-> step.id, type |-> step.kind, value |-> step.value, branches |-> step.branches,
     texts |-> IF step.kind \in ButtonKinds
               THEN [i \in DOMAIN step.buttons |-> step.buttons[i].text] ELSE << >>]

\* The handle of a route, as written for a step of the given kind and as read.
Prefixed(kind, handle) ==
    IF kind \in OutputKinds /\ handle.form = "plain" THEN Output(handle.name) ELSE handle
Unprefixed(kind, handle) ==
    IF kind \in OutputKinds /\ handle.form = "output" THEN Plain(handle.name) ELSE handle

\* step_index: of two steps with one id the last one counts.
KindOf(doc, id) ==
    LET i == SelectLastInSeq(Steps(doc), LAMBDA s : s.id = id)
    IN  IF i = 0 THEN None ELSE Steps(doc)[i].kind

CompileRoute(doc, route) == [route EXCEPT !.handle = Prefixed(KindOf(doc, route.source), @)]

ImplicitEdges(step) ==
    LET pressed == Only(step.buttons, {b \in ToSet(step.buttons) : b.next # None})
        buttons == [i \in DOMAIN pressed |->
                       Route(step.id, pressed[i].next, ButtonOf(pressed[i].text))]
        edited  == [Route(step.id, step.target, NoHandle) EXCEPT !.targetHandle = Selected]
    IN  (IF step.kind \in ButtonKinds THEN buttons ELSE << >>)
        \o (IF step.kind \in TargetKinds /\ step.target # None THEN <<edited>> ELSE << >>)
        \o (IF step.kind = "raw_node" THEN step.routes ELSE << >>)

Dedupe(edges) ==
    FoldLeft(LAMBDA kept, e : IF Contains(kept, e) THEN kept ELSE Append(kept, e), << >>, edges)

Compile(doc) ==
    LET steps == Steps(doc)
        routes == doc.routes \o FlattenSeq([i \in DOMAIN steps |-> steps[i].routes])
    IN  [nodes |-> [i \in DOMAIN steps |-> CompileStep(steps[i])],
         edges |-> Dedupe([i \in DOMAIN routes |-> CompileRoute(doc, routes[i])]
                          \o FlattenSeq([i \in DOMAIN steps |-> ImplicitEdges(steps[i])]))]

\* validate_compiled_flow
CompiledErrors(flow) ==
    LET ids == IdsOf(flow.nodes)
    IN  {name \in {"no nodes", "edge source missing", "edge target missing"} :
            \/ name = "no nodes" /\ flow.nodes = << >>
            \/ name = "edge source missing" /\ \E e \in ToSet(flow.edges) : e.source \notin ids
            \/ name = "edge target missing" /\ \E e \in ToSet(flow.edges) : e.target \notin ids}

Errors(doc) == DocumentErrors(doc) \cup CompiledErrors(Compile(doc))

\* What save_document_to_target writes to the file.
Accepted(doc) == Compilable(doc) /\ Errors(doc) = {}

-----------------------------------------------------------------------------
(***************************************************************************)
(* Importing.  The ids of the nodes of a file are distinct, as in any file *)
(* the tools write.                                                        *)
(***************************************************************************)
From(flow, id) == Only(flow.edges, {e \in ToSet(flow.edges) : e.source = id})

\* Faulty: outgoing edges are counted.
HasOutgoing(flow, id) == \E e \in ToSet(flow.edges) : e.source = id
HasIncoming(flow, id) == \E e \in ToSet(flow.edges) : e.target = id

IsButtonEdge(e) == e.handle.form = "button"

\* Faulty: only the first edge is looked at.
HydrateFirst(texts, edges) ==
    [i \in DOMAIN texts |->
        [text |-> texts[i],
         next |-> IF edges # << >> /\ edges[1].handle = ButtonOf(texts[i])
                  THEN edges[1].target ELSE None]]

\* Buttons with one text get one target, that of the last edge.
HydrateButtons(texts, edges) ==
    [i \in DOMAIN texts |->
        LET j == SelectLastInSeq(edges, LAMBDA e : e.handle = ButtonOf(texts[i]))
        IN  [text |-> texts[i], next |-> IF j = 0 THEN None ELSE edges[j].target]]

ImportNode(node, edges) ==
    LET kind     == node.type
        edited   == Only(edges, {e \in ToSet(edges) : kind \in TargetKinds /\ e.targetHandle = Selected})
        others   == Only(edges, ToSet(edges) \ ToSet(edited))
        regular  == Only(others, {e \in ToSet(others) : ~ (kind \in ButtonKinds /\ IsButtonEdge(e))})
        routes   == [i \in DOMAIN regular |->
                       [regular[i] EXCEPT !.handle = Unprefixed(kind, @)]]
        step     == [Bare(node.id, kind) EXCEPT
                       !.value = node.value, !.branches = node.branches,
                       !.buttons = HydrateButtons(node.texts, others),
                       !.target = IF edited = << >> THEN None ELSE Last(edited).target]
    IN  IF kind = "raw_node"
        THEN [step |-> [Bare(node.id, kind) EXCEPT
                           !.value = node.value, !.branches = node.branches, !.routes = edges],
              routes |-> << >>]
        ELSE [step |-> step, routes |-> routes]

\* try_merge_if_chain: an old-style condition, whose "next" edge leads to an
\* "else" node, becomes one step with branches.  The chains of the model have no
\* "else_if" nodes in between.
ElseOf(flow, node) ==
    LET next == Only(From(flow, node.id), {e \in ToSet(flow.edges) : e.handle = Plain("next")})
        i    == SelectInSeq(flow.nodes, LAMBDA n : n.id = next[1].target)
    IN  IF Len(next) = 1 /\ i # 0 /\ flow.nodes[i].type = "else" THEN flow.nodes[i].id ELSE None

FirstBy(edges, handles) == SelectInSeq(edges, LAMBDA e : e.handle \in handles)

MergeChain(flow, node, other) ==
    LET branch(id, handles, name) ==
            LET edges == From(flow, id)
                i == FirstBy(edges, handles)
            IN  IF i = 0 THEN << >> ELSE <<Route(node.id, edges[i].target, Plain(name))>>
    IN  [step   |-> [Bare(node.id, "if_condition") EXCEPT !.branches = TRUE],
         routes |-> branch(node.id, {Plain("true")}, "branch_0")
                    \o branch(other, {NoHandle, Plain("true")}, "branch_1")]

Place(doc, read, isTrigger) ==
    [triggers |-> IF isTrigger THEN Append(doc.triggers, read.step) ELSE doc.triggers,
     steps    |-> IF isTrigger THEN doc.steps ELSE Append(doc.steps, read.step),
     routes   |-> doc.routes \o read.routes]

\* One turn of the loop over the nodes.
ImportNext(flow, seen, node) ==
    LET other == ElseOf(flow, node)
        rootless == ~ HasIncoming(flow, node.id)
    IN  IF node.id \in seen.visited THEN seen
        ELSE IF node.type = "if_condition" /\ ~ node.branches /\ other # None
        THEN [doc |-> Place(seen.doc, MergeChain(flow, node, other), rootless),
              visited |-> seen.visited \cup {node.id, other}]
        ELSE [doc |-> Place(seen.doc, ImportNode(node, From(flow, node.id)),
                            node.type \in TriggerKinds /\ rootless),
              visited |-> seen.visited \cup {node.id}]

Import(flow) ==
    FoldLeft(LAMBDA seen, node : ImportNext(flow, seen, node),
             [doc |-> EmptyDocument, visited |-> {}], flow.nodes).doc

\* What the file says of who leads to whom; an edited message leads to its edit.
FlowLinks(flow) ==
    {IF e.targetHandle = Selected THEN <<e.target, e.source>> ELSE <<e.source, e.target>> :
        e \in ToSet(flow.edges)}

\* Ids are unique, edges lead from node to node, and every action is reached
\* from a trigger.
SoundFlow(flow) ==
    LET ids == IdsOf(flow.nodes)
        roots == {n.id : n \in {m \in ToSet(flow.nodes) : m.type \in TriggerKinds}}
    IN  /\ Cardinality(ids) = Len(flow.nodes)
        /\ \A l \in FlowLinks(flow) : l[1] \in ids /\ l[2] \in ids
        /\ ids \subseteq Reachable(roots, FlowLinks(flow))

\* The form of a flow file: only an edited message has an edge to what it edits.
IsFlow(flow) ==
    /\ IsList(flow.nodes) /\ IdsOf(flow.nodes) \subseteq Ids
    /\ \A n \in ToSet(flow.nodes) : IsList(n.texts)
    /\ IsList(flow.edges) /\ \A e \in ToSet(flow.edges) : IsRoute(e)
    /\ \A e \in ToSet(flow.edges), n \in ToSet(flow.nodes) :
          e.targetHandle = Selected /\ e.source = n.id => n.type \in TargetKinds

\* Two files that differ only in the order of their nodes and edges.
SameFlow(f, g) == ToSet(f.nodes) = ToSet(g.nodes) /\ ToSet(f.edges) = ToSet(g.edges)

=============================================================================
