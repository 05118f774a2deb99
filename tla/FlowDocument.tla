---------------------------- MODULE FlowDocument ----------------------------
(***************************************************************************)
(* The document a flow is written in (dsl/models.py), the edits of         *)
(* dsl/parser.py and the judgement of dsl/validator.py.                    *)
(*                                                                         *)
(* Of a step the model keeps what links steps to each other: buttons,      *)
(* the message an edit refers to, and routes of its own.  A kind stands    *)
(* for the kinds of the catalog with the same capabilities.                *)
(***************************************************************************)
EXTENDS Lists, Sequences, SequencesExt, FiniteSets, Integers

CONSTANTS
    Ids,            \* step ids
    None            \* an absent value

Steps(doc) == doc.triggers \o doc.steps                  \* collect_all_steps
EmptyDocument == [triggers |-> << >>, steps |-> << >>, routes |-> << >>]

\* A step with nothing but an id and a kind.
Bare(id, kind) ==
    [id |-> id, kind |-> kind, global |-> FALSE, value |-> None, buttons |-> << >>,
     target |-> None, branches |-> FALSE, routes |-> << >>]

(***************************************************************************)
(* The catalog: kinds by capability.                                       *)
(***************************************************************************)
TriggerKinds  == {"command_trigger", "callback_query_trigger"}
CallbackKinds == {"callback_query_trigger"}              \* GLOBAL_CALLBACK_TRIGGER_KINDS
ButtonKinds   == {"send_text", "edit_message"}           \* button_target_edges
TargetKinds   == {"edit_message"}                        \* selected_message_target
OutputKinds   == {"custom_code"}                         \* output_routes
NativeKinds   == TriggerKinds \cup ButtonKinds \cup OutputKinds \cup {"if_condition", "else"}

(***************************************************************************)
(* A route leaves its source by a handle and enters its target by another. *)
(* Handles are records, as the code takes some of them apart: "plain" and  *)
(* "output-<name>" come from a route, "button" is the                      *)
(* target-handler-<step>-<text> of a button, "selected" the                *)
(* selected-message-target of an edited message.                           *)
(***************************************************************************)
Handle(form, name) == [form |-> form, name |-> name]
NoHandle       == Handle("none", None)
Plain(name)    == Handle("plain", name)
Output(name)   == Handle("output", name)
ButtonOf(text) == Handle("button", text)
Selected       == Handle("selected", None)

Route(source, target, handle) ==
    [source |-> source, target |-> target, handle |-> handle, targetHandle |-> NoHandle]

(***************************************************************************)
(* The form of a document (dsl/models.py).  A route is ordinary if it does *)
(* not say of itself that it is the edit of a message.                     *)
(***************************************************************************)
IsList(list) == list \in Seq(ToSet(list))

IsHandle(h) == h = Handle(h.form, h.name)

IsRoute(r) ==
    /\ r = [source |-> r.source, target |-> r.target, handle |-> r.handle, targetHandle |-> r.targetHandle]
    /\ IsHandle(r.handle)

IsButton(b) == b = [text |-> b.text, next |-> b.next]

IsStep(s) ==
    /\ s = [id |-> s.id, kind |-> s.kind, global |-> s.global, value |-> s.value, buttons |-> s.buttons,
            target |-> s.target, branches |-> s.branches, routes |-> s.routes]
    /\ IsList(s.buttons) /\ \A b \in ToSet(s.buttons) : IsButton(b)
    /\ IsList(s.routes)  /\ \A r \in ToSet(s.routes)  : IsRoute(r)

IsDocument(doc) ==
    /\ doc = [triggers |-> doc.triggers, steps |-> doc.steps, routes |-> doc.routes]
    /\ IsList(doc.triggers) /\ IsList(doc.steps) /\ \A s \in ToSet(Steps(doc)) : IsStep(s)
    /\ IsList(doc.routes) /\ \A r \in ToSet(doc.routes) : IsRoute(r)

Ordinary(routes) == \A r \in ToSet(routes) : r.targetHandle # Selected

OrdinaryDocument(doc) == Ordinary(doc.routes) /\ \A s \in ToSet(Steps(doc)) : Ordinary(s.routes)

FindStep(doc, id) ==
    LET i == SelectInSeq(Steps(doc), LAMBDA s : s.id = id)
    IN  IF i = 0 THEN None ELSE Steps(doc)[i]

(***************************************************************************)
(* The edits.                                                              *)
(***************************************************************************)
Without(steps, id) == Only(steps, {s \in ToSet(steps) : s.id # id})

\* asTrigger is "yes", "no", or "kind": let the kind of the step decide.
IsTrigger(step, asTrigger) ==
    asTrigger = "yes" \/ (asTrigger = "kind" /\ step.kind \in TriggerKinds)

\* Faulty: the step is only taken out of the list it is put into.
ReplaceInOneList(doc, step, asTrigger) ==
    IF IsTrigger(step, asTrigger)
    THEN [doc EXCEPT !.triggers = Append(Without(@, step.id), step)]
    ELSE [doc EXCEPT !.steps = Append(Without(@, step.id), step)]

ReplaceStep(doc, step, asTrigger) ==
    LET trigger == IsTrigger(step, asTrigger)
        end(yes) == IF yes THEN <<step>> ELSE << >>
    IN  [doc EXCEPT !.triggers = Without(@, step.id) \o end(trigger),
                    !.steps    = Without(@, step.id) \o end(~ trigger)]

Avoiding(routes, id) == Only(routes, {r \in ToSet(routes) : r.source # id /\ r.target # id})

\* Faulty: buttons keep pointing to the step that was removed.
ForgetButNotButtons(step, id) ==
    [step EXCEPT !.routes = Avoiding(@, id), !.target = IF @ = id THEN None ELSE @]

\* What remove_step leaves of another step.
Forget(step, id) ==
    [step EXCEPT !.routes  = Avoiding(@, id),
                 !.target  = IF @ = id THEN None ELSE @,
                 !.buttons = [i \in DOMAIN @ |->
                                IF @[i].next = id THEN [@[i] EXCEPT !.next = None] ELSE @[i]]]

RemoveStep(doc, id) ==
    LET rest(steps) == LET kept == Without(steps, id)
                       IN  [i \in DOMAIN kept |-> Forget(kept[i], id)]
    IN  [triggers |-> rest(doc.triggers), steps |-> rest(doc.steps),
         routes |-> Avoiding(doc.routes, id)]

UpsertRoute(doc, route) ==
    [doc EXCEPT !.routes = Append(Only(@, ToSet(@) \ {route}), route)]

(***************************************************************************)
(* The validator.                                                          *)
(***************************************************************************)
\* Faulty: the edit of a message is taken to lead to the message.
LinksAsCompiled(doc) ==
    LET steps == ToSet(Steps(doc))
        routes == ToSet(doc.routes) \cup UNION {ToSet(s.routes) : s \in steps}
    IN  {<<r.source, r.target>> : r \in routes}
        \cup (UNION {{<<s.id, b.next>> : b \in {c \in ToSet(s.buttons) : c.next # None}} :
                        s \in {t \in steps : t.kind \in ButtonKinds}})
        \cup {<<s.id, s.target>> : s \in {t \in steps : t.kind \in TargetKinds /\ t.target # None}}

Links(doc) ==                                            \* build_dsl_adjacency
    LET steps == ToSet(Steps(doc))
        routes == ToSet(doc.routes) \cup UNION {ToSet(s.routes) : s \in steps}
    IN  {<<r.source, r.target>> : r \in routes}
        \cup (UNION {{<<s.id, b.next>> : b \in {c \in ToSet(s.buttons) : c.next # None}} :
                        s \in {t \in steps : t.kind \in ButtonKinds}})
        \cup {<<s.target, s.id>> : s \in {t \in steps : t.kind \in TargetKinds /\ t.target # None}}

ClosedUnder(S, links) == \A l \in links : l[1] \in S => l[2] \in S

\* The least set that contains roots and is closed under links.
Reachable(roots, links) ==
    {n \in Ids : \A S \in SUBSET Ids : roots \subseteq S /\ ClosedUnder(S, links) => n \in S}

IdsOf(steps)     == {s.id : s \in ToSet(steps)}
DistinctIds(steps) == \A i, j \in DOMAIN steps : steps[i].id = steps[j].id => i = j

\* A document whose triggers are triggers.  The tools do not see to that: upsert_step
\* and save_flow_yaml may put an action among them.
ProperDocument(doc) ==
    /\ IsDocument(doc) /\ OrdinaryDocument(doc)
    /\ IdsOf(Steps(doc)) \subseteq Ids
    /\ \A t \in ToSet(doc.triggers) : t.kind \in TriggerKinds

Unreachable(doc) == IdsOf(doc.steps) \ Reachable(IdsOf(doc.triggers), Links(doc))

\* A global callback trigger that waits for the value of a static button.  A button
\* has one name here: its text stands for its value too.
Misuses(doc) ==
    \E t \in ToSet(doc.triggers), s \in ToSet(Steps(doc)) :
        /\ t.kind \in CallbackKinds /\ t.global /\ t.value # None
        /\ s.kind \in ButtonKinds
        /\ \E b \in ToSet(s.buttons) : b.text = t.value

DocumentErrors(doc) ==
    LET steps == Steps(doc)
        ids   == IdsOf(steps)
        routes == ToSet(doc.routes)
        Broken(name, isBroken) == IF isBroken THEN {name} ELSE {}
    IN  Broken("duplicate step id", Cardinality(ids) # Len(steps))
        \cup Broken("unsupported step kind",
                    \E s \in ToSet(steps) : s.kind \notin NativeKinds \cup {"raw_node"})
        \cup Broken("route source not found", \E r \in routes : r.source \notin ids)
        \cup Broken("route target not found", \E r \in routes : r.target \notin ids)
        \cup Broken("edited message not found",
                    \E s \in ToSet(steps) : s.kind \in TargetKinds /\ s.target \notin ids \cup {None})
        \cup Broken("button next target not found",
                    \E s \in ToSet(steps) : /\ s.kind \in ButtonKinds
                                            /\ \E b \in ToSet(s.buttons) : b.next \notin ids \cup {None})
        \cup Broken("global callback trigger", Misuses(doc))
        \cup Broken("no trigger", doc.triggers = << >>)
        \cup Broken("unreachable step", doc.triggers # << >> /\ Unreachable(doc) # {})

\* is_draft_save_error
DraftErrors == {"route source not found", "route target not found", "edited message not found",
                "button next target not found", "unreachable step",
                "edge source missing", "edge target missing"}
=============================================================================
