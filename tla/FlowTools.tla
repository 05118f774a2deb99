----------------------------- MODULE FlowTools ------------------------------
(***************************************************************************)
(* The tools the model may call (tools/dsl_tools.py, planning_tools.py,    *)
(* repo_tools.py), as functions of the state they run in:                  *)
(*                                                                         *)
(*   plan     current_plan: a sequence of items, empty if there is none    *)
(*   draft    working_dsl: a document, or None                             *)
(*   file     the flow file, or None if it does not exist                  *)
(*   outcome  how the call ended: "ok", "error" (a message for the model)  *)
(*            or "raised" (an exception that leaves the graph)             *)
(*                                                                         *)
(* A call is a record with the field tool and the arguments of that tool.  *)
(***************************************************************************)
EXTENDS FlowCompiler

Ok(st)     == [st EXCEPT !.outcome = "ok"]
Error(st)  == [st EXCEPT !.outcome = "error"]
Raised(st) == [st EXCEPT !.outcome = "raised"]

(***************************************************************************)
(* The plan.                                                               *)
(***************************************************************************)
Planned(st)         == st.plan # << >>                        \* require_task_plan
IsCompleted(plan)   == plan # << >> /\ \A i \in DOMAIN plan : plan[i].status = "completed"
HasIncomplete(plan) == \E i \in DOMAIN plan : plan[i].status # "completed"

(***************************************************************************)
(* Loading and saving.                                                     *)
(***************************************************************************)
LoadDocument(st) ==
    IF st.draft # None THEN st.draft
    ELSE IF st.file = None THEN EmptyDocument ELSE Import(st.file)

\* mode is "edit", or "strict_final_save" at the end of a plan.
MayStayDraft(st, doc, mode) == mode = "edit" /\ Planned(st) /\ Errors(doc) \subseteq DraftErrors

\* Faulty: a draft is written to the file as well.
SaveDraftToo(st, doc, mode) ==
    IF ~ Compilable(doc) THEN Error(st)
    ELSE IF Errors(doc) = {} \/ MayStayDraft(st, doc, mode)
    THEN Ok([st EXCEPT !.file = Compile(doc), !.draft = doc])
    ELSE Error([st EXCEPT !.draft = doc])

\* Faulty: the draft rule comes first, and a sound document stays a draft.
SaveLater(st, doc, mode) ==
    IF ~ Compilable(doc) THEN Error(st)
    ELSE IF MayStayDraft(st, doc, mode) THEN Ok([st EXCEPT !.draft = doc])
    ELSE IF Errors(doc) = {} THEN Ok([st EXCEPT !.file = Compile(doc), !.draft = doc])
    ELSE Error([st EXCEPT !.draft = doc])

\* save_document_to_target.  The document becomes the draft even if it is refused.
Save(st, doc, mode) ==
    IF ~ Compilable(doc) THEN Error(st)
    ELSE IF Errors(doc) = {} THEN Ok([st EXCEPT !.file = Compile(doc), !.draft = doc])
    ELSE IF MayStayDraft(st, doc, mode) THEN Ok([st EXCEPT !.draft = doc])
    ELSE Error([st EXCEPT !.draft = doc])

(***************************************************************************)
(* upsert_step.  incoming is None or [source, via, text, handle], where    *)
(* via is "default", "route" or "button".                                  *)
(***************************************************************************)
HasButton(step, text) == \E b \in ToSet(step.buttons) : b.text = text

IncomingRefused(doc, incoming) ==                             \* validate_incoming_semantics
    /\ incoming # None
    /\ LET source == FindStep(doc, incoming.source)
       IN  /\ source # None
           /\ \/ incoming.via = "button" /\ ~ HasButton(source, incoming.text)
              \/ incoming.via = "default" /\ source.buttons # << >>

HasIncomingReference(doc, id) ==
    \/ \E r \in ToSet(doc.routes) : r.target = id
    \/ \E s \in ToSet(Steps(doc)) : \/ \E r \in ToSet(s.routes) : r.target = id
                                    \/ \E b \in ToSet(s.buttons) : b.next = id

\* The first button with that text, of the first step with that id.
PointButton(doc, id, text, target) ==                         \* apply_button_incoming
    LET first == SelectInSeq(Steps(doc), LAMBDA s : s.id = id)
        step  == Steps(doc)[first]
        b     == SelectInSeq(step.buttons, LAMBDA c : c.text = text)
        all   == [Steps(doc) EXCEPT ![first].buttons[b].next = target]
        n     == Len(doc.triggers)
    IN  [doc EXCEPT !.triggers = SubSeq(all, 1, n), !.steps = SubSeq(all, n + 1, Len(all))]

UpsertRefused(st, doc, call) ==
    \/ ~ Planned(st)
    \/ call.step.kind \in CallbackKinds /\ call.step.global
    \/ /\ FindStep(doc, call.step.id) = None
       /\ ~ IsTrigger(call.step, call.trigger)
       /\ call.incoming = None
       /\ ~ HasIncomingReference(doc, call.step.id)
    \/ IncomingRefused(doc, call.incoming)

UpsertStep(st, call) ==
    LET doc      == LoadDocument(st)
        incoming == call.incoming
        placed   == ReplaceStep(doc, call.step, call.trigger)
        source   == FindStep(placed, incoming.source)
    IN  IF UpsertRefused(st, doc, call) THEN Error(st)
        ELSE IF incoming = None THEN Save(st, placed, "edit")
        ELSE IF incoming.via # "button"
        THEN Save(st, UpsertRoute(placed, Route(incoming.source, call.step.id, incoming.handle)), "edit")
        ELSE IF source = None \/ ~ HasButton(source, incoming.text) THEN Raised(st)
        ELSE Save(st, PointButton(placed, incoming.source, incoming.text, call.step.id), "edit")

(***************************************************************************)
(* The other editing tools.                                                *)
(***************************************************************************)
Edit(st, doc) == IF Planned(st) THEN Save(st, doc, "edit") ELSE Error(st)

RemoveStepTool(st, call) == Edit(st, RemoveStep(LoadDocument(st), call.id))

ConnectSteps(st, call) == Edit(st, FoldLeft(UpsertRoute, LoadDocument(st), call.routes))

\* deep_merge; the fields of the model are not nested.
DeepMerge(base, patch) ==
    [field \in DOMAIN base |-> IF field \in DOMAIN patch THEN patch[field] ELSE base[field]]

PatchStepBlock(st, call) ==
    LET doc == LoadDocument(st)
        existing == FindStep(doc, call.id)
    IN  IF existing = None THEN Error(st)
        ELSE Edit(st, ReplaceStep(doc, [DeepMerge(existing, call.patch) EXCEPT !.id = call.id], "kind"))

\* doc is None if the text does not parse.
SaveFlowYaml(st, call) == IF call.doc = None THEN Error(st) ELSE Edit(st, call.doc)

(***************************************************************************)
(* The planning tools.                                                     *)
(***************************************************************************)
CreateTaskPlan(st, call) ==
    Ok([st EXCEPT !.plan = [i \in DOMAIN call.items |-> [id |-> call.items[i], status |-> "pending"]]])

\* Faulty: the item stays completed although the flow could not be saved.
UpdateAnyway(st, call) ==
    LET i == SelectInSeq(st.plan, LAMBDA p : p.id = call.item)
        updated == [st EXCEPT !.plan[i].status = call.status]
    IN  IF i = 0 THEN Error(st)
        ELSE IF ~ IsCompleted(updated.plan) \/ st.draft = None THEN Ok(updated)
        ELSE Save(updated, st.draft, "strict_final_save")

\* Completing the last item saves the draft, strictly; if it cannot be saved the
\* item is blocked.
UpdateTaskPlanItem(st, call) ==
    LET i == SelectInSeq(st.plan, LAMBDA p : p.id = call.item)
        updated == [st EXCEPT !.plan[i].status = call.status]
        saved   == Save(updated, st.draft, "strict_final_save")
    IN  IF i = 0 THEN Error(st)
        ELSE IF ~ IsCompleted(updated.plan) \/ st.draft = None THEN Ok(updated)
        ELSE IF saved.outcome = "ok" THEN saved
        ELSE [saved EXCEPT !.plan[i].status = "blocked"]

(***************************************************************************)
(* The tools that only read.  get_flow_yaml reads the file,                *)
(* analyze_flow_connectivity the draft if there is one.                    *)
(***************************************************************************)
GetFlowYaml(st) == IF st.file = None THEN Raised(st) ELSE Ok(st)
Analyze(st)     == IF st.draft = None /\ st.file = None THEN Raised(st) ELSE Ok(st)

EditTools == {"upsert_step", "remove_step", "connect_steps", "patch_step_block", "save_flow_yaml"}

ToolNames == EditTools \cup {"create_task_plan", "update_task_plan_item", "get_flow_yaml",
    "analyze_flow_connectivity", "request_clarification", "malformed", "unknown"}

\* ToolRegistry.execute.  Arguments that do not validate raise; a name that is
\* not registered is an error.
Apply(st, call) ==
    CASE call.tool = "upsert_step"               -> UpsertStep(st, call)
      [] call.tool = "remove_step"               -> RemoveStepTool(st, call)
      [] call.tool = "connect_steps"             -> ConnectSteps(st, call)
      [] call.tool = "patch_step_block"          -> PatchStepBlock(st, call)
      [] call.tool = "save_flow_yaml"            -> SaveFlowYaml(st, call)
      [] call.tool = "create_task_plan"          -> CreateTaskPlan(st, call)
      [] call.tool = "update_task_plan_item"     -> UpdateTaskPlanItem(st, call)
      [] call.tool = "get_flow_yaml"             -> GetFlowYaml(st)
      [] call.tool = "analyze_flow_connectivity" -> Analyze(st)
      [] call.tool = "request_clarification"     -> Ok(st)
      [] call.tool = "malformed"                 -> Raised(st)
      [] call.tool = "unknown"                   -> Error(st)
=============================================================================
