-------------------------- MODULE FlowAgentProofs ---------------------------
(***************************************************************************)
(* Proofs about FlowAgent, for every set of batches, every plan and flow   *)
(* and any number of turns and crashes: how many tool messages a call      *)
(* gets, which calls may save, and what the file holds.  Up to the last    *)
(* section the tools are opened only as far as plan, draft, file and       *)
(* outcome depend on each other; there, as far as their edits keep a       *)
(* document proper.                                                        *)
(***************************************************************************)
EXTENDS FlowAgent, FlowDocumentProofs

\* The calls of a message are a sequence, and its indices are those of the list
\* tool_exec goes through (graph.py:77).
LEMMA CallsAreASequence ==
    ASSUME AnswersInvariant
    PROVE  /\ Len(calls) \in Nat
           /\ DOMAIN calls = 1 .. Len(calls)
  BY AgentAssumption DEF AnswersInvariant

\* An execution of a batch starts with no answers, also after a crash.
LEMMA FreshBatch ==
    ASSUME NEW batch, Len(batch) \in Nat, DOMAIN batch = 1 .. Len(batch)
    PROVE  /\ Fresh(batch).next \in 1 .. Len(batch) + 1
           /\ Fresh(batch).ask \in 0 .. Fresh(batch).next - 1
           /\ Fresh(batch).answers =
                [i \in DOMAIN batch |-> IF i < Fresh(batch).next /\ i # Fresh(batch).ask THEN 1 ELSE 0]
  BY DEF Fresh, Unanswered

\* Executing one call answers it, or keeps it for the user if it is the first
\* question of the batch, and leaves the answers of the others alone
\* (graph.py:87-105).
LEMMA MergeAnswersOne ==
    ASSUME NEW result, AnswersInvariant, Executing, node = "tool_exec"
    PROVE  /\ Merge(result).next \in 1 .. Len(calls) + 1
           /\ Merge(result).ask \in 0 .. Merge(result).next - 1
           /\ Merge(result).answers =
                [i \in DOMAIN calls |->
                    IF i < Merge(result).next /\ i # Merge(result).ask THEN 1 ELSE 0]
  <1> DEFINE kept == calls[work.next].tool = "request_clarification" /\ work.ask = 0
  <1>1. Len(calls) \in Nat /\ DOMAIN calls = 1 .. Len(calls)
    BY CallsAreASequence
  <1>2. /\ work.next \in 1 .. Len(calls)
        /\ work.ask \in 0 .. work.next - 1
        /\ work.answers = [i \in DOMAIN calls |-> IF i < work.next /\ i # work.ask THEN 1 ELSE 0]
    BY <1>1 DEF AnswersInvariant, BatchAnswers, Executing
  <1>3. /\ Merge(result).next = work.next + 1
        /\ Merge(result).ask = IF kept THEN work.next ELSE work.ask
        /\ Merge(result).answers =
             IF kept THEN work.answers ELSE [work.answers EXCEPT ![work.next] = @ + 1]
    BY Zenon DEF Merge
  <1> HIDE DEF kept
  <1>4. CASE kept
    <2>1. work.ask = 0
      BY <1>4 DEF kept
    <2> QED BY <1>1, <1>2, <1>3, <1>4, <2>1
  <1>5. CASE ~ kept
    <2>1. /\ Merge(result).next = work.next + 1
          /\ Merge(result).ask = work.ask
          /\ Merge(result).answers = [work.answers EXCEPT ![work.next] = @ + 1]
      BY <1>3, <1>5
    <2>2. [work.answers EXCEPT ![work.next] = @ + 1] =
            [i \in DOMAIN calls |-> IF i < work.next + 1 /\ i # work.ask THEN 1 ELSE 0]
      <3> DEFINE before == [i \in DOMAIN calls |-> IF i < work.next /\ i # work.ask THEN 1 ELSE 0]
      <3>1. /\ work.next \in Nat /\ work.ask \in Nat
            /\ work.next \in DOMAIN calls
            /\ before[work.next] = 0
        BY <1>1, <1>2
      <3>2. [before EXCEPT ![work.next] = @ + 1] =
              [i \in DOMAIN calls |-> IF i < work.next + 1 /\ i # work.ask THEN 1 ELSE 0]
        <4> DEFINE D == DOMAIN calls
                   k == work.next
                   a == work.ask
                   after == [i \in D |-> IF i < k + 1 /\ i # a THEN 1 ELSE 0]
        <4>1. D \subseteq Nat /\ k \in D /\ k # a /\ a \in Nat
          BY <1>1, <1>2, <3>1
        <4> HIDE DEF D, k, a
        <4>2. ASSUME NEW i \in D PROVE [before EXCEPT ![k] = @ + 1][i] = after[i]
          <5>1. i \in Nat /\ k \in Nat /\ before[i] = IF i < k /\ i # a THEN 1 ELSE 0
            BY <4>1 DEF D, k, a
          <5>2. CASE i = k
            <6>1. before[k] = 0 /\ after[i] = 1
              BY <4>1, <5>1, <5>2
            <6> QED
              BY <5>2, <6>1 DEF D
          <5>3. CASE i # k
            <6>1. [before EXCEPT ![k] = @ + 1][i] = before[i]
              BY <5>3 DEF D
            <6>2. after[i] = before[i]
              BY <5>1, <5>3
            <6> QED
              BY <6>1, <6>2
          <5> QED
            BY <5>2, <5>3
        <4> QED
          BY <4>2 DEF D, k, a
      <3> QED BY <1>2, <3>2
    <2>3. /\ Merge(result).next \in 1 .. Len(calls) + 1
          /\ Merge(result).ask \in 0 .. Merge(result).next - 1
      BY <1>1, <1>2, <2>1
    <2> QED BY <2>1, <2>2, <2>3, Zenon
  <1> QED BY <1>4, <1>5

\* The initial state, with no message at all, satisfies the invariant.
LEMMA InitAnswers == Init => AnswersInvariant
  BY DEF Init, AnswersInvariant, BatchAnswers, AskedAnswers, AllAnswered, Nodes

\* Every step preserves it.
LEMMA StepAnswers == AnswersInvariant /\ [Next]_vars => AnswersInvariant'
  <1> SUFFICES ASSUME AnswersInvariant, [Next]_vars
               PROVE  AnswersInvariant'
    OBVIOUS
  <1> USE DEF Nodes, Running
  <1>0. Len(calls) \in Nat /\ DOMAIN calls = 1 .. Len(calls)
    BY CallsAreASequence
  <1>1. ASSUME NEW batch \in Batches, CallTools(batch)
        PROVE  AnswersInvariant'
    <2>1. Len(batch) \in Nat /\ DOMAIN batch = 1 .. Len(batch)
      BY AgentAssumption
    <2>2. node' = "tool_exec" /\ calls' = batch /\ work' = Fresh(batch)
      BY <1>1 DEF CallTools, Goto
    <2>3. BatchAnswers'
      BY <2>1, <2>2, FreshBatch DEF BatchAnswers
    <2> QED BY <2>2, <2>3 DEF AnswersInvariant, AskedAnswers, AllAnswered
  <1>2. CASE Answer
    BY <1>2 DEF Answer, Goto, AnswersInvariant, BatchAnswers, AskedAnswers, AllAnswered
  <1>3. CASE Remind
    BY <1>3 DEF Remind, Goto, state, AnswersInvariant, BatchAnswers, AskedAnswers, AllAnswered
  <1>4. CASE Finish
    BY <1>4 DEF Finish, Goto, state, AnswersInvariant, BatchAnswers, AskedAnswers, AllAnswered
  <1>5. CASE RunTool
    <2>1. PICK result : /\ node = "tool_exec" /\ Executing
                        /\ calls' = calls
                        /\ \/ node' = "failed"
                           \/ node' = node /\ work' = Merge(result)
      BY <1>5 DEF RunTool, Executing, state
    <2>2. CASE node' = "failed"
      BY <2>1, <2>2 DEF AnswersInvariant, BatchAnswers, AskedAnswers, AllAnswered
    <2>3. CASE node' = node /\ work' = Merge(result)
      <3>1. BatchAnswers'
        BY <2>1, <2>3, MergeAnswersOne DEF BatchAnswers
      <3> QED BY <2>1, <2>3, <3>1 DEF AnswersInvariant, AskedAnswers, AllAnswered
    <2> QED BY <2>1, <2>2, <2>3
  <1>6. CASE ToolsDone
    <2>1. /\ calls' = calls /\ answers' = work.answers /\ pending' = work.ask
          /\ node' = IF work.ask # 0 THEN "clarify_interrupt" ELSE "llm_call"
      BY <1>6 DEF ToolsDone, Goto
    <2>2. /\ work.next = Len(calls) + 1
          /\ work.ask \in 0 .. Len(calls)
          /\ work.answers = [i \in DOMAIN calls |-> IF i < work.next /\ i # work.ask THEN 1 ELSE 0]
      BY <1>0, <1>6 DEF ToolsDone, AnswersInvariant, BatchAnswers
    <2>3. work.answers = [i \in DOMAIN calls |-> IF i = work.ask THEN 0 ELSE 1]
      BY <1>0, <2>2
    <2>4. CASE work.ask # 0
      BY <1>0, <2>1, <2>2, <2>3, <2>4 DEF AnswersInvariant, BatchAnswers, AskedAnswers, AllAnswered
    <2>5. CASE work.ask = 0
      <3>1. work.answers = [i \in DOMAIN calls |-> 1]
        BY <1>0, <2>3, <2>5
      <3> QED BY <2>1, <2>5, <3>1 DEF AnswersInvariant, BatchAnswers, AskedAnswers, AllAnswered
    <2> QED BY <2>4, <2>5
  <1>7. CASE Exhausted
    BY <1>7 DEF Exhausted, state, AnswersInvariant, BatchAnswers, AskedAnswers, AllAnswered
  <1>8. CASE Prompt
    BY <1>8 DEF Prompt, state, AnswersInvariant, BatchAnswers, AskedAnswers, AllAnswered
  <1>9. CASE Reply
    <2>1. /\ pending \in DOMAIN calls
          /\ answers = [i \in DOMAIN calls |-> IF i = pending THEN 0 ELSE 1]
      BY <1>9 DEF Reply, AnswersInvariant, AskedAnswers
    <2>2. [answers EXCEPT ![pending] = @ + 1] = [i \in DOMAIN calls |-> 1]
      BY <2>1
    <2>3. node' = "llm_call" /\ calls' = calls /\ answers' = [i \in DOMAIN calls |-> 1]
      BY <1>9, <2>2 DEF Reply
    <2> QED BY <2>3 DEF AnswersInvariant, BatchAnswers, AskedAnswers, AllAnswered
  <1>10. CASE Crash
    <2>1. CASE node = "tool_exec"
      <3>1. node' = "tool_exec" /\ calls' = calls /\ work' = Fresh(calls)
        BY <1>10, <2>1 DEF Crash, state
      <3>2. BatchAnswers'
        BY <1>0, <3>1, FreshBatch DEF BatchAnswers
      <3> QED BY <3>1, <3>2 DEF AnswersInvariant, AskedAnswers, AllAnswered
    <2>2. CASE node # "tool_exec"
      BY <1>10, <2>2 DEF Crash, state, AnswersInvariant, BatchAnswers, AskedAnswers, AllAnswered
    <2> QED BY <2>1, <2>2
  <1>11. CASE UNCHANGED vars
    BY <1>11 DEF vars, AnswersInvariant, BatchAnswers, AskedAnswers, AllAnswered
  <1> QED
    BY <1>1, <1>2, <1>3, <1>4, <1>5, <1>6, <1>7, <1>8, <1>9, <1>10, <1>11 DEF Next, Step

\* At every node, in the checkpoint and in the batch being executed, each call has
\* had the messages it should have had, however often the process died.
THEOREM AnswersAreCounted == Safety => []AnswersInvariant
  BY InitAnswers, StepAnswers, PTL DEF Safety

\* When the model is called, every tool call of its last message has exactly one
\* tool message (graph.py:93-128).
THEOREM CallsAreAnsweredOnce == Safety => []EveryCallIsAnsweredOnce
  <1>1. AnswersInvariant => EveryCallIsAnsweredOnce
    BY DEF AnswersInvariant, AllAnswered, EveryCallIsAnsweredOnce
  <1> QED BY <1>1, AnswersAreCounted, PTL
-----------------------------------------------------------------------------
(***************************************************************************)
(* What the tools do to the plan, the draft and the file.                  *)
(***************************************************************************)
State(p, d, f, o) == [plan |-> p, draft |-> d, file |-> f, outcome |-> o]

LEMMA StateFields ==
    ASSUME NEW p, NEW d, NEW f, NEW o
    PROVE  /\ State(p, d, f, o).plan = p /\ State(p, d, f, o).draft = d
           /\ State(p, d, f, o).file = f /\ State(p, d, f, o).outcome = o
           /\ Ok(State(p, d, f, o)) = State(p, d, f, "ok")
           /\ Error(State(p, d, f, o)) = State(p, d, f, "error")
           /\ Raised(State(p, d, f, o)) = State(p, d, f, "raised")
  BY DEF State, Ok, Error, Raised

\* A save writes an accepted document, and only such a one; a document that
\* compiles becomes the draft either way (dsl_tools.py, save_document_to_target).
LEMMA SaveEffect ==
    ASSUME NEW p, NEW d, NEW f, NEW o, NEW doc, NEW mode
    PROVE  \/ ~ Compilable(doc) /\ Save(State(p, d, f, o), doc, mode) = State(p, d, f, "error")
           \/ Accepted(doc) /\ Save(State(p, d, f, o), doc, mode) = State(p, doc, Compile(doc), "ok")
           \/ /\ Compilable(doc) /\ ~ Accepted(doc)
              /\ MayStayDraft(State(p, d, f, o), doc, mode)
              /\ Save(State(p, d, f, o), doc, mode) = State(p, doc, f, "ok")
           \/ /\ Compilable(doc) /\ ~ Accepted(doc)
              /\ Save(State(p, d, f, o), doc, mode) = State(p, doc, f, "error")
<1> DEFINE st == State(p, d, f, o)
           written == [st EXCEPT !.file = Compile(doc), !.draft = doc]
           kept == [st EXCEPT !.draft = doc]
<1>1. written = State(p, doc, Compile(doc), o) /\ kept = State(p, doc, f, o)
  <2>1. kept = State(p, doc, f, o)
    BY DEF State
  <2>2. \A x : [State(p, d, f, o) EXCEPT !.file = x] = State(p, d, x, o)
    BY DEF State
  <2>3. \A x : [State(p, d, x, o) EXCEPT !.draft = doc] = State(p, doc, x, o)
    BY DEF State
  <2>4. written = [[st EXCEPT !.file = Compile(doc)] EXCEPT !.draft = doc]
    OBVIOUS
  <2> QED
    BY <2>1, <2>2, <2>3, <2>4
<1>2. Save(st, doc, mode) =
        IF ~ Compilable(doc) THEN Error(st)
        ELSE IF Errors(doc) = {} THEN Ok(written)
        ELSE IF MayStayDraft(st, doc, mode) THEN Ok(kept)
        ELSE Error(kept)
  BY DEF Save
<1>3. /\ Error(st) = State(p, d, f, "error")
      /\ Ok(written) = State(p, doc, Compile(doc), "ok")
      /\ Ok(kept) = State(p, doc, f, "ok") /\ Error(kept) = State(p, doc, f, "error")
  <2> HIDE DEF written, kept
  <2> QED
    BY <1>1, StateFields
<1>5. Accepted(doc) <=> Compilable(doc) /\ Errors(doc) = {}
  BY DEF Accepted
<1> DEFINE saved == Save(st, doc, mode)
<1>9. saved = Save(st, doc, mode)
  OBVIOUS
<1> HIDE DEF st, written, kept
<1>6. CASE ~ Compilable(doc)
  <2>1. saved = State(p, d, f, "error")
    BY <1>2, <1>3, <1>6, <1>9
  <2> QED
    BY <1>6, <2>1 DEF st
<1>7. CASE Accepted(doc)
  <2>1. saved = State(p, doc, Compile(doc), "ok")
    BY <1>2, <1>3, <1>5, <1>7, <1>9
  <2> QED
    BY <1>7, <2>1 DEF st
<1>8. CASE Compilable(doc) /\ ~ Accepted(doc)
  <2>1. IF MayStayDraft(st, doc, mode) THEN saved = State(p, doc, f, "ok")
                                         ELSE saved = State(p, doc, f, "error")
    BY <1>2, <1>3, <1>5, <1>8, <1>9
  <2> QED
    BY <1>8, <2>1 DEF st
<1> QED
  BY <1>6, <1>7, <1>8

\* The saves of the editing tools, and the strict one at the end of a plan.
LEMMA EditSaves ==
    ASSUME NEW p, NEW d, NEW f, NEW o, NEW doc
    PROVE  \/ ~ Compilable(doc) /\ Save(State(p, d, f, o), doc, "edit") = State(p, d, f, "error")
           \/ Accepted(doc) /\ Save(State(p, d, f, o), doc, "edit") = State(p, doc, Compile(doc), "ok")
           \/ /\ Compilable(doc) /\ ~ Accepted(doc)
              /\ Save(State(p, d, f, o), doc, "edit")
                    \in {State(p, doc, f, "ok"), State(p, doc, f, "error")}
  BY SaveEffect

LEMMA StrictSaves ==
    ASSUME NEW p, NEW d, NEW f, NEW o, NEW doc
    PROVE  \/ ~ Compilable(doc) /\ Save(State(p, d, f, o), doc, "strict_final_save") = State(p, d, f, "error")
           \/ Accepted(doc) /\ Save(State(p, d, f, o), doc, "strict_final_save") = State(p, doc, Compile(doc), "ok")
           \/ /\ Compilable(doc) /\ ~ Accepted(doc)
              /\ Save(State(p, d, f, o), doc, "strict_final_save") = State(p, doc, f, "error")
<1>1. ~ MayStayDraft(State(p, d, f, o), doc, "strict_final_save")
  BY DEF MayStayDraft
<1> QED
  BY <1>1, SaveEffect

\* An editing tool saves some document, not strictly, or does nothing; without a
\* plan it does nothing (require_task_plan).
LEMMA EditEffect ==
    ASSUME NEW p, NEW d, NEW f, NEW call, call.tool \in EditTools,
           NEW result, result = Apply(State(p, d, f, "ok"), call)
    PROVE  \/ result \in {State(p, d, f, "error"), State(p, d, f, "raised")}
           \/ p # << >> /\ \E doc : result = Save(State(p, d, f, "ok"), doc, "edit")
<1> DEFINE st == State(p, d, f, "ok")
           Idle == {Error(st), Raised(st)}
           Outcome(r) == \/ r \in Idle
                         \/ p # << >> /\ \E doc : r = Save(st, doc, "edit")
<1>1. Planned(st) <=> p # << >>
  BY StateFields DEF Planned
<1> HIDE DEF st
<1>2. Outcome(Error(st)) /\ Outcome(Raised(st))
  OBVIOUS
<1>3. ASSUME NEW doc, Planned(st) PROVE Outcome(Save(st, doc, "edit"))
  BY <1>1, <1>3
<1> HIDE DEF Outcome
<1>4. ASSUME NEW doc PROVE Outcome(Edit(st, doc))
  BY <1>2, <1>3 DEF Edit
<1>5. Outcome(UpsertStep(st, call))
  <2> DEFINE doc      == LoadDocument(st)
             incoming == call.incoming
             placed   == ReplaceStep(doc, call.step, call.trigger)
             source   == FindStep(placed, incoming.source)
             linked   == UpsertRoute(placed, Route(incoming.source, call.step.id, incoming.handle))
             pressed  == PointButton(placed, incoming.source, incoming.text, call.step.id)
  <2>1. UpsertStep(st, call) =
          IF UpsertRefused(st, doc, call) THEN Error(st)
          ELSE IF incoming = None THEN Save(st, placed, "edit")
          ELSE IF incoming.via # "button" THEN Save(st, linked, "edit")
          ELSE IF source = None \/ ~ HasButton(source, incoming.text) THEN Raised(st)
          ELSE Save(st, pressed, "edit")
    BY DEF UpsertStep
  <2> HIDE DEF doc, incoming, placed, source, linked, pressed
  <2>2. UpsertRefused(st, doc, call) \/ Planned(st)
    BY DEF UpsertRefused
  <2> QED
    BY <1>2, <1>3, <2>1, <2>2
<1>6. Outcome(RemoveStepTool(st, call)) /\ Outcome(ConnectSteps(st, call))
  <2> DEFINE removed == RemoveStep(LoadDocument(st), call.id)
             connected == FoldLeft(UpsertRoute, LoadDocument(st), call.routes)
  <2>1. RemoveStepTool(st, call) = Edit(st, removed) /\ ConnectSteps(st, call) = Edit(st, connected)
    BY DEF RemoveStepTool, ConnectSteps
  <2> HIDE DEF removed, connected
  <2> QED
    BY <1>4, <2>1
<1>9. Outcome(PatchStepBlock(st, call))
  <2> DEFINE doc == LoadDocument(st)
             existing == FindStep(doc, call.id)
             patched == ReplaceStep(doc, [DeepMerge(existing, call.patch) EXCEPT !.id = call.id], "kind")
  <2>1. PatchStepBlock(st, call) = IF existing = None THEN Error(st) ELSE Edit(st, patched)
    BY DEF PatchStepBlock
  <2> HIDE DEF existing, patched
  <2> QED
    BY <1>2, <1>4, <2>1
<1>10. Outcome(SaveFlowYaml(st, call))
  BY <1>2, <1>4 DEF SaveFlowYaml
<1>7. Outcome(Apply(st, call))
  <2> HIDE DEF Outcome
  <2>1. CASE call.tool = "upsert_step"
    BY <1>5, <2>1 DEF Apply
  <2>2. CASE call.tool = "remove_step"
    BY <1>6, <2>2 DEF Apply
  <2>3. CASE call.tool = "connect_steps"
    BY <1>6, <2>3 DEF Apply
  <2>4. CASE call.tool = "patch_step_block"
    BY <1>9, <2>4 DEF Apply
  <2>5. CASE call.tool = "save_flow_yaml"
    BY <1>10, <2>5 DEF Apply
  <2> QED
    BY <2>1, <2>2, <2>3, <2>4, <2>5 DEF EditTools
<1>8. Idle = {State(p, d, f, "error"), State(p, d, f, "raised")}
  BY StateFields DEF st
<1> QED
  BY <1>7, <1>8 DEF st, Outcome

\* A function on 1 .. n is a list.
LEMMA PlanOfItems ==
    ASSUME NEW n \in Nat, NEW q, DOMAIN q = 1 .. n, q = [i \in 1 .. n |-> q[i]],
           \A i \in 1 .. n : q[i] = [id |-> q[i].id, status |-> q[i].status]
    PROVE  IsPlan(q)
<1>1. \A i \in 1 .. n : q[i] \in ToSet(q)
  BY DEF ToSet
<1>2. q \in [1 .. n -> ToSet(q)]
  BY <1>1
<1>3. q \in Seq(ToSet(q))
  BY <1>2
<1> QED
  BY <1>3 DEF IsPlan

\* The items of a new plan are pending (planning_tools.py, create_task_plan).
LEMMA CreateEffect ==
    ASSUME NEW p, NEW d, NEW f, NEW o, NEW call,
           call.items \in Seq(ToSet(call.items)), call.items # << >>
    PROVE  \E q : /\ IsPlan(q) /\ HasIncomplete(q)
                  /\ CreateTaskPlan(State(p, d, f, o), call) = State(q, d, f, "ok")
<1> DEFINE n == Len(call.items)
           q == [i \in 1 .. n |-> [id |-> call.items[i], status |-> "pending"]]
<1>1. n \in Nat /\ n > 0 /\ DOMAIN call.items = 1 .. n
  OBVIOUS
<1>2. \A i \in 1 .. n : q[i] = [id |-> q[i].id, status |-> q[i].status] /\ q[i].status = "pending"
  OBVIOUS
<1>3. DOMAIN q = 1 .. n /\ q = [i \in 1 .. n |-> q[i]]
  OBVIOUS
<1>4. CreateTaskPlan(State(p, d, f, o), call) = Ok([State(p, d, f, o) EXCEPT !.plan = q])
  BY <1>1 DEF CreateTaskPlan
<1> HIDE DEF q
<1>5. IsPlan(q)
  BY <1>1, <1>2, <1>3, PlanOfItems
<1>6. HasIncomplete(q)
  <2>1. 1 \in 1 .. n
    BY <1>1
  <2>2. 1 \in DOMAIN q /\ q[1].status = "pending"
    BY <1>2, <1>3, <2>1
  <2> QED
    BY <2>2 DEF HasIncomplete
<1>7. [State(p, d, f, o) EXCEPT !.plan = q] = State(q, d, f, o)
  BY DEF State
<1> QED
  BY <1>4, <1>5, <1>6, <1>7, StateFields

\* An item of a plan gets a status.
LEMMA ItemUpdated ==
    ASSUME NEW p, IsPlan(p), NEW i, i \in DOMAIN p, NEW status
    PROVE  /\ IsPlan([p EXCEPT ![i].status = status])
           /\ DOMAIN [p EXCEPT ![i].status = status] = DOMAIN p
           /\ [p EXCEPT ![i].status = status][i].status = status
<1> DEFINE n == Len(p)
           q == [p EXCEPT ![i].status = status]
<1>1. n \in Nat /\ DOMAIN p = 1 .. n
  BY DEF IsPlan
<1>2. p[i] = [id |-> p[i].id, status |-> p[i].status]
  BY DEF IsPlan
<1>3. q[i] = [id |-> p[i].id, status |-> status]
  <2>1. q[i] = [p[i] EXCEPT !.status = status]
    OBVIOUS
  <2>2. \A a, b : [[id |-> a, status |-> b] EXCEPT !.status = status] = [id |-> a, status |-> status]
    OBVIOUS
  <2> HIDE DEF q
  <2> QED
    BY <1>2, <2>1, <2>2
<1>4. \A j \in 1 .. n : q[j] = [id |-> q[j].id, status |-> q[j].status]
  <2> SUFFICES ASSUME NEW j \in 1 .. n
               PROVE  q[j] = [id |-> q[j].id, status |-> q[j].status]
    OBVIOUS
  <2>1. CASE j = i
    <3> HIDE DEF q
    <3> QED
      BY <1>3, <2>1
  <2>2. CASE j # i
    <3>1. q[j] = p[j]
      BY <1>1, <2>2
    <3>2. p[j] = [id |-> p[j].id, status |-> p[j].status]
      BY <1>1 DEF IsPlan
    <3> HIDE DEF q
    <3> QED
      BY <3>1, <3>2
  <2> QED
    BY <2>1, <2>2
<1>5. DOMAIN q = 1 .. n /\ q = [j \in 1 .. n |-> q[j]]
  BY <1>1
<1>6. IsPlan(q)
  <2> HIDE DEF q
  <2> QED
    BY <1>1, <1>4, <1>5, PlanOfItems
<1>7. q[i].status = status
  <2> HIDE DEF q
  <2> QED
    BY <1>3
<1> QED
  BY <1>1, <1>5, <1>6, <1>7

\* The item an update is about, and the plan with its new status.
ItemAt(p, call)  == SelectInSeq(p, LAMBDA x : x.id = call.item)
Updated(p, call) == [p EXCEPT ![ItemAt(p, call)].status = call.status]
Blocked(p, call) == [Updated(p, call) EXCEPT ![ItemAt(p, call)].status = "blocked"]

LEMMA ItemFound ==
    ASSUME NEW p, NEW call, IsPlan(p), ItemAt(p, call) # 0
    PROVE  /\ ItemAt(p, call) \in DOMAIN p
           /\ IsPlan(Updated(p, call)) /\ DOMAIN Updated(p, call) # {}
           /\ IsPlan(Blocked(p, call)) /\ HasIncomplete(Blocked(p, call))
<1> DEFINE i == ItemAt(p, call)
           q == Updated(p, call)
           b == Blocked(p, call)
           I == {k \in 1 .. Len(p) : p[k].id = call.item}
<1>1. i = IF I # {} THEN Min(I) ELSE 0
  BY DEF ItemAt, SelectInSeq
<1>2. I \in SUBSET Nat
  OBVIOUS
<1>3. I # {} => Min(I) \in I
  <2> HIDE DEF I
  <2> QED
    BY <1>2, MinProperties
<1>4. i \in DOMAIN p
  <2>1. DOMAIN p = 1 .. Len(p)
    BY DEF IsPlan
  <2> QED
    BY <1>1, <1>3, <2>1
<1>5. q = [p EXCEPT ![i].status = call.status] /\ b = [q EXCEPT ![i].status = "blocked"]
  BY DEF Updated, Blocked
<1> HIDE DEF i, q, b
<1>6. IsPlan(q) /\ i \in DOMAIN q
  BY <1>4, <1>5, ItemUpdated
<1>7. IsPlan(b) /\ i \in DOMAIN b /\ b[i].status = "blocked"
  <2>1. \A s : /\ IsPlan([q EXCEPT ![i].status = s])
               /\ DOMAIN [q EXCEPT ![i].status = s] = DOMAIN q
               /\ [q EXCEPT ![i].status = s][i].status = s
    BY <1>6, ItemUpdated
  <2>2. b = [q EXCEPT ![i].status = "blocked"]
    BY <1>5
  <2> QED
    BY <1>6, <2>1, <2>2
<1>8. HasIncomplete(b)
  BY <1>7 DEF HasIncomplete
<1> QED
  BY <1>4, <1>6, <1>7, <1>8 DEF i, q, b

\* Updating an item saves the draft if no item stays open, and blocks the item if
\* the draft is not accepted (planning_tools.py, update_task_plan_item).
LEMMA UpdateOutcome ==
    ASSUME NEW p, NEW d, NEW f, NEW call, IsPlan(p)
    PROVE  UpdateTaskPlanItem(State(p, d, f, "ok"), call) =
             IF ItemAt(p, call) = 0 THEN State(p, d, f, "error")
             ELSE IF ~ IsCompleted(Updated(p, call)) \/ d = None THEN State(Updated(p, call), d, f, "ok")
             ELSE IF Accepted(d) THEN State(Updated(p, call), d, Compile(d), "ok")
             ELSE State(Blocked(p, call), d, f, "error")
<1> DEFINE st == State(p, d, f, "ok")
           i == ItemAt(p, call)
           q == Updated(p, call)
           b == Blocked(p, call)
           updated == State(q, d, f, "ok")
           saved == Save(updated, d, "strict_final_save")
           result == UpdateTaskPlanItem(st, call)
<1>1. st.plan = p /\ st.draft = d
  BY StateFields
<1>2. [st EXCEPT !.plan[i].status = call.status] = updated
  <2>0. q = [p EXCEPT ![i].status = call.status]
    BY DEF Updated
  <2> HIDE DEF i, q
  <2>1. [st EXCEPT !.plan[i].status = call.status] = [st EXCEPT !.plan = q]
    BY <2>0 DEF State
  <2>2. [st EXCEPT !.plan = q] = updated
    BY DEF State
  <2> QED
    BY <2>1, <2>2
<1>3. result = IF i = 0 THEN Error(st)
               ELSE IF ~ IsCompleted(updated.plan) \/ d = None THEN Ok(updated)
               ELSE IF saved.outcome = "ok" THEN saved
               ELSE [saved EXCEPT !.plan[i].status = "blocked"]
  BY <1>1, <1>2 DEF UpdateTaskPlanItem, ItemAt
<1>4. updated.plan = q /\ Ok(updated) = updated /\ Error(st) = State(p, d, f, "error")
  BY StateFields
<1>5. IF Accepted(d) THEN saved = State(q, d, Compile(d), "ok") ELSE saved = State(q, d, f, "error")
  <2> HIDE DEF q
  <2>1. Accepted(d) => Compilable(d)
    BY DEF Accepted
  <2>2. CASE Accepted(d)
    BY <2>1, <2>2, StrictSaves
  <2>3. CASE ~ Accepted(d)
    BY <2>3, StrictSaves
  <2> QED
    BY <2>2, <2>3
<1>6. b = [q EXCEPT ![i].status = "blocked"]
  BY DEF Blocked
<1> HIDE DEF st, i, q, b, saved, result
<1>7. CASE Accepted(d)
  <2>1. saved.outcome = "ok" /\ saved = State(q, d, Compile(d), "ok")
    BY <1>5, <1>7, StateFields
  <2> QED
    BY <1>3, <1>4, <1>7, <2>1 DEF st, i, q, b, result
<1>8. CASE ~ Accepted(d)
  <2>1. saved.outcome = "error" /\ saved = State(q, d, f, "error")
    BY <1>5, <1>8, StateFields
  <2>2. [State(q, d, f, "error") EXCEPT !.plan[i].status = "blocked"]
          = [State(q, d, f, "error") EXCEPT !.plan = b]
    BY <1>6 DEF State
  <2>3. [State(q, d, f, "error") EXCEPT !.plan = b] = State(b, d, f, "error")
    BY DEF State
  <2>4. [saved EXCEPT !.plan[i].status = "blocked"] = State(b, d, f, "error")
    BY <2>1, <2>2, <2>3
  <2> QED
    BY <1>3, <1>4, <1>8, <2>1, <2>4 DEF st, i, q, b, result
<1> QED
  BY <1>7, <1>8

\* It leaves an open item, or there is no draft, or the draft has been accepted
\* and written.
LEMMA UpdateEffect ==
    ASSUME NEW p, NEW d, NEW f, NEW call, IsPlan(p),
           NEW result, result = UpdateTaskPlanItem(State(p, d, f, "ok"), call)
    PROVE  \/ result = State(p, d, f, "error")
           \/ \E q : /\ IsPlan(q)
                     /\ \/ /\ HasIncomplete(q) \/ d = None
                           /\ result = State(q, d, f, "ok")
                        \/ Accepted(d) /\ result = State(q, d, Compile(d), "ok")
                        \/ HasIncomplete(q) /\ result = State(q, d, f, "error")
<1>1. CASE ItemAt(p, call) = 0
  BY <1>1, UpdateOutcome
<1>2. CASE ItemAt(p, call) # 0
  <2>1. ~ IsCompleted(Updated(p, call)) => HasIncomplete(Updated(p, call))
    BY <1>2, ItemFound DEF IsCompleted, HasIncomplete
  <2> QED
    BY <1>2, <2>1, ItemFound, UpdateOutcome
<1> QED
  BY <1>1, <1>2

Readers == ToolNames \ (EditTools \cup {"create_task_plan", "update_task_plan_item"})

\* The other tools change nothing.
LEMMA ReadEffect ==
    ASSUME NEW p, NEW d, NEW f, NEW call, call.tool \in Readers
    PROVE  \E o : Apply(State(p, d, f, "ok"), call) = State(p, d, f, o)
<1> DEFINE st == State(p, d, f, "ok")
           Idle(r) == r \in {Ok(st), Error(st), Raised(st)}
<1>1. Idle(Ok(st)) /\ Idle(Error(st)) /\ Idle(Raised(st))
  OBVIOUS
<1> HIDE DEF Idle, st
<1>2. CASE call.tool = "get_flow_yaml"
  <2>1. Idle(GetFlowYaml(st))
    BY <1>1 DEF GetFlowYaml
  <2>2. Apply(st, call) = GetFlowYaml(st)
    BY <1>2 DEF Apply
  <2> QED
    BY <2>1, <2>2, StateFields DEF Idle, st
<1>3. CASE call.tool = "analyze_flow_connectivity"
  <2>1. Idle(Analyze(st))
    BY <1>1 DEF Analyze
  <2>2. Apply(st, call) = Analyze(st)
    BY <1>3 DEF Apply
  <2> QED
    BY <2>1, <2>2, StateFields DEF Idle, st
<1>4. CASE call.tool \in {"request_clarification", "malformed", "unknown"}
  <2>1. Idle(Apply(st, call))
    BY <1>1, <1>4 DEF Apply
  <2> QED
    BY <2>1, StateFields DEF Idle, st
<1> QED
  BY <1>2, <1>3, <1>4 DEF Readers, ToolNames, EditTools

\* No flow is the absent value.
NoneIsNoFlow == \A nodes, edges : [nodes |-> nodes, edges |-> edges] # None

Saved(doc, f) == f # None /\ SameFlow(Compile(doc), f)

LEMMA CompiledIsSaved ==
    ASSUME NoneIsNoFlow, NEW doc
    PROVE  Saved(doc, Compile(doc))
<1>1. Compile(doc) # None
  BY DEF NoneIsNoFlow, Compile
<1> QED
  BY <1>1 DEF Saved, SameFlow

\* What any tool does: the file changes only with the document that is the draft
\* from then on, and only if that is accepted.
LEMMA ToolEffect ==
    ASSUME NEW p, NEW d, NEW f, NEW call, IsPlan(p), call.tool \in ToolNames,
           call.tool = "create_task_plan" =>
               call.items \in Seq(ToSet(call.items)) /\ call.items # << >>,
           NEW result, result = Apply(State(p, d, f, "ok"), call)
    PROVE  \E q, e, g, o :
              /\ result = State(q, e, g, o)
              /\ IsPlan(q)
              /\ \/ g = f
                 \/ Accepted(e) /\ g = Compile(e) /\ o = "ok"
<1>1. CASE call.tool \in EditTools
  <2>1. CASE result \in {State(p, d, f, "error"), State(p, d, f, "raised")}
    BY <2>1
  <2>2. CASE \E doc : result = Save(State(p, d, f, "ok"), doc, "edit")
    <3>1. PICK doc : result = Save(State(p, d, f, "ok"), doc, "edit")
      BY <2>2
    <3> QED
      BY <3>1, EditSaves
  <2> QED
    BY <1>1, <2>1, <2>2, EditEffect
<1>2. CASE call.tool = "create_task_plan"
  <2>1. result = CreateTaskPlan(State(p, d, f, "ok"), call)
    BY <1>2 DEF Apply
  <2> QED
    BY <1>2, <2>1, CreateEffect
<1>3. CASE call.tool = "update_task_plan_item"
  <2>1. result = UpdateTaskPlanItem(State(p, d, f, "ok"), call)
    BY <1>3 DEF Apply
  <2> QED
    BY <2>1, UpdateEffect
<1>4. CASE call.tool \in Readers
  BY <1>4, ReadEffect
<1> QED
  BY <1>1, <1>2, <1>3, <1>4 DEF Readers

\* The batch and the call to be executed next.
LEMMA CallToExecute ==
    ASSUME AnswersInvariant, PlansAreLists, Executing
    PROVE  /\ Len(calls) \in Nat /\ DOMAIN calls = 1 .. Len(calls)
           /\ work.next \in 1 .. Len(calls)
           /\ calls[work.next].tool \in ToolNames
           /\ calls[work.next].tool = "create_task_plan" =>
                 /\ calls[work.next].items \in Seq(ToSet(calls[work.next].items))
                 /\ calls[work.next].items # << >>
           /\ IsPlan(work.plan)
           /\ Result = Apply(State(work.plan, work.draft, file, "ok"), calls[work.next])
<1>1. Len(calls) \in Nat /\ DOMAIN calls = 1 .. Len(calls)
  BY CallsAreASequence
<1>2. work.next \in 1 .. Len(calls)
  BY <1>1 DEF AnswersInvariant, BatchAnswers, Executing
<1>3. calls \in Batches
  BY <1>1, <1>2 DEF AnswersInvariant
<1>4. calls[work.next] \in ToSet(calls)
  BY <1>1, <1>2 DEF ToSet
<1>5. IsPlan(work.plan)
  BY DEF PlansAreLists, Executing
<1>6. Result = Apply(State(work.plan, work.draft, file, "ok"), calls[work.next])
  BY DEF Result, State
<1> QED
  BY <1>1, <1>2, <1>3, <1>4, <1>5, <1>6, AgentAssumption

\* Every step keeps the plans lists of items.
LEMMA RunToolResult ==
    ASSUME AnswersInvariant, PlansAreLists, RunTool
    PROVE  \E p, d, f, o :
              /\ Result = State(p, d, f, o) /\ file' = f
              /\ IsPlan(p)
              /\ \/ f = file
                 \/ Accepted(d) /\ f = Compile(d) /\ o = "ok"
              /\ \/ node' = "failed" /\ o = "raised"
                 \/ /\ node' = "tool_exec" /\ o # "raised"
                    /\ work'.plan = p /\ work'.draft = d /\ work'.next = work.next + 1
<1>1. /\ Executing /\ node = "tool_exec"
      /\ file' = Result.file
      /\ IF Result.outcome = "raised" THEN node' = "failed"
                                      ELSE node' = node /\ work' = Merge(Result)
  BY DEF RunTool, Executing
<1>2. PICK p, d, f, o : /\ Result = State(p, d, f, o) /\ IsPlan(p)
                        /\ \/ f = file
                           \/ Accepted(d) /\ f = Compile(d) /\ o = "ok"
  BY <1>1, CallToExecute, ToolEffect
<1>3. Result.plan = p /\ Result.draft = d /\ Result.file = f /\ Result.outcome = o
  BY <1>2, StateFields
<1>4. /\ Merge(Result).plan = p /\ Merge(Result).draft = d
      /\ Merge(Result).next = work.next + 1
  BY <1>3 DEF Merge
<1> QED
  BY <1>1, <1>2, <1>3, <1>4

LEMMA StepPlans == AnswersInvariant /\ PlansAreLists /\ [Next]_vars => PlansAreLists'
<1> SUFFICES ASSUME AnswersInvariant, PlansAreLists, [Next]_vars PROVE PlansAreLists'
  OBVIOUS
<1> USE DEF PlansAreLists
<1>1. ASSUME plan' = plan, node' # "tool_exec" \/ work'.plan \in {plan, work.plan},
             node = "tool_exec" \/ node' # "tool_exec" \/ work'.plan = plan
      PROVE  PlansAreLists'
  BY <1>1 DEF IsPlan
<1>2. ASSUME NEW batch \in Batches, CallTools(batch) PROVE PlansAreLists'
  BY <1>1, <1>2 DEF CallTools, Goto, Fresh, Nodes
<1>3. CASE Answer
  BY <1>1, <1>3 DEF Answer, Goto
<1>4. CASE Remind \/ Finish \/ Exhausted \/ Prompt \/ Reply
  BY <1>1, <1>4 DEF Remind, Finish, Exhausted, Prompt, Reply, Goto, state
<1>5. CASE RunTool
  <2>1. plan' = plan
    BY <1>5 DEF RunTool, state
  <2> QED
    BY <1>5, <2>1, RunToolResult DEF IsPlan
<1>6. CASE ToolsDone
  <2>1. node = "tool_exec" /\ plan' = work.plan /\ node' # "tool_exec"
    BY <1>6 DEF ToolsDone, Goto
  <2> QED
    BY <2>1 DEF IsPlan
<1>7. CASE Crash
  <2>1. plan' = plan /\ node' = node /\ (node = "tool_exec" => work'.plan = plan)
    BY <1>7 DEF Crash, Fresh, state
  <2> QED
    BY <2>1 DEF IsPlan
<1>8. CASE UNCHANGED vars
  BY <1>8 DEF vars, IsPlan
<1> QED
  BY <1>2, <1>3, <1>4, <1>5, <1>6, <1>7, <1>8 DEF Next, Step

LEMMA PlansStayLists == Safety => []PlansAreLists
<1>1. Init => PlansAreLists
  BY DEF Init, PlansAreLists, IsPlan
<1> QED
  BY <1>1, StepPlans, AnswersAreCounted, PTL DEF Safety

-----------------------------------------------------------------------------
(***************************************************************************)
(* The final answer.                                                       *)
(***************************************************************************)
\* A call keeps the draft guarded, whatever the file is.
LEMMA CallKeepsGuard ==
    ASSUME NEW p, NEW d, NEW l \in BOOLEAN, NEW f, NEW call, IsPlan(p), call.tool \in ToolNames,
           call.tool = "create_task_plan" =>
               call.items \in Seq(ToSet(call.items)) /\ call.items # << >>,
           Guarded(p, d, l),
           NEW q, NEW e, NEW g, NEW o, State(q, e, g, o) = Apply(State(p, d, f, "ok"), call)
    PROVE  Guarded(q, e, ~ HasIncomplete(q) /\ (l \/ e # d))
<1> DEFINE Goal == Guarded(q, e, ~ HasIncomplete(q) /\ (l \/ e # d))
<1>0. \A a, b, c, x : State(q, e, g, o) = State(a, b, c, x) => q = a /\ e = b
  BY StateFields
<1>a. ASSUME q = p PROVE Goal
  BY <1>a DEF Guarded
<1>b. ASSUME HasIncomplete(q) \/ e = None \/ Accepted(e) PROVE Goal
  BY <1>b DEF Guarded
<1> HIDE DEF Goal
<1>1. ASSUME call.tool \in EditTools PROVE Goal
  <2>1. CASE State(q, e, g, o) \in {State(p, d, f, "error"), State(p, d, f, "raised")}
    BY <1>0, <1>a, <2>1
  <2>2. ASSUME NEW doc, State(q, e, g, o) = Save(State(p, d, f, "ok"), doc, "edit")
        PROVE  Goal
    BY <1>0, <1>a, <2>2, EditSaves
  <2> QED
    BY <1>1, <2>1, <2>2, EditEffect
<1>2. ASSUME call.tool = "create_task_plan" PROVE Goal
  <2>1. State(q, e, g, o) = CreateTaskPlan(State(p, d, f, "ok"), call)
    BY <1>2 DEF Apply
  <2> QED
    BY <1>0, <1>b, <1>2, <2>1, CreateEffect
<1>3. ASSUME call.tool = "update_task_plan_item" PROVE Goal
  <2>1. State(q, e, g, o) = UpdateTaskPlanItem(State(p, d, f, "ok"), call)
    BY <1>3 DEF Apply
  <2>2. CASE State(q, e, g, o) = State(p, d, f, "error")
    BY <1>0, <1>a, <2>2
  <2>3. ASSUME NEW r, \/ /\ HasIncomplete(r) \/ d = None
                         /\ State(q, e, g, o) = State(r, d, f, "ok")
                      \/ Accepted(d) /\ State(q, e, g, o) = State(r, d, Compile(d), "ok")
                      \/ HasIncomplete(r) /\ State(q, e, g, o) = State(r, d, f, "error")
        PROVE  Goal
    BY <1>0, <1>b, <2>3
  <2> QED
    BY <2>1, <2>2, <2>3, UpdateEffect
<1>4. ASSUME call.tool \in Readers PROVE Goal
  BY <1>0, <1>a, <1>4, ReadEffect
<1> QED
  BY <1>1, <1>2, <1>3, <1>4 DEF Goal, Readers

\* The flag is a truth value, in the checkpoint and in the batch.
LateIsBoolean == late \in BOOLEAN /\ work.late \in BOOLEAN

\* Executing a call keeps the invariant.
LEMMA RunToolSaves ==
    ASSUME AnswersInvariant, PlansAreLists, LateIsBoolean, SavesInvariant, RunTool
    PROVE  LateIsBoolean' /\ SavesInvariant'
<1>1. /\ Executing /\ node = "tool_exec"
      /\ UNCHANGED <<plan, draft, late>>
      /\ \/ node' = "failed" /\ work' = NoWork
         \/ node' = "tool_exec" /\ work' = Merge(Result)
  BY DEF RunTool, Executing, state
<1>2. Guarded(plan, draft, late)'
  BY <1>1 DEF SavesInvariant, Guarded
<1>3. CASE node' = "failed" /\ work' = NoWork
  BY <1>1, <1>2, <1>3 DEF SavesInvariant, FinalMeansDone, LateIsBoolean, NoWork
<1>4. CASE node' = "tool_exec" /\ work' = Merge(Result)
  <2>1. PICK p, d, f, o : Result = State(p, d, f, o)
    BY <1>1, CallToExecute, ToolEffect
  <2>2. work'.plan = p /\ work'.draft = d
        /\ work'.late = (~ HasIncomplete(p) /\ (work.late \/ d # work.draft))
    BY <1>4, <2>1, StateFields DEF Merge, EditedLate
  <2>3. Guarded(work.plan, work.draft, work.late) /\ work.late \in BOOLEAN
    BY <1>1 DEF SavesInvariant, LateIsBoolean
  <2>4. Guarded(p, d, ~ HasIncomplete(p) /\ (work.late \/ d # work.draft))
    BY <1>1, <2>1, <2>3, CallToExecute, CallKeepsGuard
  <2>5. Guarded(work.plan, work.draft, work.late)' /\ work'.late \in BOOLEAN
    BY <2>2, <2>4 DEF Guarded
  <2> QED
    BY <1>1, <1>2, <1>4, <2>5 DEF SavesInvariant, FinalMeansDone, LateIsBoolean
<1> QED
  BY <1>1, <1>3, <1>4

\* Every step keeps it.
LEMMA StepSaves ==
    ASSUME AnswersInvariant, PlansAreLists, LateIsBoolean, SavesInvariant, [Next]_vars
    PROVE  LateIsBoolean' /\ SavesInvariant'
<1> USE DEF Running, LateIsBoolean
<1>a. ASSUME UNCHANGED <<plan, draft, late>>, node' # "final_response" \/ ~ HasIncomplete(plan),
             \/ node' # "tool_exec" /\ work'.late \in {work.late, FALSE}
             \/ work'.plan = plan /\ work'.draft = draft /\ work'.late = late
             \/ node = "tool_exec" /\ UNCHANGED work
      PROVE  LateIsBoolean' /\ SavesInvariant'
  BY <1>a DEF SavesInvariant, FinalMeansDone, Guarded
<1>1. ASSUME NEW batch \in Batches, CallTools(batch)
      PROVE  LateIsBoolean' /\ SavesInvariant'
  BY <1>a, <1>1 DEF CallTools, Goto, Fresh
<1>2. CASE Answer
  BY <1>a, <1>2 DEF Answer, Goto
<1>3. CASE Remind \/ Finish \/ Prompt \/ Reply
  BY <1>a, <1>3 DEF Remind, Finish, Prompt, Reply, Goto, state
<1>4. CASE RunTool
  BY <1>4, RunToolSaves
<1>5. CASE ToolsDone
  <2>1. /\ node = "tool_exec" /\ node' \in {"clarify_interrupt", "llm_call"}
        /\ plan' = work.plan /\ draft' = work.draft /\ late' = work.late /\ work' = NoWork
    BY <1>5 DEF ToolsDone, Goto
  <2>2. Guarded(work.plan, work.draft, work.late)
    BY <2>1 DEF SavesInvariant
  <2> QED
    BY <2>1, <2>2 DEF SavesInvariant, FinalMeansDone, Guarded, NoWork
<1>6. CASE Exhausted
  BY <1>a, <1>6 DEF Exhausted, state, NoWork
<1>7. CASE Crash
  <2>1. UNCHANGED <<node, plan, draft, late>> /\ (work' = IF node = "tool_exec" THEN Fresh(calls) ELSE work)
    BY <1>7 DEF Crash, state
  <2>2. node = "final_response" => ~ HasIncomplete(plan)
    BY DEF SavesInvariant, FinalMeansDone
  <2> QED
    BY <1>a, <2>1, <2>2 DEF Fresh
<1>8. CASE UNCHANGED vars
  BY <1>8 DEF vars, SavesInvariant, FinalMeansDone, Guarded
<1> QED
  BY <1>1, <1>2, <1>3, <1>4, <1>5, <1>6, <1>7, <1>8 DEF Next, Step

\* A draft the validator refuses has an open item of the plan beside it, or was edited
\* when none was open (planning_tools.py, update_task_plan_item; dsl_tools.py,
\* save_document_to_target): no batch, crash or second execution leaves another.
THEOREM SavesAreGuarded == Safety => []SavesInvariant
<1>1. Init => LateIsBoolean /\ SavesInvariant
  <2>1. NoWork.late = FALSE
    BY DEF NoWork
  <2> QED
    BY <2>1, Zenon DEF Init, LateIsBoolean, SavesInvariant, FinalMeansDone, Guarded
<1>2. /\ AnswersInvariant /\ PlansAreLists /\ (LateIsBoolean /\ SavesInvariant) /\ [Next]_vars
      => (LateIsBoolean /\ SavesInvariant)'
  BY StepSaves
<1> QED
  BY <1>1, <1>2, AnswersAreCounted, PlansStayLists, PTL DEF Safety

-----------------------------------------------------------------------------
(***************************************************************************)
(* The file follows the draft, also when a batch is executed again on the  *)
(* file the first execution left.  With a draft, what a call does to plan  *)
(* and draft does not depend on the file, so the second execution takes    *)
(* the course of the first.  Where the file is ahead of the draft, the     *)
(* call that wrote it is still to come, and will write it once more.       *)
(***************************************************************************)
InSync(d, f) == d # None /\ Accepted(d) => Saved(d, f)

\* A call keeps draft and file in step.
LEMMA CallKeepsSync ==
    ASSUME NEW p, NEW d, NEW f, NEW call, IsPlan(p), call.tool \in ToolNames,
           call.tool = "create_task_plan" =>
               call.items \in Seq(ToSet(call.items)) /\ call.items # << >>,
           NoneIsNoFlow, InSync(d, f),
           NEW q, NEW e, NEW g, NEW o, Apply(State(p, d, f, "ok"), call) = State(q, e, g, o)
    PROVE  InSync(e, g)
<1>0. \A a, b, c, x : State(q, e, g, o) = State(a, b, c, x) => q = a /\ e = b /\ g = c /\ o = x
  BY StateFields
<1>a. ASSUME NEW a, NEW b, State(q, e, g, o) = State(a, d, f, b) PROVE InSync(e, g)
  BY <1>0, <1>a
<1>b. ASSUME NEW a, NEW b, NEW doc, State(q, e, g, o) = State(a, doc, Compile(doc), b)
      PROVE  InSync(e, g)
  BY <1>0, <1>b, CompiledIsSaved DEF InSync
<1>1. CASE call.tool \in EditTools
  <2>1. CASE State(q, e, g, o) \in {State(p, d, f, "error"), State(p, d, f, "raised")}
    BY <1>a, <2>1
  <2>2. ASSUME NEW doc, State(q, e, g, o) = Save(State(p, d, f, "ok"), doc, "edit")
        PROVE  InSync(e, g)
    <3>1. CASE ~ Accepted(doc) /\ State(q, e, g, o) \in {State(p, doc, f, "ok"), State(p, doc, f, "error")}
      BY <1>0, <3>1 DEF InSync
    <3> QED
      BY <1>a, <1>b, <2>2, <3>1, EditSaves
  <2> QED
    BY <1>1, <2>1, <2>2, EditEffect
<1>2. CASE call.tool = "create_task_plan"
  <2>1. State(q, e, g, o) = CreateTaskPlan(State(p, d, f, "ok"), call)
    BY <1>2 DEF Apply
  <2> QED
    BY <1>a, <1>2, <2>1, CreateEffect
<1>3. CASE call.tool = "update_task_plan_item"
  <2>1. State(q, e, g, o) = UpdateTaskPlanItem(State(p, d, f, "ok"), call)
    BY <1>3 DEF Apply
  <2> QED
    BY <1>a, <1>b, <2>1, UpdateEffect
<1>4. CASE call.tool \in Readers
  BY <1>a, <1>4, ReadEffect
<1> QED
  BY <1>1, <1>2, <1>3, <1>4 DEF Readers

\* A call that leaves the file, or writes it, whatever the file is.
Keeps(p, d, call, q, e) ==
    \A f : LET result == Apply(State(p, d, f, "ok"), call)
           IN  result.plan = q /\ result.draft = e /\ result.file = f
Writes(p, d, call, q, e) ==
    \A f : LET result == Apply(State(p, d, f, "ok"), call)
           IN  result.plan = q /\ result.draft = e /\ result.file = Compile(e)

\* With a draft, an editing tool saves a document that does not depend on the file.
LEMMA EditOnDraft ==
    ASSUME NEW p, NEW d, d # None, NEW call, call.tool \in EditTools
    PROVE  \/ \A f : Apply(State(p, d, f, "ok"), call) = State(p, d, f, "error")
           \/ \A f : Apply(State(p, d, f, "ok"), call) = State(p, d, f, "raised")
           \/ \E doc : \A f : Apply(State(p, d, f, "ok"), call)
                                = Save(State(p, d, f, "ok"), doc, "edit")
<1> DEFINE st(f) == State(p, d, f, "ok")
           Goal == \/ \A f : Apply(st(f), call) = State(p, d, f, "error")
                   \/ \A f : Apply(st(f), call) = State(p, d, f, "raised")
                   \/ \E doc : \A f : Apply(st(f), call) = Save(st(f), doc, "edit")
<1>1. \A f : /\ LoadDocument(st(f)) = d
             /\ Planned(st(f)) <=> p # << >>
             /\ Error(st(f)) = State(p, d, f, "error") /\ Raised(st(f)) = State(p, d, f, "raised")
  BY StateFields DEF LoadDocument, Planned
<1> HIDE DEF st
<1>2. ASSUME NEW doc, \A f : Apply(st(f), call) = Edit(st(f), doc) PROVE Goal
  <2>1. \A f : Edit(st(f), doc) = IF p # << >> THEN Save(st(f), doc, "edit") ELSE State(p, d, f, "error")
    BY <1>1 DEF Edit
  <2> QED
    BY <1>2, <2>1
<1>3. ASSUME call.tool = "upsert_step" PROVE Goal
  <2> DEFINE incoming == call.incoming
             placed   == ReplaceStep(d, call.step, call.trigger)
             source   == FindStep(placed, incoming.source)
             linked   == UpsertRoute(placed, Route(incoming.source, call.step.id, incoming.handle))
             pressed  == PointButton(placed, incoming.source, incoming.text, call.step.id)
             refused  == UpsertRefused(st(None), d, call)
  <2>1. \A f : Apply(st(f), call) = UpsertStep(st(f), call)
    BY <1>3 DEF Apply
  <2>2. \A f : UpsertStep(st(f), call) =
          IF UpsertRefused(st(f), d, call) THEN Error(st(f))
          ELSE IF incoming = None THEN Save(st(f), placed, "edit")
          ELSE IF incoming.via # "button" THEN Save(st(f), linked, "edit")
          ELSE IF source = None \/ ~ HasButton(source, incoming.text) THEN Raised(st(f))
          ELSE Save(st(f), pressed, "edit")
    BY <1>1 DEF UpsertStep
  <2>3. \A f : UpsertRefused(st(f), d, call) <=> refused
    BY <1>1 DEF UpsertRefused
  <2> HIDE DEF incoming, placed, source, linked, pressed, refused
  <2>4. CASE refused
    BY <1>1, <2>1, <2>2, <2>3, <2>4
  <2>5. CASE ~ refused /\ incoming = None
    BY <2>1, <2>2, <2>3, <2>5
  <2>6. CASE ~ refused /\ incoming # None /\ incoming.via # "button"
    BY <2>1, <2>2, <2>3, <2>6
  <2>7. CASE ~ refused /\ incoming # None /\ incoming.via = "button"
    <3>1. CASE source = None \/ ~ HasButton(source, incoming.text)
      BY <1>1, <2>1, <2>2, <2>3, <2>7, <3>1
    <3>2. CASE ~ (source = None \/ ~ HasButton(source, incoming.text))
      BY <2>1, <2>2, <2>3, <2>7, <3>2
    <3> QED
      BY <3>1, <3>2
  <2> QED
    BY <2>4, <2>5, <2>6, <2>7
<1>4. ASSUME call.tool = "remove_step" PROVE Goal
  <2> DEFINE removed == RemoveStep(d, call.id)
  <2>1. \A f : Apply(st(f), call) = Edit(st(f), removed)
    BY <1>1, <1>4 DEF Apply, RemoveStepTool
  <2> QED
    BY <1>2, <2>1
<1>5. ASSUME call.tool = "connect_steps" PROVE Goal
  <2> DEFINE connected == FoldLeft(UpsertRoute, d, call.routes)
  <2>1. \A f : Apply(st(f), call) = ConnectSteps(st(f), call)
    BY <1>5 DEF Apply
  <2>2. \A f : ConnectSteps(st(f), call) = Edit(st(f), connected)
    BY <1>1 DEF ConnectSteps
  <2> HIDE DEF connected
  <2> QED
    BY <1>2, <2>1, <2>2
<1>6. ASSUME call.tool = "patch_step_block" PROVE Goal
  <2> DEFINE existing == FindStep(d, call.id)
             patched == ReplaceStep(d, [DeepMerge(existing, call.patch) EXCEPT !.id = call.id], "kind")
  <2>1. \A f : Apply(st(f), call) = PatchStepBlock(st(f), call)
    BY <1>6 DEF Apply
  <2>2. \A f : PatchStepBlock(st(f), call) = IF existing = None THEN Error(st(f)) ELSE Edit(st(f), patched)
    BY <1>1 DEF PatchStepBlock
  <2> HIDE DEF existing, patched
  <2> QED
    BY <1>1, <1>2, <2>1, <2>2
<1>7. ASSUME call.tool = "save_flow_yaml" PROVE Goal
  <2>1. \A f : Apply(st(f), call) = SaveFlowYaml(st(f), call)
    BY <1>7 DEF Apply
  <2>2. \A f : SaveFlowYaml(st(f), call) = IF call.doc = None THEN Error(st(f)) ELSE Edit(st(f), call.doc)
    BY DEF SaveFlowYaml
  <2> QED
    BY <1>1, <1>2, <2>1, <2>2
<1>8. Goal
  BY <1>3, <1>4, <1>5, <1>6, <1>7 DEF EditTools
<1> QED
  BY <1>8 DEF st

\* With a draft, what a call does to plan and draft, and whether it writes the
\* file, does not depend on the file (dsl_tools.py, load_or_create_document).
LEMMA DraftDecides ==
    ASSUME NEW p, NEW d, d # None, IsPlan(p), NEW call, call.tool \in ToolNames,
           call.tool = "create_task_plan" =>
               call.items \in Seq(ToSet(call.items)) /\ call.items # << >>
    PROVE  \E q, e : Keeps(p, d, call, q, e) \/ Writes(p, d, call, q, e)
<1> DEFINE apply(f) == Apply(State(p, d, f, "ok"), call)
           Goal == \E q, e : Keeps(p, d, call, q, e) \/ Writes(p, d, call, q, e)
<1>1. ASSUME NEW q, NEW e, \A f : \E o : apply(f) = State(q, e, f, o) PROVE Goal
  <2>1. \A f : apply(f).plan = q /\ apply(f).draft = e /\ apply(f).file = f
    BY <1>1, StateFields
  <2>2. Keeps(p, d, call, q, e)
    BY <2>1 DEF Keeps
  <2> QED
    BY <2>2
<1>2. ASSUME NEW q, NEW e, \A f : \E o : apply(f) = State(q, e, Compile(e), o) PROVE Goal
  <2>1. \A f : apply(f).plan = q /\ apply(f).draft = e /\ apply(f).file = Compile(e)
    BY <1>2, StateFields
  <2>2. Writes(p, d, call, q, e)
    BY <2>1 DEF Writes
  <2> QED
    BY <2>2
<1>3. ASSUME call.tool \in EditTools PROVE Goal
  <2>1. CASE \A f : apply(f) = State(p, d, f, "error")
    BY <1>1, <2>1
  <2>2. CASE \A f : apply(f) = State(p, d, f, "raised")
    BY <1>1, <2>2
  <2>3. ASSUME NEW doc, \A f : apply(f) = Save(State(p, d, f, "ok"), doc, "edit") PROVE Goal
    <3>1. CASE ~ Compilable(doc)
      <4>1. \A f : apply(f) = State(p, d, f, "error")
        <5> SUFFICES ASSUME NEW f PROVE apply(f) = State(p, d, f, "error")
          OBVIOUS
        <5>1. Accepted(doc) => Compilable(doc)
          BY DEF Accepted
        <5> QED
          BY <2>3, <3>1, <5>1, EditSaves
      <4> HIDE DEF apply
      <4> QED
        BY <1>1, <4>1
    <3>2. CASE Accepted(doc)
      <4>1. \A f : apply(f) = State(p, doc, Compile(doc), "ok")
        <5> SUFFICES ASSUME NEW f PROVE apply(f) = State(p, doc, Compile(doc), "ok")
          OBVIOUS
        <5>1. Accepted(doc) => Compilable(doc)
          BY DEF Accepted
        <5> QED
          BY <2>3, <3>2, <5>1, EditSaves
      <4> HIDE DEF apply
      <4> QED
        BY <1>2, <4>1
    <3>3. CASE Compilable(doc) /\ ~ Accepted(doc)
      <4>1. \A f : apply(f) \in {State(p, doc, f, "ok"), State(p, doc, f, "error")}
        <5> SUFFICES ASSUME NEW f PROVE apply(f) \in {State(p, doc, f, "ok"), State(p, doc, f, "error")}
          OBVIOUS
        <5> QED
          BY <2>3, <3>3, EditSaves
      <4> HIDE DEF apply
      <4> QED
        BY <1>1, <4>1
    <3> QED
      BY <3>1, <3>2, <3>3
  <2>4. \/ \A f : apply(f) = State(p, d, f, "error")
        \/ \A f : apply(f) = State(p, d, f, "raised")
        \/ \E doc : \A f : apply(f) = Save(State(p, d, f, "ok"), doc, "edit")
    BY <1>3, EditOnDraft
  <2> QED
    BY <2>1, <2>2, <2>3, <2>4
<1>4. ASSUME call.tool = "create_task_plan" PROVE Goal
  <2> DEFINE q == [i \in DOMAIN call.items |-> [id |-> call.items[i], status |-> "pending"]]
  <2>1. \A f : apply(f) = Ok([State(p, d, f, "ok") EXCEPT !.plan = q])
    BY <1>4 DEF Apply, CreateTaskPlan
  <2> HIDE DEF q
  <2>2. \A f : [State(p, d, f, "ok") EXCEPT !.plan = q] = State(q, d, f, "ok")
    BY DEF State
  <2>3. \A f : apply(f) = State(q, d, f, "ok")
    BY <2>1, <2>2, StateFields
  <2> HIDE DEF apply
  <2> QED
    BY <1>1, <2>3
<1>5. ASSUME call.tool = "update_task_plan_item" PROVE Goal
  <2>1. \A f : apply(f) = UpdateTaskPlanItem(State(p, d, f, "ok"), call)
    BY <1>5 DEF Apply
  <2>2. \A f : apply(f) =
             IF ItemAt(p, call) = 0 THEN State(p, d, f, "error")
             ELSE IF ~ IsCompleted(Updated(p, call)) \/ d = None THEN State(Updated(p, call), d, f, "ok")
             ELSE IF Accepted(d) THEN State(Updated(p, call), d, Compile(d), "ok")
             ELSE State(Blocked(p, call), d, f, "error")
    BY <2>1, UpdateOutcome
  <2> HIDE DEF apply
  <2>3. CASE ItemAt(p, call) = 0
    BY <1>1, <2>2, <2>3
  <2>4. CASE ItemAt(p, call) # 0 /\ ~ IsCompleted(Updated(p, call))
    BY <1>1, <2>2, <2>4
  <2>5. CASE ItemAt(p, call) # 0 /\ IsCompleted(Updated(p, call)) /\ Accepted(d)
    BY <1>2, <2>2, <2>5
  <2>6. CASE ItemAt(p, call) # 0 /\ IsCompleted(Updated(p, call)) /\ ~ Accepted(d)
    BY <1>1, <2>2, <2>6
  <2> QED
    BY <2>3, <2>4, <2>5, <2>6
<1>6. ASSUME call.tool \in Readers PROVE Goal
  <2>1. \A f : \E o : apply(f) = State(p, d, f, o)
    BY <1>6, ReadEffect
  <2> HIDE DEF apply
  <2> QED
    BY <1>1, <2>1
<1> HIDE DEF Goal
<1>7. Goal
  BY <1>3, <1>4, <1>5, <1>6 DEF Readers
<1> QED
  BY <1>7 DEF Goal

\* The course an execution of batch takes from plan p and draft d: after the first
\* j calls the plan is P[j] and the draft D[j], and the calls in W write the file.
Course(batch, p, d, m, P, D, W) ==
    /\ P[0] = p /\ D[0] = d
    /\ \A j \in 1 .. m : IF j \in W
                         THEN Writes(P[j - 1], D[j - 1], batch[j], P[j], D[j])
                         ELSE Keeps(P[j - 1], D[j - 1], batch[j], P[j], D[j])

OnCourse(w, m, P, D) ==
    w.next - 1 \in 0 .. m /\ w.plan = P[w.next - 1] /\ w.draft = D[w.next - 1]

\* The file is that of the draft d, or was written by a call of S.
WrittenBy(S, D, f) == \E w \in S : f = Compile(D[w])

\* Executions follow a course as far as m calls.  Either the flow is still to be
\* imported there, or draft and file differ only by what calls to come will write.
Following(d, wk, f, m, P, D, W) ==
    \/ D[m] = None /\ (InSync(wk.draft, f) \/ OnCourse(wk, m, P, D))
    \/ /\ OnCourse(wk, m, P, D)
       /\ InSync(d, f) \/ WrittenBy(W, D, f)
       /\ InSync(wk.draft, f) \/ WrittenBy({w \in W : w >= wk.next}, D, f)

Replayed(batch, p, d, wk, f) ==
    \E m \in 0 .. Len(batch) : \E W \in SUBSET (1 .. m) : \E P, D :
        Course(batch, p, d, m, P, D, W) /\ Following(d, wk, f, m, P, D, W)

FileInvariant ==
    /\ node = "tool_exec" => Replayed(calls, plan, draft, work, file)
    /\ node \notin {"tool_exec", "failed"} => InSync(draft, file)

\* A course goes on for one more call.
LEMMA CourseGoesOn ==
    ASSUME NEW batch, NEW p, NEW d, NEW m \in Nat, NEW P, NEW D, NEW W \in SUBSET (1 .. m),
           Course(batch, p, d, m, P, D, W),
           NEW q, NEW e, \/ Keeps(P[m], D[m], batch[m + 1], q, e)
                         \/ Writes(P[m], D[m], batch[m + 1], q, e)
    PROVE  \E V \in SUBSET (1 .. m + 1) : \E Q, E :
              /\ Course(batch, p, d, m + 1, Q, E, V)
              /\ W \subseteq V
              /\ \A j \in 0 .. m : Q[j] = P[j] /\ E[j] = D[j]
<1> DEFINE Q == [j \in 0 .. m + 1 |-> IF j = m + 1 THEN q ELSE P[j]]
           E == [j \in 0 .. m + 1 |-> IF j = m + 1 THEN e ELSE D[j]]
           last == m + 1
<1>1. /\ \A j \in 0 .. m : Q[j] = P[j] /\ E[j] = D[j]
      /\ Q[last] = q /\ E[last] = e
      /\ last - 1 = m /\ last \notin 1 .. m /\ last \in Nat
      /\ \A j \in 1 .. m : j \in 0 .. m /\ j - 1 \in 0 .. m
      /\ 0 \in 0 .. m /\ m \in 0 .. m
      /\ 1 .. last = (1 .. m) \cup {last}
  OBVIOUS
<1>2. last = m + 1
  OBVIOUS
<1> HIDE DEF Q, E, last
<1>3. \A V : V \cap (1 .. m) = W =>
        /\ Q[0] = p /\ E[0] = d
        /\ \A j \in 1 .. m : IF j \in V
                             THEN Writes(Q[j - 1], E[j - 1], batch[j], Q[j], E[j])
                             ELSE Keeps(Q[j - 1], E[j - 1], batch[j], Q[j], E[j])
  BY <1>1 DEF Course
<1>4. ASSUME NEW V \in SUBSET (1 .. last), V \cap (1 .. m) = W,
             IF last \in V THEN Writes(Q[m], E[m], batch[last], Q[last], E[last])
                           ELSE Keeps(Q[m], E[m], batch[last], Q[last], E[last])
      PROVE  Course(batch, p, d, last, Q, E, V)
  BY <1>1, <1>3, <1>4 DEF Course
<1>5. CASE Keeps(P[m], D[m], batch[last], q, e)
  <2>1. Course(batch, p, d, last, Q, E, W)
    BY <1>1, <1>4, <1>5
  <2> QED
    BY <1>1, <1>2, <2>1
<1>6. CASE Writes(P[m], D[m], batch[last], q, e)
  <2>1. Course(batch, p, d, last, Q, E, W \cup {last})
    <3>1. (W \cup {last}) \cap (1 .. m) = W /\ W \cup {last} \in SUBSET (1 .. last)
      BY <1>1
    <3> QED
      BY <1>1, <1>4, <1>6, <3>1
  <2>2. W \cup {last} \in SUBSET (1 .. last)
    BY <1>1
  <2> QED
    BY <1>1, <1>2, <2>1, <2>2
<1> QED
  BY <1>2, <1>5, <1>6

\* What a call does on one file it does on every file.
LEMMA CallIsDecided ==
    ASSUME NEW p, NEW d, NEW call, NEW P, NEW D,
           NEW f, NEW q, NEW e, NEW g, NEW o,
           Apply(State(p, d, f, "ok"), call) = State(q, e, g, o)
    PROVE  /\ Keeps(p, d, call, P, D) => q = P /\ e = D /\ g = f
           /\ Writes(p, d, call, P, D) => q = P /\ e = D /\ g = Compile(D)
<1> DEFINE result == Apply(State(p, d, f, "ok"), call)
<1>1. result.plan = q /\ result.draft = e /\ result.file = g
  BY StateFields
<1>2. Keeps(p, d, call, P, D) => result.plan = P /\ result.draft = D /\ result.file = f
  BY DEF Keeps
<1>3. Writes(p, d, call, P, D) => result.plan = P /\ result.draft = D /\ result.file = Compile(D)
  BY DEF Writes
<1> QED
  BY <1>1, <1>2, <1>3

\* One call of an execution that follows a course, or imports the flow at its end.
LEMMA CallFollows ==
    ASSUME NEW batch, NEW p, NEW d, NEW m \in Nat, NEW P, NEW D, NEW W \in SUBSET (1 .. m),
           Course(batch, p, d, m, P, D, W), NoneIsNoFlow,
           NEW w, NEW v, NEW k \in 1 .. m + 1, w.next = k,
           IsPlan(w.plan), batch[k].tool \in ToolNames,
           batch[k].tool = "create_task_plan" =>
               batch[k].items \in Seq(ToSet(batch[k].items)) /\ batch[k].items # << >>,
           NEW f, NEW q, NEW e, NEW g, NEW o,
           Apply(State(w.plan, w.draft, f, "ok"), batch[k]) = State(q, e, g, o),
           v.plan = q, v.draft = e, v.next = k + 1,
           Following(d, w, f, m, P, D, W),
           D[m] = None \/ k # m + 1
    PROVE  Following(d, v, g, m, P, D, W)
<1>0. /\ k \in Nat /\ (k \in 1 .. m \/ k = m + 1) /\ (k + 1) - 1 = k
      /\ (k \in 1 .. m => k \in 0 .. m)
      /\ (m + 1) - 1 = m
  OBVIOUS
<1>1. InSync(w.draft, f) => InSync(e, g)
  BY CallKeepsSync
<1>2. ASSUME OnCourse(w, m, P, D), k \in 1 .. m
      PROVE  /\ OnCourse(v, m, P, D)
             /\ e = D[k]
             /\ k \in W => g = Compile(D[k])
             /\ k \notin W => g = f
  <2>1. q = P[k] /\ e = D[k] /\ (k \in W => g = Compile(D[k])) /\ (k \notin W => g = f)
    <3>1. w.plan = P[k - 1] /\ w.draft = D[k - 1]
      BY <1>2 DEF OnCourse
    <3>2. /\ k \in W => Writes(w.plan, w.draft, batch[k], P[k], D[k])
          /\ k \notin W => Keeps(w.plan, w.draft, batch[k], P[k], D[k])
      BY <1>2, <3>1 DEF Course
    <3>3. CASE k \in W
      <4>1. Writes(w.plan, w.draft, batch[k], P[k], D[k])
        BY <3>2, <3>3
      <4>2. q = P[k] /\ e = D[k] /\ g = Compile(D[k])
        BY <4>1, CallIsDecided
      <4> QED
        BY <3>3, <4>2
    <3>4. CASE k \notin W
      <4>1. Keeps(w.plan, w.draft, batch[k], P[k], D[k])
        BY <3>2, <3>4
      <4>2. q = P[k] /\ e = D[k] /\ g = f
        BY <4>1, CallIsDecided
      <4> QED
        BY <3>4, <4>2
    <3> QED
      BY <3>3, <3>4
  <2> QED
    BY <1>0, <1>2, <2>1 DEF OnCourse
<1>3. CASE D[m] = None
  <2>1. CASE InSync(w.draft, f)
    BY <1>1, <1>3, <2>1 DEF Following
  <2>2. CASE OnCourse(w, m, P, D)
    <3>1. CASE k \in 1 .. m
      BY <1>2, <1>3, <2>2, <3>1 DEF Following
    <3>2. CASE k = m + 1
      <4>1. w.draft = None
        BY <1>0, <1>3, <2>2, <3>2 DEF OnCourse
      <4> QED
        BY <1>1, <1>3, <4>1 DEF Following, InSync
    <3> QED
      BY <1>0, <3>1, <3>2
  <2> QED
    BY <1>3, <2>1, <2>2 DEF Following
<1>4. CASE D[m] # None
  <2>1. /\ k \in 1 .. m /\ OnCourse(w, m, P, D)
        /\ InSync(d, f) \/ WrittenBy(W, D, f)
        /\ InSync(w.draft, f) \/ WrittenBy({x \in W : x >= k}, D, f)
    BY <1>0, <1>4 DEF Following
  <2>2. CASE k \in W
    <3>1. g = Compile(D[k]) /\ e = D[k] /\ OnCourse(v, m, P, D)
      BY <1>2, <2>1, <2>2
    <3>2. InSync(e, g)
      BY <3>1, CompiledIsSaved DEF InSync
    <3>3. WrittenBy(W, D, g)
      BY <2>2, <3>1 DEF WrittenBy
    <3> QED
      BY <3>1, <3>2, <3>3 DEF Following
  <2>3. CASE k \notin W
    <3>1. g = f /\ e = D[k] /\ OnCourse(v, m, P, D)
      BY <1>2, <2>1, <2>3
    <3>2. \A x \in W : x >= k => x >= k + 1
      <4>1. \A x \in 1 .. m : x >= k => x = k \/ x >= k + 1
        BY <1>0
      <4> QED
        BY <2>3, <4>1
    <3>3. WrittenBy({x \in W : x >= k}, D, f) => WrittenBy({x \in W : x >= k + 1}, D, f)
      BY <3>2 DEF WrittenBy
    <3>4. InSync(e, g) \/ WrittenBy({x \in W : x >= v.next}, D, g)
      BY <1>1, <2>1, <3>1, <3>3
    <3> QED
      BY <2>1, <3>1, <3>4 DEF Following
  <2> QED
    BY <2>2, <2>3
<1> QED
  BY <1>3, <1>4

\* A longer course is followed as the shorter one was.
LEMMA FollowingGoesOn ==
    ASSUME NEW m \in Nat, NEW P, NEW D, NEW W \in SUBSET (1 .. m),
           NEW Q, NEW E, NEW V, W \subseteq V, \A j \in 0 .. m : Q[j] = P[j] /\ E[j] = D[j],
           D[m] # None, NEW d, NEW w, NEW f, Following(d, w, f, m, P, D, W)
    PROVE  Following(d, w, f, m + 1, Q, E, V)
<1>1. OnCourse(w, m + 1, Q, E)
  <2>1. OnCourse(w, m, P, D)
    BY DEF Following
  <2>2. \A j \in 0 .. m : j \in 0 .. m + 1
    OBVIOUS
  <2> QED
    BY <2>1, <2>2 DEF OnCourse
<1>2. \A j \in W : E[j] = D[j]
  <2>1. \A j \in 1 .. m : j \in 0 .. m
    OBVIOUS
  <2> QED
    BY <2>1
<1>3. WrittenBy(W, D, f) => WrittenBy(V, E, f)
  BY <1>2 DEF WrittenBy
<1>4. WrittenBy({x \in W : x >= w.next}, D, f) => WrittenBy({x \in V : x >= w.next}, E, f)
  BY <1>2 DEF WrittenBy
<1> QED
  BY <1>1, <1>3, <1>4 DEF Following

\* Executing a call keeps the replay on its way.
LEMMA RunToolReplays ==
    ASSUME AnswersInvariant, PlansAreLists, RunTool, NoneIsNoFlow, node' = "tool_exec",
           Replayed(calls, plan, draft, work, file)
    PROVE  Replayed(calls, plan, draft, work', file')
<1> DEFINE k == work.next
           n == Len(calls)
<1>1. Executing
  BY DEF RunTool
<1>2. /\ n \in Nat /\ k \in 1 .. n
      /\ calls[k].tool \in ToolNames /\ IsPlan(work.plan)
      /\ calls[k].tool = "create_task_plan" =>
             calls[k].items \in Seq(ToSet(calls[k].items)) /\ calls[k].items # << >>
      /\ Result = Apply(State(work.plan, work.draft, file, "ok"), calls[k])
  BY <1>1, CallToExecute
<1>3. PICK q, e, g, o : /\ Result = State(q, e, g, o) /\ file' = g
                        /\ work'.plan = q /\ work'.draft = e /\ work'.next = k + 1
  BY RunToolResult
<1>4. PICK m \in 0 .. n : \E W \in SUBSET (1 .. m) : \E P, D :
        Course(calls, plan, draft, m, P, D, W) /\ Following(draft, work, file, m, P, D, W)
  BY DEF Replayed
<1>5. PICK W \in SUBSET (1 .. m) : \E P, D :
        Course(calls, plan, draft, m, P, D, W) /\ Following(draft, work, file, m, P, D, W)
  BY <1>4
<1>6. PICK P, D : Course(calls, plan, draft, m, P, D, W) /\ Following(draft, work, file, m, P, D, W)
  BY <1>5
<1> HIDE DEF k, n
<1>7. CASE D[m] # None /\ k = m + 1
  <2>1. work.plan = P[m] /\ work.draft = D[m]
    <3>1. OnCourse(work, m, P, D) /\ (m + 1) - 1 = m
      BY <1>2, <1>4, <1>6, <1>7 DEF Following
    <3> QED
      BY <1>7, <3>1 DEF OnCourse, k
  <2>2. \E a, b : \/ Keeps(P[m], D[m], calls[m + 1], a, b)
                  \/ Writes(P[m], D[m], calls[m + 1], a, b)
    BY <1>2, <1>7, <2>1, DraftDecides
  <2>3. m \in Nat /\ m + 1 \in 0 .. n /\ k \in 1 .. (m + 1) + 1 /\ k # (m + 1) + 1
    BY <1>2, <1>4, <1>7
  <2>4. PICK V \in SUBSET (1 .. m + 1) : \E Q, E :
              /\ Course(calls, plan, draft, m + 1, Q, E, V)
              /\ W \subseteq V
              /\ \A j \in 0 .. m : Q[j] = P[j] /\ E[j] = D[j]
    BY <1>6, <2>2, <2>3, CourseGoesOn
  <2>5. PICK Q, E : /\ Course(calls, plan, draft, m + 1, Q, E, V)
                    /\ W \subseteq V
                    /\ \A j \in 0 .. m : Q[j] = P[j] /\ E[j] = D[j]
    BY <2>4
  <2>6. Following(draft, work, file, m + 1, Q, E, V)
    BY <1>6, <1>7, <2>3, <2>5, FollowingGoesOn
  <2>7. Following(draft, work', file', m + 1, Q, E, V)
    <3>1. m + 1 \in Nat
      BY <2>3
    <3> DEFINE l == m + 1
    <3>2. /\ V \in SUBSET (1 .. l) /\ k \in 1 .. l + 1 /\ k # l + 1 /\ work.next = k /\ l \in Nat
          /\ Course(calls, plan, draft, l, Q, E, V) /\ Following(draft, work, file, l, Q, E, V)
      BY <2>3, <2>5, <2>6, <3>1 DEF k
    <3>3. /\ Apply(State(work.plan, work.draft, file, "ok"), calls[k]) = State(q, e, g, o)
          /\ work'.plan = q /\ work'.draft = e /\ work'.next = k + 1
      BY <1>2, <1>3 DEF k
    <3> HIDE DEF l
    <3>4. Following(draft, work', g, l, Q, E, V)
      BY <1>2, <3>2, <3>3, CallFollows
    <3> QED
      BY <1>3, <3>4 DEF l
  <2> QED
    BY <2>3, <2>5, <2>7 DEF Replayed, n
<1>8. CASE D[m] = None \/ k # m + 1
  <2>1. CASE k \in 1 .. m + 1
    <3>1. Following(draft, work', file', m, P, D, W)
      <4>1. m \in Nat
        BY <1>4
      <4> QED
        BY <1>2, <1>3, <1>6, <1>8, <2>1, <4>1, CallFollows DEF k
    <3> QED
      BY <1>4, <1>6, <3>1 DEF Replayed, n
  <2>2. CASE k \notin 1 .. m + 1
    <3>1. ~ OnCourse(work, m, P, D)
      <4>1. k - 1 \notin 0 .. m
        BY <1>2, <1>4, <2>2
      <4> QED
        BY <4>1 DEF OnCourse, k
    <3>2. D[m] = None /\ InSync(work.draft, file)
      BY <1>6, <3>1 DEF Following
    <3>3. InSync(work'.draft, file')
      BY <1>2, <1>3, <3>2, CallKeepsSync DEF k
    <3> QED
      BY <1>4, <1>6, <3>2, <3>3 DEF Replayed, Following, n
  <2> QED
    BY <2>1, <2>2
<1> QED
  BY <1>7, <1>8

\* An execution begins at the draft of the checkpoint.
LEMMA FreshReplays ==
    ASSUME NEW batch, Len(batch) \in Nat, NEW p, NEW d, NEW f, NEW w,
           w.plan = p, w.draft = d, w.next = 1,
           NEW m \in 0 .. Len(batch), NEW W \in SUBSET (1 .. m), NEW P, NEW D,
           Course(batch, p, d, m, P, D, W),
           D[m] = None \/ InSync(d, f) \/ WrittenBy(W, D, f)
    PROVE  Replayed(batch, p, d, w, f)
<1>1. OnCourse(w, m, P, D)
  <2>1. 1 - 1 = 0 /\ 0 \in 0 .. m
    OBVIOUS
  <2> QED
    BY <2>1 DEF OnCourse, Course
<1>2. WrittenBy(W, D, f) => WrittenBy({x \in W : x >= w.next}, D, f)
  <2>1. \A x \in 1 .. m : x >= 1
    OBVIOUS
  <2> QED
    BY <2>1 DEF WrittenBy
<1>3. Following(d, w, f, m, P, D, W)
  BY <1>1, <1>2 DEF Following
<1> QED
  BY <1>3 DEF Replayed

\* A batch starts to be executed.
LEMMA BatchReplays ==
    ASSUME NEW batch, Len(batch) \in Nat, NEW p, NEW d, NEW f, InSync(d, f), NEW w,
           w.plan = p, w.draft = d, w.next = 1
    PROVE  Replayed(batch, p, d, w, f)
<1> DEFINE P == [j \in {0} |-> p]
           D == [j \in {0} |-> d]
<1>1. 1 .. 0 = {} /\ 0 \in 0 .. Len(batch) /\ {} \in SUBSET (1 .. 0)
  OBVIOUS
<1>2. Course(batch, p, d, 0, P, D, {})
  BY <1>1 DEF Course
<1> QED
  BY <1>1, <1>2, FreshReplays

\* The process died: the batch is executed again.
LEMMA CrashReplays ==
    ASSUME NEW batch, Len(batch) \in Nat, NEW p, NEW d, NEW f, NEW w, Replayed(batch, p, d, w, f),
           NEW v, v.plan = p, v.draft = d, v.next = 1
    PROVE  Replayed(batch, p, d, v, f)
<1>1. PICK m \in 0 .. Len(batch) : \E W \in SUBSET (1 .. m) : \E P, D :
        Course(batch, p, d, m, P, D, W) /\ Following(d, w, f, m, P, D, W)
  BY DEF Replayed
<1>2. PICK W \in SUBSET (1 .. m) : \E P, D :
        Course(batch, p, d, m, P, D, W) /\ Following(d, w, f, m, P, D, W)
  BY <1>1
<1>3. PICK P, D : Course(batch, p, d, m, P, D, W) /\ Following(d, w, f, m, P, D, W)
  BY <1>2
<1>4. D[m] = None \/ InSync(d, f) \/ WrittenBy(W, D, f)
  BY <1>3 DEF Following
<1> QED
  BY <1>3, <1>4, FreshReplays

\* At the end of the batch nothing is still to be written.
LEMMA ReplayEnds ==
    ASSUME NEW batch, Len(batch) \in Nat, NEW p, NEW d, NEW f, NEW w, Replayed(batch, p, d, w, f),
           w.next = Len(batch) + 1
    PROVE  InSync(w.draft, f)
<1> DEFINE n == Len(batch)
<1>1. PICK m \in 0 .. n : \E W \in SUBSET (1 .. m) : \E P, D :
        Course(batch, p, d, m, P, D, W) /\ Following(d, w, f, m, P, D, W)
  BY DEF Replayed
<1>2. PICK W \in SUBSET (1 .. m) : \E P, D :
        Course(batch, p, d, m, P, D, W) /\ Following(d, w, f, m, P, D, W)
  BY <1>1
<1>3. PICK P, D : Course(batch, p, d, m, P, D, W) /\ Following(d, w, f, m, P, D, W)
  BY <1>2
<1> HIDE DEF n
<1>4. CASE D[m] = None /\ OnCourse(w, m, P, D)
  <2>1. w.next = n + 1 /\ n \in Nat /\ w.next - 1 = n
    BY DEF n
  <2>2. n \in 0 .. m /\ w.draft = D[n]
    BY <1>4, <2>1 DEF OnCourse
  <2>3. n = m
    BY <2>1, <2>2
  <2> QED
    BY <1>4, <2>2, <2>3 DEF InSync
<1>5. CASE WrittenBy({x \in W : x >= w.next}, D, f)
  <2>1. n \in Nat /\ w.next = n + 1
    BY DEF n
  <2>2. \A x \in 1 .. m : ~ x >= n + 1
    BY <2>1
  <2>3. {x \in W : x >= w.next} = {}
    BY <2>1, <2>2
  <2> QED
    BY <1>5, <2>3 DEF WrittenBy
<1> QED
  BY <1>3, <1>4, <1>5 DEF Following

\* No flow exists before the first batch.
LEMMA InitFile == Init => FileInvariant
  BY DEF Init, FileInvariant, InSync

\* Every step keeps it.
LEMMA StepFile ==
    ASSUME AnswersInvariant, PlansAreLists, FileInvariant, [Next]_vars, NoneIsNoFlow
    PROVE  FileInvariant'
<1> USE DEF Running
<1> DEFINE Kept == UNCHANGED <<draft, file>>
<1>0. Len(calls) \in Nat /\ DOMAIN calls = 1 .. Len(calls)
  BY CallsAreASequence
<1>a. ASSUME Kept, node \notin {"tool_exec", "failed"}, node' # "tool_exec"
      PROVE  FileInvariant'
  BY <1>a DEF FileInvariant
<1>1. ASSUME NEW batch \in Batches, CallTools(batch)
      PROVE  FileInvariant'
  <2>1. /\ Len(batch) \in Nat /\ node = "llm_call" /\ node' = "tool_exec"
        /\ calls' = batch /\ work' = Fresh(batch) /\ UNCHANGED <<plan, draft, file>>
    BY <1>1, AgentAssumption DEF CallTools, Goto
  <2>2. work'.plan = plan /\ work'.draft = draft /\ work'.next = 1
    BY <2>1 DEF Fresh
  <2>3. InSync(draft, file)
    BY <2>1 DEF FileInvariant
  <2>4. Replayed(batch, plan, draft, work', file)
    BY <2>1, <2>2, <2>3, BatchReplays
  <2> QED
    BY <2>1, <2>4 DEF FileInvariant
<1>2. CASE Answer
  BY <1>a, <1>2 DEF Answer, Goto
<1>3. CASE Remind
  BY <1>a, <1>3 DEF Remind, Goto, state
<1>4. CASE Finish
  BY <1>a, <1>4 DEF Finish, Goto, state
<1>5. CASE RunTool
  <2>1. /\ node = "tool_exec" /\ node' \in {"failed", "tool_exec"}
        /\ plan' = plan /\ draft' = draft /\ calls' = calls
    BY <1>5 DEF RunTool, Executing, state
  <2>2. CASE node' = "failed"
    BY <2>2 DEF FileInvariant
  <2>3. CASE node' = "tool_exec"
    <3>1. Replayed(calls, plan, draft, work', file')
      BY <1>5, <2>1, <2>3, RunToolReplays DEF FileInvariant
    <3> QED
      BY <2>1, <2>3, <3>1 DEF FileInvariant
  <2> QED
    BY <2>1, <2>2, <2>3
<1>6. CASE ToolsDone
  <2>1. /\ node = "tool_exec" /\ node' \in {"clarify_interrupt", "llm_call"}
        /\ work.next > Len(calls) /\ draft' = work.draft /\ file' = file
    BY <1>6 DEF ToolsDone, Goto
  <2>2. work.next = Len(calls) + 1
    BY <1>0, <2>1 DEF AnswersInvariant, BatchAnswers
  <2>3. InSync(work.draft, file)
    BY <1>0, <2>1, <2>2, ReplayEnds DEF FileInvariant
  <2> QED
    BY <2>1, <2>3 DEF FileInvariant
<1>7. CASE Exhausted
  BY <1>7 DEF Exhausted, FileInvariant
<1>8. CASE Prompt
  BY <1>a, <1>8 DEF Prompt, state
<1>9. CASE Reply
  BY <1>a, <1>9 DEF Reply
<1>10. CASE Crash
  <2>1. CASE node = "tool_exec"
    <3>1. /\ node' = "tool_exec" /\ calls' = calls /\ work' = Fresh(calls)
          /\ UNCHANGED <<plan, draft, file>>
      BY <1>10, <2>1 DEF Crash, state
    <3>2. work'.plan = plan /\ work'.draft = draft /\ work'.next = 1
      BY <3>1 DEF Fresh
    <3>3. Replayed(calls, plan, draft, work', file)
      BY <1>0, <2>1, <3>2, CrashReplays DEF FileInvariant
    <3> QED
      BY <3>1, <3>3 DEF FileInvariant
  <2>2. CASE node # "tool_exec"
    BY <1>10, <2>2 DEF Crash, state, FileInvariant
  <2> QED
    BY <2>1, <2>2
<1>11. CASE UNCHANGED vars
  BY <1>11 DEF vars, FileInvariant
<1> QED
  BY <1>1, <1>2, <1>3, <1>4, <1>5, <1>6, <1>7, <1>8, <1>9, <1>10, <1>11 DEF Next, Step

\* Draft and file are in step between batches; during one, the file is ahead of the
\* draft only by what the calls to come will write again.
THEOREM FileIsReplayed ==
    ASSUME NoneIsNoFlow
    PROVE  Safety => []FileInvariant
<1>1. AnswersInvariant /\ PlansAreLists /\ FileInvariant /\ [Next]_vars => FileInvariant'
  BY StepFile
<1> QED
  BY <1>1, InitFile, AnswersAreCounted, PlansStayLists, PTL DEF Safety

\* When the model is called, an acceptable draft is what the file holds, whether its
\* batches were executed once or started again after a death of the process
\* (graph.py, tool_exec; dsl_tools.py, save_document_to_target).
THEOREM FileIsTheDraft ==
    ASSUME NoneIsNoFlow
    PROVE  Safety => []FileFollowsDraft
<1>1. FileInvariant => FileFollowsDraft
  BY DEF FileInvariant, FileFollowsDraft, InSync, Saved, Holds
<1> QED
  BY <1>1, FileIsReplayed, PTL

\* A turn that ends with a final answer leaves no unsaved draft, but for one the
\* validator refuses and that was edited when no item of the plan was open: any model,
\* any batches, any crashes (graph.py, after_llm; planning_tools.py, the strict save).
THEOREM FinalAnswersAreSaved ==
    ASSUME NoneIsNoFlow
    PROVE  Safety => []FinalAnswerMeansSaved
<1>1. SavesInvariant /\ FileInvariant => FinalAnswerMeansSaved
  BY DEF SavesInvariant, Guarded, FinalMeansDone, FileInvariant, InSync, Saved, Holds,
         FinalAnswerMeansSaved
<1> QED
  BY <1>1, SavesAreGuarded, FileIsReplayed, PTL

-----------------------------------------------------------------------------
(***************************************************************************)
(* The file holds sound flows: the tools, opened as far as proper          *)
(* documents are concerned.                                                *)
(***************************************************************************)
\* A part of a list.
PartIsList(list, a, b) ==
    IsList(SubSeq(list, a, b)) /\ ToSet(SubSeq(list, a, b)) = {list[i] : i \in a .. b}

LEMMA PartOfList ==
    ASSUME NEW list, IsList(list), NEW a \in Nat, a >= 1, NEW b \in Nat, b <= Len(list)
    PROVE  PartIsList(list, a, b)
<1> DEFINE S == ToSet(list)
           part == SubSeq(list, a, b)
           n == IF a <= b THEN b - a + 1 ELSE 0
<1>1. list \in Seq(S) /\ Len(list) \in Nat
  BY DEF IsList
<1> HIDE DEF S
<1>2. /\ part \in Seq(S) /\ Len(part) = n /\ n \in Nat
      /\ \A i \in 1 .. n : part[i] = list[a + i - 1]
  BY <1>1
<1> HIDE DEF part
<1>3. ToSet(part) = {part[i] : i \in 1 .. n} /\ IsList(part)
  BY <1>2, ToSetOfSeq DEF IsList
<1>4. \A i \in a .. b : i - a + 1 \in 1 .. n /\ a + (i - a + 1) - 1 = i
  OBVIOUS
<1>5. \A i \in 1 .. n : a + i - 1 \in a .. b
  OBVIOUS
<1> HIDE DEF n
<1>6. {part[i] : i \in 1 .. n} \subseteq {list[i] : i \in a .. b}
  BY <1>2, <1>5
<1>7. {list[i] : i \in a .. b} \subseteq {part[i] : i \in 1 .. n}
  <2> SUFFICES ASSUME NEW i \in a .. b PROVE list[i] \in {part[j] : j \in 1 .. n}
    OBVIOUS
  <2>1. i - a + 1 \in 1 .. n /\ part[i - a + 1] = list[i]
    BY <1>2, <1>4
  <2> QED
    BY <2>1
<1> QED
  BY <1>3, <1>6, <1>7 DEF part, PartIsList

\* The first element of a list that passes a test, for the tests of apply_button_incoming.
FirstId(list, id)     == SelectInSeq(list, LAMBDA s : s.id = id)
FirstText(list, text) == SelectInSeq(list, LAMBDA c : c.text = text)

LEMMA FirstWithId ==
    ASSUME NEW list, IsList(list), NEW id, FirstId(list, id) # 0
    PROVE  FirstId(list, id) \in 1 .. Len(list) /\ list[FirstId(list, id)].id = id
<1> DEFINE I == {i \in 1 .. Len(list) : list[i].id = id}
<1>1. FirstId(list, id) = IF I = {} THEN 0 ELSE Min(I)
  BY DEF SelectInSeq, FirstId
<1>2. I \in SUBSET Nat
  OBVIOUS
<1>3. I # {} => Min(I) \in I
  <2> HIDE DEF I
  <2> QED
    BY <1>2, MinProperties
<1> QED
  BY <1>1, <1>3

LEMMA FirstWithText ==
    ASSUME NEW list, IsList(list), NEW text, \E b \in ToSet(list) : b.text = text
    PROVE  FirstText(list, text) \in 1 .. Len(list)
<1> DEFINE I == {i \in 1 .. Len(list) : list[i].text = text}
<1>1. FirstText(list, text) = IF I = {} THEN 0 ELSE Min(I)
  BY DEF SelectInSeq, FirstText
<1>2. I \in SUBSET Nat
  OBVIOUS
<1>3. I # {} => Min(I) \in I
  <2> HIDE DEF I
  <2> QED
    BY <1>2, MinProperties
<1>4. I # {}
  BY DEF ToSet, IsList
<1> QED
  BY <1>1, <1>3, <1>4

\* The step that is found.
LEMMA FoundStep ==
    ASSUME NEW d, IsDocument(d), NEW id
    PROVE  FindStep(d, id) = None \/
             (FindStep(d, id) \in ToSet(Steps(d)) /\ FindStep(d, id).id = id)
<1> DEFINE steps == Steps(d)
           first == FirstId(steps, id)
<1>1. IsList(steps) /\ \A i \in 1 .. Len(steps) : steps[i] \in ToSet(steps)
  BY StepsAreAList DEF IsList, ToSet
<1>2. FindStep(d, id) = IF first = 0 THEN None ELSE steps[first]
  BY DEF FindStep, FirstId
<1> HIDE DEF steps
<1>3. first # 0 => first \in 1 .. Len(steps) /\ steps[first].id = id
  BY <1>1, FirstWithId
<1> QED
  BY <1>1, <1>2, <1>3 DEF steps

\* A patched step keeps its id (dsl_tools.py, patch_step_block).
LEMMA PatchedForm ==
    ASSUME NEW step, IsStep(step), Ordinary(step.routes), NEW p, IsPatch(p), NEW id
    PROVE  /\ IsStep([DeepMerge(step, p) EXCEPT !.id = id])
           /\ Ordinary([DeepMerge(step, p) EXCEPT !.id = id].routes)
           /\ [DeepMerge(step, p) EXCEPT !.id = id].id = id
<1> DEFINE F == {"id", "kind", "global", "value", "buttons", "target", "branches", "routes"}
           both == DeepMerge(step, p)
           s == [both EXCEPT !.id = id]
           bs == both.buttons
           rs == both.routes
<1>1. DOMAIN step = F /\ DOMAIN p \subseteq F
  BY DEF IsStep, IsPatch, Bare
<1>2. both = [x \in F |-> IF x \in DOMAIN p THEN p[x] ELSE step[x]]
  BY <1>1 DEF DeepMerge
<1>3. /\ bs = IF "buttons" \in DOMAIN p THEN p.buttons ELSE step.buttons
      /\ rs = IF "routes" \in DOMAIN p THEN p.routes ELSE step.routes
  BY <1>2
<1>4. IsList(bs) /\ (\A b \in ToSet(bs) : IsButton(b))
  BY <1>3 DEF IsStep, IsPatch
<1>5. IsList(rs) /\ (\A r \in ToSet(rs) : IsRoute(r)) /\ Ordinary(rs)
  BY <1>3 DEF IsStep, IsPatch
<1>6. both = StepOf(both.id, both.kind, both.global, both.value, bs, both.target, both.branches, rs)
  BY <1>2 DEF StepOf
<1> HIDE DEF both
<1>7. s = StepOf(id, both.kind, both.global, both.value, bs, both.target, both.branches, rs)
  BY <1>6 DEF StepOf
<1> HIDE DEF s, bs, rs
<1>8. IsStep(s) /\ Ordinary(s.routes) /\ s.id = id
  BY <1>4, <1>5, <1>7 DEF StepOf, IsStep
<1> QED
  BY <1>8 DEF s, both

\* The step a button of which is pointed somewhere else keeps its form.
Pointed(step, b, target) ==
    [step EXCEPT !.buttons = [step.buttons EXCEPT ![b] = [step.buttons[b] EXCEPT !.next = target]]]

LEMMA PointedForm ==
    ASSUME NEW step, IsStep(step), NEW b, b \in 1 .. Len(step.buttons), NEW target
    PROVE  /\ IsStep(Pointed(step, b, target))
           /\ Pointed(step, b, target).id = step.id /\ Pointed(step, b, target).kind = step.kind
           /\ Pointed(step, b, target).routes = step.routes
<1> DEFINE s == Pointed(step, b, target)
           bs == step.buttons
           n == Len(bs)
           x == [bs[b] EXCEPT !.next = target]
           left == [bs EXCEPT ![b] = x]
<1>1. /\ IsList(bs) /\ n \in Nat /\ DOMAIN bs = 1 .. n
      /\ \A i \in 1 .. n : bs[i] \in ToSet(bs) /\ IsButton(bs[i])
  BY DEF IsStep, IsList, ToSet
<1>2. IsButton(x)
  <2>1. \A c : IsButton(c) => IsButton([c EXCEPT !.next = target])
    <3> SUFFICES ASSUME NEW c, IsButton(c) PROVE IsButton([c EXCEPT !.next = target])
      OBVIOUS
    <3>1. [c EXCEPT !.next = target] = [text |-> c.text, next |-> target]
      BY DEF IsButton
    <3> QED
      BY <3>1 DEF IsButton
  <2> QED
    BY <1>1, <2>1
<1>3. s = StepOf(step.id, step.kind, step.global, step.value, left, step.target, step.branches, step.routes)
  <2>1. step = StepOf(step.id, step.kind, step.global, step.value, bs, step.target, step.branches, step.routes)
    BY DEF IsStep, StepOf
  <2>2. s = [step EXCEPT !.buttons = left]
    BY DEF Pointed
  <2> HIDE DEF left, bs, s
  <2> QED
    BY <2>1, <2>2 DEF StepOf
<1> HIDE DEF bs, x, s
<1>4. /\ DOMAIN left = DOMAIN bs /\ left = [i \in DOMAIN left |-> left[i]]
      /\ \A i \in 1 .. n : left[i] = IF i = b THEN x ELSE bs[i]
  BY <1>1
<1> HIDE DEF left, n
<1>5. IsList(left) /\ ToSet(left) = {left[i] : i \in 1 .. n}
  BY <1>1, <1>4, Image DEF n
<1>6. \A c \in ToSet(left) : IsButton(c)
  BY <1>1, <1>2, <1>4, <1>5
<1>7. IsList(step.routes) /\ \A r \in ToSet(step.routes) : IsRoute(r)
  BY DEF IsStep
<1>8. /\ s.id = step.id /\ s.kind = step.kind /\ s.routes = step.routes /\ s.buttons = left
      /\ s = StepOf(s.id, s.kind, s.global, s.value, s.buttons, s.target, s.branches, s.routes)
  BY <1>3 DEF StepOf
<1>9. IsStep(s)
  BY <1>5, <1>6, <1>7, <1>8 DEF StepOf, IsStep
<1> QED
  BY <1>8, <1>9 DEF s

\* Pointing a button to a step (dsl_tools.py, apply_button_incoming).
LEMMA PointKeepsProper ==
    ASSUME NEW d, ProperDocument(d), NEW id, NEW text, NEW target,
           FindStep(d, id) # None, HasButton(FindStep(d, id), text)
    PROVE  ProperDocument(PointButton(d, id, text, target))
<1> DEFINE steps == Steps(d)
           first == FirstId(steps, id)
           step  == steps[first]
           b     == FirstText(step.buttons, text)
           moved == Pointed(step, b, target)
           all   == [steps EXCEPT ![first] = moved]
           n     == Len(d.triggers)
           m     == Len(steps)
           t     == SubSeq(all, 1, n)
           s     == SubSeq(all, n + 1, m)
<1>1. /\ ProperLists(d.triggers, d.steps, d.routes)
      /\ d = Doc(d.triggers, d.steps, d.routes) /\ IsDocument(d)
  BY ListsOfProper DEF ProperDocument
<1>2. /\ IsList(steps) /\ m \in Nat /\ DOMAIN steps = 1 .. m
      /\ \A i \in 1 .. m : steps[i] \in ToSet(steps)
  BY <1>1, StepsAreAList DEF IsList, ToSet
<1>3. ProperSteps(steps)
  <2>1. ToSet(steps) = ToSet(d.triggers) \cup ToSet(d.steps)
    BY <1>1, StepsAreAList
  <2> HIDE DEF steps
  <2> QED
    BY <1>1, <2>1 DEF ProperLists, ProperSteps
<1>4. n \in Nat /\ n <= m /\ \A i \in 1 .. n : steps[i] = d.triggers[i] /\ d.triggers[i] \in ToSet(d.triggers)
  <2>1. IsList(d.triggers) /\ IsList(d.steps)
    BY <1>1 DEF ProperLists
  <2> QED
    <3> DEFINE x == d.triggers
               y == d.steps
               S == ToSet(x) \cup ToSet(y)
    <3>1. x \in Seq(S) /\ y \in Seq(S) /\ steps = x \o y
      BY <2>1, ListOver DEF Steps
    <3>2. \A i \in 1 .. n : x[i] \in ToSet(x)
      BY <2>1 DEF ToSet, IsList
    <3> HIDE DEF S, x, y, steps
    <3>3. Len(x) \in Nat /\ Len(steps) = Len(x) + Len(y) /\ Len(y) \in Nat /\ \A i \in 1 .. Len(x) : steps[i] = x[i]
      BY <3>1
    <3> QED
      BY <3>2, <3>3 DEF x
<1>5. first \in 1 .. m /\ step = FindStep(d, id)
  <2>1. FindStep(d, id) = IF first = 0 THEN None ELSE step
    BY DEF FindStep, FirstId
  <2>2. first # 0 => first \in 1 .. m
    <3> HIDE DEF steps
    <3> QED
      BY <1>2, FirstWithId
  <2> QED
    BY <2>1, <2>2
<1>6. b \in 1 .. Len(step.buttons)
  <2>1. IsList(step.buttons)
    BY <1>2, <1>3, <1>5 DEF ProperSteps, IsStep
  <2>2. \E c \in ToSet(step.buttons) : c.text = text
    BY <1>5 DEF HasButton
  <2> HIDE DEF step
  <2> QED
    BY <2>1, <2>2, FirstWithText
<1>7. PointButton(d, id, text, target) = [d EXCEPT !.triggers = t, !.steps = SubSeq(all, n + 1, Len(all))]
  BY DEF PointButton, FirstId, FirstText, Pointed
<1> HIDE DEF steps, first, step, b
<1>8. IsStep(moved) /\ moved.id = step.id /\ moved.kind = step.kind /\ moved.routes = step.routes
  <2>1. IsStep(step)
    BY <1>2, <1>3, <1>5 DEF ProperSteps, step
  <2> QED
    BY <1>6, <2>1, PointedForm
<1> HIDE DEF moved
<1>9. /\ DOMAIN all = DOMAIN steps /\ all = [i \in DOMAIN all |-> all[i]]
      /\ \A i \in 1 .. m : all[i] = IF i = first THEN moved ELSE steps[i]
  BY <1>2
<1> HIDE DEF all, m
<1>10. IsList(all) /\ Len(all) = m
  BY <1>2, <1>9, Image DEF m
<1>11. \A i \in 1 .. m : /\ IsStep(all[i]) /\ Ordinary(all[i].routes) /\ all[i].id \in Ids
                          /\ all[i].kind = steps[i].kind
  BY <1>2, <1>3, <1>5, <1>8, <1>9 DEF ProperSteps, step
<1> HIDE DEF n
<1>12. /\ IsList(t) /\ ToSet(t) = {all[i] : i \in 1 .. n}
       /\ IsList(s) /\ ToSet(s) = {all[i] : i \in n + 1 .. m}
  <2> DEFINE k == n + 1
             one == 1
  <2>1. /\ k \in Nat /\ k >= 1 /\ m \in Nat /\ m <= Len(all)
        /\ one \in Nat /\ one >= 1 /\ n \in Nat /\ n <= Len(all)
    BY <1>2, <1>4, <1>10
  <2> HIDE DEF k, one, t, s
  <2>2. PartIsList(all, one, n)
    BY <1>10, <2>1, PartOfList
  <2>3. PartIsList(all, k, m)
    BY <1>10, <2>1, PartOfList
  <2> QED
    BY <2>2, <2>3 DEF k, one, t, s, PartIsList
<1> HIDE DEF t, s
<1>13. ProperSteps(t) /\ ProperSteps(s)
  <2>1. \A i \in n + 1 .. m : i \in 1 .. m
    BY <1>4
  <2>2. \A i \in 1 .. n : i \in 1 .. m
    BY <1>2, <1>4
  <2> QED
    BY <1>11, <1>12, <2>1, <2>2 DEF ProperSteps
<1>14. AllTriggers(t)
  <2>1. \A i \in 1 .. n : all[i].kind \in TriggerKinds
    <3> SUFFICES ASSUME NEW i \in 1 .. n PROVE all[i].kind \in TriggerKinds
      OBVIOUS
    <3>1. i \in 1 .. m
      BY <1>2, <1>4
    <3> QED
      BY <1>1, <1>4, <1>11, <3>1 DEF ProperLists, AllTriggers
  <2> QED
    BY <1>12, <2>1 DEF AllTriggers
<1>15. PointButton(d, id, text, target) = Doc(t, s, d.routes)
  <2>1. PointButton(d, id, text, target) = [d EXCEPT !.triggers = t, !.steps = s]
    BY <1>7, <1>10 DEF s
  <2> DEFINE A == d.triggers
             B == d.steps
             C == d.routes
  <2>2. d = Doc(A, B, C)
    BY <1>1
  <2> HIDE DEF A, B, C
  <2>3. \A x, y : [Doc(A, B, C) EXCEPT !.triggers = x, !.steps = y] = Doc(x, y, C)
    <3>1. \A x : [Doc(A, B, C) EXCEPT !.triggers = x] = Doc(x, B, C)
      BY DEF Doc
    <3>2. \A x, y : [Doc(x, B, C) EXCEPT !.steps = y] = Doc(x, y, C)
      BY DEF Doc
    <3>3. \A x, y : [Doc(A, B, C) EXCEPT !.triggers = x, !.steps = y]
                      = [[Doc(A, B, C) EXCEPT !.triggers = x] EXCEPT !.steps = y]
      OBVIOUS
    <3> QED
      BY <3>1, <3>2, <3>3
  <2> QED
    BY <2>1, <2>2, <2>3 DEF C
<1>16. ProperLists(t, s, d.routes)
  BY <1>1, <1>12, <1>13, <1>14 DEF ProperLists
<1> QED
  BY <1>15, <1>16, ProperByLists

\* What an edit starts from: the draft, what the file says, or nothing.
LEMMA LoadedIsProper ==
    ASSUME NEW p, NEW d, ProperDraft(d), NEW f, ProperFile(f), NEW o
    PROVE  ProperDocument(LoadDocument(State(p, d, f, o)))
<1>1. LoadDocument(State(p, d, f, o)) =
        IF d # None THEN d ELSE IF f = None THEN EmptyDocument ELSE Import(f)
  BY StateFields DEF LoadDocument
<1>2. f # None => ProperDocument(Import(f))
  BY ImportIsProper DEF ProperFile
<1> QED
  BY <1>1, <1>2, EmptyIsProper DEF ProperDraft

\* An edit does nothing, or saves a proper document.
Edits(r, st) == \/ r \in {Error(st), Raised(st)}
                \/ \E doc : ProperDocument(doc) /\ r = Save(st, doc, "edit")

LEMMA EditsSave ==
    ASSUME NEW st
    PROVE  /\ Edits(Error(st), st) /\ Edits(Raised(st), st)
           /\ \A doc : ProperDocument(doc) => Edits(Save(st, doc, "edit"), st) /\ Edits(Edit(st, doc), st)
  BY DEF Edits, Edit

\* A step found in a proper document.
LEMMA FoundIsProper ==
    ASSUME NEW d, ProperDocument(d), NEW id, FindStep(d, id) # None
    PROVE  IsStep(FindStep(d, id)) /\ Ordinary(FindStep(d, id).routes) /\ FindStep(d, id).id \in Ids
<1>1. FindStep(d, id) \in ToSet(Steps(d))
  BY FoundStep DEF ProperDocument
<1> QED
  BY <1>1 DEF ProperDocument, IsDocument, OrdinaryDocument, IdsOf

LEMMA UpsertIsProper ==
    ASSUME NEW st, ProperDocument(LoadDocument(st)), NEW call, call.tool = "upsert_step", ProperCall(call)
    PROVE  Edits(UpsertStep(st, call), st)
<1> DEFINE doc      == LoadDocument(st)
           incoming == call.incoming
           placed   == ReplaceStep(doc, call.step, call.trigger)
           from     == incoming.source
           text     == incoming.text
           id       == call.step.id
           source   == FindStep(placed, from)
           route    == Route(from, id, incoming.handle)
           linked   == UpsertRoute(placed, route)
           pressed  == PointButton(placed, from, text, id)
<1>1. UpsertStep(st, call) =
        IF UpsertRefused(st, doc, call) THEN Error(st)
        ELSE IF incoming = None THEN Save(st, placed, "edit")
        ELSE IF incoming.via # "button" THEN Save(st, linked, "edit")
        ELSE IF source = None \/ ~ HasButton(source, text) THEN Raised(st)
        ELSE Save(st, pressed, "edit")
  BY DEF UpsertStep
<1>2. /\ IsStep(call.step) /\ Ordinary(call.step.routes) /\ call.step.id \in Ids
      /\ IsTrigger(call.step, call.trigger) => call.step.kind \in TriggerKinds
  BY DEF ProperCall, IsTrigger
<1>3. ProperDocument(placed)
  BY <1>2, ReplaceKeepsProper
<1>4. ASSUME incoming # None PROVE IsRoute(route) /\ route.targetHandle # Selected
  BY <1>4 DEF Route, IsRoute, NoHandle, Selected, Handle, ProperCall
<1> HIDE DEF placed, route, from, text, id
<1>5. incoming # None => ProperDocument(linked)
  BY <1>3, <1>4, ConnectKeepsProper
<1>6. ~ (source = None \/ ~ HasButton(source, text)) => ProperDocument(pressed)
  BY <1>3, PointKeepsProper
<1> HIDE DEF doc, incoming, source, linked, pressed
<1> QED
  BY <1>1, <1>3, <1>5, <1>6, EditsSave

LEMMA PatchIsProper ==
    ASSUME NEW st, ProperDocument(LoadDocument(st)), NEW call, call.tool = "patch_step_block", ProperCall(call)
    PROVE  Edits(PatchStepBlock(st, call), st)
<1> DEFINE doc == LoadDocument(st)
           id  == call.id
           existing == FindStep(doc, id)
           step == [DeepMerge(existing, call.patch) EXCEPT !.id = id]
           patched == ReplaceStep(doc, step, "kind")
<1>1. PatchStepBlock(st, call) = IF existing = None THEN Error(st) ELSE Edit(st, patched)
  BY DEF PatchStepBlock
<1>2. existing = None \/ ProperDocument(patched)
  <2> SUFFICES ASSUME existing # None PROVE ProperDocument(patched)
    OBVIOUS
  <2>1. IsStep(existing) /\ Ordinary(existing.routes) /\ existing.id \in Ids /\ existing.id = id
    BY FoundIsProper, FoundStep DEF ProperDocument
  <2>2. IsPatch(call.patch)
    BY DEF ProperCall
  <2> HIDE DEF existing, id
  <2>3. IsStep(step) /\ Ordinary(step.routes) /\ step.id = id
    BY <2>1, <2>2, PatchedForm
  <2>4. IsTrigger(step, "kind") => step.kind \in TriggerKinds
    BY DEF IsTrigger
  <2> HIDE DEF step
  <2> QED
    BY <2>1, <2>3, <2>4, ReplaceKeepsProper
<1> HIDE DEF existing, patched
<1> QED
  BY <1>1, <1>2, EditsSave

LEMMA EditIsProper ==
    ASSUME NEW st, ProperDocument(LoadDocument(st)), NEW call, call.tool \in EditTools, ProperCall(call)
    PROVE  Edits(Apply(st, call), st)
<1>1. CASE call.tool = "upsert_step"
  <2>1. Apply(st, call) = UpsertStep(st, call)
    BY <1>1 DEF Apply
  <2> QED
    BY <1>1, <2>1, UpsertIsProper
<1>2. CASE call.tool = "remove_step"
  <2> DEFINE removed == RemoveStep(LoadDocument(st), call.id)
  <2>1. Apply(st, call) = Edit(st, removed)
    BY <1>2 DEF Apply, RemoveStepTool
  <2>2. ProperDocument(removed)
    BY RemoveKeepsProper
  <2> HIDE DEF removed
  <2> QED
    BY <2>1, <2>2, EditsSave
<1>3. CASE call.tool = "connect_steps"
  <2> DEFINE connected == FoldLeft(UpsertRoute, LoadDocument(st), call.routes)
  <2>1. Apply(st, call) = Edit(st, connected)
    BY <1>3 DEF Apply, ConnectSteps
  <2>2. RouteList(call.routes)
    BY <1>3 DEF ProperCall, RouteList
  <2>3. ProperDocument(connected)
    BY <2>2, ConnectAllKeepsProper
  <2> HIDE DEF connected
  <2> QED
    BY <2>1, <2>3, EditsSave
<1>4. CASE call.tool = "patch_step_block"
  <2>1. Apply(st, call) = PatchStepBlock(st, call)
    BY <1>4 DEF Apply
  <2> QED
    BY <1>4, <2>1, PatchIsProper
<1>5. CASE call.tool = "save_flow_yaml"
  <2>1. Apply(st, call) = IF call.doc = None THEN Error(st) ELSE Edit(st, call.doc)
    BY <1>5 DEF Apply, SaveFlowYaml
  <2>2. call.doc = None \/ ProperDocument(call.doc)
    BY <1>5 DEF ProperCall
  <2> QED
    BY <2>1, <2>2, EditsSave
<1> QED
  BY <1>1, <1>2, <1>3, <1>4, <1>5 DEF EditTools

\* Any call leaves a proper draft, and the file as it was or sound.
Leaves(r, f) == /\ ProperDraft(r.draft)
                /\ r.file = f \/ (IsFlow(r.file) /\ SoundFlow(r.file))

LEMMA CallIsProper ==
    ASSUME NEW p, IsPlan(p), NEW d, ProperDraft(d), NEW f, ProperFile(f),
           NEW call, call.tool \in ToolNames, ProperCall(call),
           call.tool = "create_task_plan" =>
               call.items \in Seq(ToSet(call.items)) /\ call.items # << >>
    PROVE  Leaves(Apply(State(p, d, f, "ok"), call), f)
<1>1. \A q, o : Leaves(State(q, d, f, o), f)
  BY StateFields DEF Leaves
<1>2. ASSUME NEW doc, ProperDocument(doc), NEW q, NEW o
      PROVE  /\ Leaves(State(q, doc, f, o), f)
             /\ Accepted(doc) => Leaves(State(q, doc, Compile(doc), o), f)
  BY <1>2, StateFields, AcceptedFileIsProper DEF Leaves, ProperDraft
<1>3. CASE call.tool \in EditTools
  <2> DEFINE st == State(p, d, f, "ok")
  <2>1. ProperDocument(LoadDocument(st))
    BY LoadedIsProper
  <2>2. Error(st) = State(p, d, f, "error") /\ Raised(st) = State(p, d, f, "raised")
    BY StateFields
  <2>3. \A doc : ProperDocument(doc) => Leaves(Save(st, doc, "edit"), f)
    <3> SUFFICES ASSUME NEW doc, ProperDocument(doc) PROVE Leaves(Save(st, doc, "edit"), f)
      OBVIOUS
    <3> QED
      BY <1>1, <1>2, EditSaves
  <2> HIDE DEF st
  <2>4. Edits(Apply(st, call), st)
    BY <1>3, <2>1, EditIsProper
  <2>5. Leaves(Apply(st, call), f)
    BY <1>1, <2>2, <2>3, <2>4 DEF Edits
  <2> QED
    BY <2>5 DEF st
<1>4. CASE call.tool = "create_task_plan"
  <2>1. Apply(State(p, d, f, "ok"), call) = CreateTaskPlan(State(p, d, f, "ok"), call)
    BY <1>4 DEF Apply
  <2> QED
    BY <1>1, <1>4, <2>1, CreateEffect
<1>5. CASE call.tool = "update_task_plan_item"
  <2> DEFINE result == UpdateTaskPlanItem(State(p, d, f, "ok"), call)
  <2>1. Apply(State(p, d, f, "ok"), call) = result
    BY <1>5 DEF Apply
  <2>2. d # None /\ Accepted(d) => \A q, o : Leaves(State(q, d, Compile(d), o), f)
    BY <1>2 DEF ProperDraft
  <2>3. \/ result = State(p, d, f, "error")
        \/ \E q : \/ result = State(q, d, f, "ok") \/ result = State(q, d, f, "error")
                  \/ d # None /\ Accepted(d) /\ result = State(q, d, Compile(d), "ok")
    BY UpdateOutcome
  <2> HIDE DEF result
  <2> QED
    BY <1>1, <2>1, <2>2, <2>3
<1>6. CASE call.tool \in Readers
  BY <1>1, <1>6, ReadEffect
<1> QED
  BY <1>3, <1>4, <1>5, <1>6 DEF Readers

\* The conversation starts without a draft.
LEMMA InitFlow ==
    ASSUME ProperStart
    PROVE  Init => FlowInvariant
  BY DEF Init, ProperStart, FlowInvariant, ProperDraft, NoWork

\* Executing a call leaves proper drafts, and the file as it was or sound.
LEMMA RunToolFlow ==
    ASSUME ProperCalls, AnswersInvariant, PlansAreLists, FlowInvariant, RunTool
    PROVE  FlowInvariant' /\ (file' = file \/ SoundFlow(file'))
<1> DEFINE call == calls[work.next]
<1>1. /\ Executing /\ draft' = draft /\ file' = Result.file
      /\ \/ work' = NoWork
         \/ work' = Merge(Result)
  BY DEF RunTool, Executing, state
<1>2. ProperCall(call)
  <2>1. /\ Len(calls) \in Nat /\ work.next \in 1 .. Len(calls) /\ DOMAIN calls = 1 .. Len(calls)
    BY <1>1, CallToExecute
  <2>2. calls \in Batches /\ calls[work.next] \in ToSet(calls)
    BY <2>1 DEF AnswersInvariant, ToSet
  <2> QED
    BY <2>2 DEF ProperCalls
<1>3. /\ call.tool \in ToolNames /\ IsPlan(work.plan)
      /\ call.tool = "create_task_plan" =>
             call.items \in Seq(ToSet(call.items)) /\ call.items # << >>
      /\ Result = Apply(State(work.plan, work.draft, file, "ok"), call)
  BY <1>1, CallToExecute
<1>4. ProperDraft(work.draft) /\ ProperFile(file) /\ ProperDraft(draft)
  BY DEF FlowInvariant
<1> HIDE DEF call
<1>5. Leaves(Result, file)
  BY <1>2, <1>3, <1>4, CallIsProper
<1>6. ProperDraft(work'.draft)
  <2>1. ProperDraft(NoWork.draft)
    BY DEF NoWork, ProperDraft
  <2>2. Merge(Result).draft = Result.draft
    BY DEF Merge
  <2> QED
    BY <1>1, <1>5, <2>1, <2>2 DEF Leaves
<1> QED
  BY <1>1, <1>4, <1>5, <1>6 DEF Leaves, FlowInvariant, ProperFile

\* Every step does.
LEMMA StepFlow ==
    ASSUME ProperCalls, AnswersInvariant, PlansAreLists, FlowInvariant, [Next]_vars
    PROVE  FlowInvariant' /\ (file' = file \/ SoundFlow(file'))
<1>1. ASSUME file' = file, draft' \in {draft, work.draft},
             work'.draft \in {draft, work.draft, None}
      PROVE  FlowInvariant' /\ file' = file
  BY <1>1 DEF FlowInvariant, ProperFile, ProperDraft
<1>2. ASSUME NEW batch \in Batches, CallTools(batch) PROVE FlowInvariant' /\ file' = file
  BY <1>1, <1>2 DEF CallTools, Fresh
<1>3. CASE Answer \/ Remind \/ Finish \/ Prompt \/ Reply
  BY <1>1, <1>3 DEF Answer, Remind, Finish, Prompt, Reply, state
<1>4. CASE RunTool
  BY <1>4, RunToolFlow
<1>5. CASE ToolsDone \/ Exhausted
  BY <1>1, <1>5 DEF ToolsDone, Exhausted, NoWork, state
<1>6. CASE Crash
  BY <1>1, <1>6 DEF Crash, Fresh, state
<1>7. CASE UNCHANGED vars
  BY <1>1, <1>7 DEF vars
<1> QED
  BY <1>2, <1>3, <1>4, <1>5, <1>6, <1>7 DEF Next, Step

\* Of a model that stores only triggers as triggers, and a file the tools have
\* written, the drafts are proper documents and the file is sound.
THEOREM FlowsStayProper ==
    ASSUME ProperCalls, ProperStart
    PROVE  Safety => []FlowInvariant
<1>1. AnswersInvariant /\ PlansAreLists /\ FlowInvariant /\ [Next]_vars => FlowInvariant'
  BY StepFlow
<1> QED
  BY <1>1, InitFlow, AnswersAreCounted, PlansStayLists, PTL DEF Safety

\* Whatever a tool writes to the file can be run: its ids are distinct, its edges
\* lead from node to node, and a trigger leads to every action, whatever the calls
\* of the model, and whether a batch was executed once or started again
\* (dsl_tools.py, save_document_to_target).
THEOREM WrittenFlowsAreSound ==
    ASSUME ProperCalls, ProperStart
    PROVE  Safety => OnlySoundFlowsAreWritten
<1>1. AnswersInvariant /\ PlansAreLists /\ FlowInvariant /\ [Next]_vars
        => [file' # file => SoundFlow(file')]_file
  BY StepFlow
<1> QED
  BY <1>1, FlowsStayProper, AnswersAreCounted, PlansStayLists, PTL DEF Safety, OnlySoundFlowsAreWritten
=============================================================================
