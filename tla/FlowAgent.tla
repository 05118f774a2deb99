----------------------------- MODULE FlowAgent ------------------------------
(***************************************************************************)
(* One conversation with the agent: the graph of graph.py, run turn after  *)
(* turn on one thread (cli.py, run_chat_session; api.py,                   *)
(* run_agent_request), with the tools of FlowTools and the flow file.      *)
(*                                                                         *)
(* A node of the graph returns updates, which are stored in the checkpoint *)
(* when it ends.  tool_exec executes the calls of one message one after    *)
(* the other: the flow file changes at once, the state only at the end.  A *)
(* process that dies in between resumes at the checkpoint and executes the *)
(* whole batch again, on the file as it was left.                          *)
(*                                                                         *)
(* The model (the LLM) answers anything from Batches, or stops calling     *)
(* tools.                                                                  *)
(***************************************************************************)
EXTENDS FlowTools

CONSTANTS
    Batches,            \* the tool calls one message may hold, in order
    InitialFiles,       \* the flow files a conversation may start with
    RecursionLimit,     \* recursion_limit: the nodes one invoke may execute
    MaxTurns,           \* bound: messages of the user, replies included
    MaxCrashes          \* bound: deaths of the process

ASSUME AgentAssumption ==
    /\ \A batch \in Batches :
          /\ batch \in Seq(ToSet(batch))
          /\ \A call \in ToSet(batch) :
                /\ call.tool \in ToolNames
                /\ call.tool = "create_task_plan" =>                         \* min_length = 1
                      call.items \in Seq(ToSet(call.items)) /\ call.items # << >>
    /\ {RecursionLimit, MaxTurns, MaxCrashes} \subseteq Nat

VARIABLES
    node,       \* the node to execute next; "idle" between turns, "failed" after an exception
    plan,       \* checkpoint: current_plan
    draft,      \* checkpoint: working_dsl
    pending,    \* checkpoint: pending_clarification, the index of the call, 0 if none
    calls,      \* checkpoint: the tool calls of the last message of the model
    answers,    \* checkpoint: tool messages for each of these calls
    work,       \* in tool_exec: current_state and the messages so far
    file,       \* the flow file
    budget,     \* nodes the current invoke may still execute
    late,       \* auxiliary, with the checkpoint: the draft has been edited, and no item
                \* of the plan has been open since
    turns, crashes

state == <<plan, draft, pending, calls, answers, late>>
vars  == <<node, plan, draft, pending, calls, answers, work, file, budget, late, turns, crashes>>

Running == node \in {"llm_call", "tool_exec", "plan_reminder", "final_response"}

Nodes == {"idle", "llm_call", "tool_exec", "clarify_interrupt", "plan_reminder",
          "final_response", "failed"}

Unanswered(batch) == [i \in DOMAIN batch |-> 0]
Fresh(batch) == [plan |-> plan, draft |-> draft, late |-> late,
                 ask |-> 0, answers |-> Unanswered(batch), next |-> 1]
NoWork == [plan |-> << >>, draft |-> None, late |-> FALSE,
           ask |-> 0, answers |-> << >>, next |-> 1]

Init ==
    /\ node = "idle"
    /\ plan = << >> /\ draft = None /\ pending = 0 /\ calls = << >> /\ answers = << >>
    /\ late = FALSE
    /\ work = NoWork
    /\ file \in InitialFiles
    /\ budget = 0 /\ turns = 0 /\ crashes = 0

\* Faulty: the nodes are not counted.
GotoUncounted(next) == node' = next /\ UNCHANGED budget

\* A node ends and another follows, within the recursion limit.
Goto(next) ==
    /\ budget > 0
    /\ budget' = budget - 1
    /\ node' = next

\* A message of the user starts an invoke; plan and draft are those of the turn before.
Prompt ==
    /\ node = "idle"
    /\ turns < MaxTurns
    /\ node' = "llm_call"
    /\ budget' = RecursionLimit
    /\ turns' = turns + 1
    /\ UNCHANGED <<state, work, file, crashes>>

CallTools(batch) ==                                           \* llm_call, then tool_exec
    /\ node = "llm_call"
    /\ Goto("tool_exec")
    /\ calls' = batch
    /\ answers' = Unanswered(batch)
    /\ work' = Fresh(batch)
    /\ UNCHANGED <<plan, draft, pending, late, file, turns, crashes>>

\* A message without tool calls: after_llm.
Answer ==
    /\ node = "llm_call"
    /\ Goto(IF HasIncomplete(plan) THEN "plan_reminder" ELSE "final_response")
    /\ calls' = << >> /\ answers' = << >>
    /\ UNCHANGED <<plan, draft, pending, late, work, file, turns, crashes>>

Remind ==
    /\ node = "plan_reminder"
    /\ Goto("llm_call")
    /\ UNCHANGED <<state, work, file, turns, crashes>>

Finish ==
    /\ node = "final_response"
    /\ Goto("idle")
    /\ UNCHANGED <<state, work, file, turns, crashes>>

Executing == node = "tool_exec" /\ work.next <= Len(calls)
Result == Apply([plan |-> work.plan, draft |-> work.draft, file |-> file, outcome |-> "ok"],
                calls[work.next])

\* Whether the call leaves a draft edited under a plan without open items.
EditedLate(result) ==
    ~ HasIncomplete(result.plan) /\ (work.late \/ result.draft # work.draft)

\* Faulty: the last question of a batch is kept instead of the first.
KeepLastQuestion(result) ==
    LET kept == calls[work.next].tool = "request_clarification"
    IN  [plan |-> result.plan, draft |-> result.draft, late |-> EditedLate(result),
         next    |-> work.next + 1,
         ask     |-> IF kept THEN work.next ELSE work.ask,
         answers |-> IF kept THEN work.answers ELSE [work.answers EXCEPT ![work.next] = @ + 1]]

\* The first clarification of a batch is kept for the user; every other call
\* gets its tool message.
Merge(result) ==
    LET kept == calls[work.next].tool = "request_clarification" /\ work.ask = 0
    IN  [plan |-> result.plan, draft |-> result.draft, late |-> EditedLate(result),
         next    |-> work.next + 1,
         ask     |-> IF kept THEN work.next ELSE work.ask,
         answers |-> IF kept THEN work.answers ELSE [work.answers EXCEPT ![work.next] = @ + 1]]

\* One turn of the loop of tool_exec.  An exception leaves the graph, and the
\* updates of the batch are lost.
RunTool ==
    /\ Executing
    /\ \E result \in {Result} :
        /\ file' = result.file
        /\ IF result.outcome = "raised" THEN node' = "failed" /\ work' = NoWork
           ELSE node' = node /\ work' = Merge(result)
    /\ UNCHANGED <<state, budget, turns, crashes>>

\* tool_exec returns its updates: after_tools.
ToolsDone ==
    /\ node = "tool_exec"
    /\ work.next > Len(calls)
    /\ Goto(IF work.ask # 0 THEN "clarify_interrupt" ELSE "llm_call")
    /\ plan' = work.plan /\ draft' = work.draft /\ late' = work.late
    /\ pending' = work.ask /\ answers' = work.answers
    /\ work' = NoWork
    /\ UNCHANGED <<calls, file, turns, crashes>>

\* The user answers; the graph is invoked again at the interrupt.
Reply ==
    /\ node = "clarify_interrupt"
    /\ turns < MaxTurns
    /\ turns' = turns + 1
    /\ node' = "llm_call"
    /\ answers' = [answers EXCEPT ![pending] = @ + 1]
    /\ pending' = 0
    /\ budget' = RecursionLimit - 1
    /\ UNCHANGED <<plan, draft, calls, late, work, file, crashes>>

\* GraphRecursionError.
Exhausted ==
    /\ Running
    /\ budget = 0
    /\ node' = "failed"
    /\ work' = NoWork
    /\ UNCHANGED <<state, file, budget, turns, crashes>>

\* The process dies and the run is recovered: invoked again at its checkpoint.
Crash ==
    /\ Running
    /\ crashes < MaxCrashes
    /\ crashes' = crashes + 1
    /\ budget' = RecursionLimit
    /\ work' = IF node = "tool_exec" THEN Fresh(calls) ELSE work
    /\ UNCHANGED <<node, state, file, turns>>

Step == \/ \E batch \in Batches : CallTools(batch)
        \/ Answer \/ Remind \/ Finish \/ RunTool \/ ToolsDone \/ Exhausted
Next == Step \/ Prompt \/ Reply \/ Crash

\* Weak fairness of Step, which is enabled at exactly these nodes; TLC would
\* execute every tool once more to find that out.
Fairness == []<>(~ Running) \/ []<><<Step>>_vars

Safety == Init /\ [][Next]_vars
Spec   == Safety /\ Fairness

-----------------------------------------------------------------------------
(***************************************************************************)
(* The inductive invariant of the tool messages: how many each call has    *)
(* had at each node, in the checkpoint and in the batch being executed.    *)
(***************************************************************************)
BatchAnswers ==
    node = "tool_exec" =>
        /\ work.next \in 1 .. Len(calls) + 1
        /\ work.ask \in 0 .. work.next - 1
        /\ work.answers = [i \in DOMAIN calls |-> IF i < work.next /\ i # work.ask THEN 1 ELSE 0]

AskedAnswers ==
    node = "clarify_interrupt" =>
        /\ pending \in DOMAIN calls
        /\ answers = [i \in DOMAIN calls |-> IF i = pending THEN 0 ELSE 1]

AllAnswered ==
    node \in {"idle", "llm_call", "plan_reminder", "final_response"} =>
        answers = [i \in DOMAIN calls |-> 1]

AnswersInvariant ==
    /\ node \in Nodes
    /\ calls \in Batches \cup {<< >>}
    /\ BatchAnswers /\ AskedAnswers /\ AllAnswered

(***************************************************************************)
(* The inductive invariant of the saves.  A draft the validator refuses    *)
(* has an open item of the plan beside it, in the checkpoint and in the    *)
(* batch being executed, or was edited when no item was open: the last     *)
(* item is completed with a save, or is blocked.                           *)
(***************************************************************************)
Holds(doc) == file # None /\ SameFlow(Compile(doc), file)
Guarded(p, d, l) == d = None \/ Accepted(d) \/ HasIncomplete(p) \/ l

\* A plan is a list of items.
IsPlan(p) ==
    /\ p \in Seq(ToSet(p))
    /\ \A i \in DOMAIN p : p[i] = [id |-> p[i].id, status |-> p[i].status]

PlansAreLists == IsPlan(plan) /\ (node = "tool_exec" => IsPlan(work.plan))

FinalMeansDone == node = "final_response" => ~ HasIncomplete(plan)

SavesInvariant ==
    /\ FinalMeansDone
    /\ Guarded(plan, draft, late)
    /\ node = "tool_exec" => Guarded(work.plan, work.draft, work.late)

(***************************************************************************)
(* The inductive invariant of the file, for a model that stores only       *)
(* triggers as triggers (ProperCalls), and files the tools have written    *)
(* (ProperStart).  A sound file is read back as a proper document.         *)
(***************************************************************************)
IsPatch(p) ==
    /\ DOMAIN p \subseteq DOMAIN Bare(None, None)
    /\ "buttons" \in DOMAIN p => IsList(p.buttons) /\ \A b \in ToSet(p.buttons) : IsButton(b)
    /\ "routes" \in DOMAIN p =>
          IsList(p.routes) /\ (\A r \in ToSet(p.routes) : IsRoute(r)) /\ Ordinary(p.routes)

ProperCall(call) ==
    /\ call.tool = "upsert_step" =>
          /\ IsStep(call.step) /\ Ordinary(call.step.routes) /\ call.step.id \in Ids
          /\ call.trigger = "yes" => call.step.kind \in TriggerKinds
          /\ call.incoming # None => IsHandle(call.incoming.handle)
    /\ call.tool = "connect_steps" =>
          IsList(call.routes) /\ (\A r \in ToSet(call.routes) : IsRoute(r)) /\ Ordinary(call.routes)
    /\ call.tool = "patch_step_block" => IsPatch(call.patch)
    /\ call.tool = "save_flow_yaml" /\ call.doc # None => ProperDocument(call.doc)

ProperCalls == \A batch \in Batches : \A call \in ToSet(batch) : ProperCall(call)
ProperFile(f) == f # None => IsFlow(f) /\ SoundFlow(f)
ProperStart == \A f \in InitialFiles : ProperFile(f)

ProperDraft(d) == d # None => ProperDocument(d)
FlowInvariant == ProperFile(file) /\ ProperDraft(draft) /\ ProperDraft(work.draft)

\* node and calls are in AnswersInvariant.
TypeOK ==
    /\ DOMAIN answers = DOMAIN calls
    /\ pending \in {0} \cup DOMAIN calls
    /\ draft # None => Compilable(draft)
    /\ budget \in 0 .. RecursionLimit
    /\ late \in BOOLEAN
    /\ turns \in 0 .. MaxTurns /\ crashes \in 0 .. MaxCrashes

\* The messages sent to the model are well formed: when it is called, every tool
\* call of its last message has exactly one tool message, whatever the number of
\* questions in the batch and whether the batch was executed twice (graph.py,
\* tool_exec and clarify_interrupt).
EveryCallIsAnsweredOnce == node = "llm_call" => \A i \in DOMAIN answers : answers[i] = 1

\* A turn that ends with a final answer leaves no unsaved draft: the gate on the
\* plan in after_llm and the strict save in update_task_plan_item together.
\* "Incremental edit tools save automatically" (prompts.py:42).  One draft slips
\* through: what is edited when no item of the plan is open, and is refused by the
\* validator; what it accepts is in the file all the same.
FinalAnswerMeansSaved ==
    node = "final_response" =>
        draft = None \/ Holds(draft) \/ (late /\ ~ Accepted(draft))

\* After a batch, executed once or once and a half, what the agent believes the
\* flow to be and the file agree: an acceptable draft is what the file holds.
FileFollowsDraft ==
    node = "llm_call" /\ draft # None /\ Accepted(draft) => Holds(draft)

\* Whatever is written to the file can be run: no edge to nowhere, no action that
\* nothing leads to.  A draft, a refused document or half a batch never gets there.
OnlySoundFlowsAreWritten == [][file' # file => SoundFlow(file')]_file

\* The agent comes to rest: it answers, asks, or fails at the recursion limit,
\* even if its plan can never be completed and it is reminded for ever.
AgentComesToRest == []<>(node \in {"idle", "clarify_interrupt", "failed"})
=============================================================================
