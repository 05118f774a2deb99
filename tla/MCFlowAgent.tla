---------------------------- MODULE MCFlowAgent -----------------------------
(* Instances of FlowAgent for TLC. *)
EXTENDS FlowAgent

CONSTANTS start, menu, act, build, check

Start == Bare(start, "command_trigger")
Menu(buttons) == [Bare(menu, "send_text") EXCEPT !.buttons = buttons]
Go(next) == <<[text |-> "go", next |-> next]>>
Act == Bare(act, "send_text")

From1(source, via) == [source |-> source, via |-> via, text |-> "go", handle |-> NoHandle]
Upsert(step, incoming) == [tool |-> "upsert_step", step |-> step, trigger |-> "kind", incoming |-> incoming]
Delete(id)      == [tool |-> "remove_step", id |-> id]
Link(a, b)      == [tool |-> "connect_steps", routes |-> <<Route(a, b, NoHandle)>>]
Patch(id, p)    == [tool |-> "patch_step_block", id |-> id, patch |-> p]
Yaml(doc)       == [tool |-> "save_flow_yaml", doc |-> doc]
Plan(items)     == [tool |-> "create_task_plan", items |-> items]
Update(i, s)    == [tool |-> "update_task_plan_item", item |-> i, status |-> s]
Tool(name)      == [tool |-> name]

MakePlan == Plan(<<build, check>>)
Done(i)  == Update(i, "completed")
Clarify  == Tool("request_clarification")

Orphans == [triggers |-> <<Start>>, steps |-> <<Act>>, routes |-> << >>]
Twice   == [triggers |-> <<Start, Start>>, steps |-> << >>, routes |-> << >>]

GlobalCallback == [Bare(act, "callback_query_trigger") EXCEPT !.global = TRUE]

\* Every tool, in batches with the order of calls that matters: a step before and
\* after what leads to it, a repair, a document the validator refuses, two questions.
Talk ==
    { <<MakePlan>>, <<Done(build)>>, <<Done(check)>>, <<Done(build), Done(check)>>,
      <<MakePlan, Upsert(Start, None)>>,
      <<Upsert(Menu(Go(None)), From1(start, "default")), Upsert(Act, From1(menu, "button"))>>,
      <<Upsert(Menu(Go(act)), From1(start, "default"))>>, <<Upsert(Menu(Go(act)), None)>>,
      <<Upsert(Act, From1(menu, "default")), Upsert(Act, From1(menu, "route"))>>,
      <<Upsert(Act, From1(menu, "button")), Link(start, act), Delete(menu)>>,
      <<Upsert(Act, None), Done(check)>>, <<Link(start, act), Done(check)>>,
      <<Patch(menu, [buttons |-> << >>])>>, <<Yaml(Orphans)>>, <<Yaml(Twice)>>,
      <<Yaml(None), Upsert(GlobalCallback, None), Tool("unknown")>>,
      <<Tool("get_flow_yaml"), Tool("analyze_flow_connectivity")>>,
      <<Clarify, Upsert(Start, None)>>, <<Clarify, Clarify>>, <<Tool("malformed")>> }

StartFile == Compile([triggers |-> <<Start>>, steps |-> << >>, routes |-> << >>])
Files == {None, EmptyFlow, StartFile}

\* What the theorems on the file ask of the model and of the files it finds.
ASSUME ProperInstance == ProperCalls /\ ProperStart
=============================================================================
