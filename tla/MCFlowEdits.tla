---------------------------- MODULE MCFlowEdits -----------------------------
(* Instances of FlowEdits for TLC. *)
EXTENDS FlowEdits, TLC

CONSTANTS start, menu, act

Button(text, next) == [text |-> text, next |-> next]
Menu(buttons) == [Bare(menu, "send_text") EXCEPT !.buttons = buttons]
Edit(target) == [Bare(act, "edit_message") EXCEPT !.target = target]

\* A trigger, a menu that points to its target or back to the trigger, an edit
\* of the menu, buttons with one text, a step with named outputs, and a runtime
\* node.
LinkedSteps ==
    { Bare(start, "command_trigger"),
      Menu(<<Button("go", act)>>), Menu(<<Button("go", start), Button("back", None)>>),
      Menu(<<Button("go", act), Button("go", act)>>),
      Menu(<<Button("go", act), Button("go", start)>>), Edit(menu), Edit(start),
      Bare(act, "custom_code"),
      [Bare(act, "raw_node") EXCEPT !.value = "data", !.routes = <<Route(act, menu, Plain("next"))>>] }

LinkedRoutes ==
    { Route(start, menu, NoHandle), Route(start, act, NoHandle),
      Route(act, start, Plain("next")), Route(act, menu, Output("next")),
      Route(menu, act, Plain("next")), Route(menu, start, ButtonOf("go")) }

\* Conditions: the old form, an else after it, and the form with branches.
ConditionSteps ==
    { Bare(start, "command_trigger"), Bare(menu, "if_condition"), Bare(act, "else"),
      [Bare(menu, "if_condition") EXCEPT !.branches = TRUE],
      Bare(act, "command_trigger") }

ConditionRoutes ==
    { Route(start, menu, NoHandle), Route(menu, act, Plain("next")),
      Route(menu, act, Plain("true")), Route(act, start, Plain("true")),
      Route(act, menu, NoHandle) }

AllSteps  == LinkedSteps \cup ConditionSteps
AllRoutes == LinkedRoutes \cup ConditionRoutes
=============================================================================
