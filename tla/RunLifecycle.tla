---------------------------- MODULE RunLifecycle ----------------------------
(***************************************************************************)
(* What the run store promises about the status column of agent_runs: a    *)
(* run is queued, then running; it alternates between running and waiting  *)
(* for a clarification, and ends once, completed or failed, for good.      *)
(* Nothing here mentions threads, the in-memory record, events or crashes. *)
(***************************************************************************)
CONSTANT Runs          \* request ids

VARIABLE status        \* status[r]: the status column, or "absent"

Open     == {"queued", "running"}          \* RECOVERABLE_STATUSES
Terminal == {"completed", "failed"}        \* TERMINAL_STATUSES
Status   == {"absent", "waiting"} \cup Open \cup Terminal

Move(r, from, to) ==
    /\ status[r] \in from
    /\ status' = [status EXCEPT ![r] = to]

Submit(r)   == Move(r, {"absent"},  "queued")
Start(r)    == Move(r, {"queued"},  "running")
Ask(r)      == Move(r, {"running"}, "waiting")
Answer(r)   == Move(r, {"waiting"}, "running")
Complete(r) == Move(r, {"running"}, "completed")
Fail(r)     == Move(r, {"running"}, "failed")

Init == status = [r \in Runs |-> "absent"]

Work(r) == Ask(r) \/ Complete(r) \/ Fail(r)

Next == \E r \in Runs : Submit(r) \/ Start(r) \/ Answer(r) \/ Work(r)

\* The agent owes progress on a run that is not waiting; the user owes none.
Fairness == \A r \in Runs : WF_status(Start(r)) /\ WF_status(Work(r))

Safety == Init /\ [][Next]_status
Spec   == Safety /\ Fairness

(***************************************************************************)
(* A run that was submitted, or answered, reaches a point where the agent  *)
(* no longer owes anything: it waits for the user or has ended.            *)
(***************************************************************************)
Progress == \A r \in Runs : status[r] \in Open ~> status[r] \notin Open
=============================================================================
