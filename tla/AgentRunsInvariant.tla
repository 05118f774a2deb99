------------------------- MODULE AgentRunsInvariant -------------------------
(***************************************************************************)
(* Why a run follows its lifecycle when its user replies once to each      *)
(* question (Client = "chat"): the inductive invariants behind             *)
(* SingleDriver and KeepsLifecycle.  ServiceInvariant survives a database  *)
(* that refuses transactions (StorageFaults), Attended does not.           *)
(***************************************************************************)
EXTENDS AgentRuns

\* What the row says while a driving thread is at a step.
MidRun     == {"started", "enter", "resume", "graph", "ask", "askRow", "answer",
               "say", "sayMsg", "done", "doneRow"}
AtQuestion == {"askEmit", "askMsg", "wait", "clear", "clearRow"}
Failing    == {"fail", "failRow"}

RowAtStep(r, t) ==
    /\ pc[r][t] \in {"boot", "bootRow"} =>
         row[r].status = IF task[r][t].resume THEN "running" ELSE "queued"
    /\ pc[r][t] \in MidRun => row[r].status = "running"
    /\ pc[r][t] \in AtQuestion => row[r].status = "waiting"
    /\ pc[r][t] \in {"doneEmit", "doneOff"} => row[r].status = "completed"
    /\ pc[r][t] \in {"failEmit", "failOff"} => row[r].status = "failed"

\* The record of a run that is active belongs to the thread driving it, once that
\* has looked for it.
Ownership(r) ==
    \A t \in Threads :
        Driving(r, t) =>
            IF pc[r][t] = "boot" THEN ~task[r][t].own ELSE task[r][t].own <=> r \in active

\* Nothing can happen to the run but a reply, and if the run is active a thread
\* waits for one.
Quiet(r) ==
    /\ row[r].status = "waiting"
    /\ \A t \in Threads : Driving(r, t) => pc[r][t] = "wait"
    /\ r \in active => \E t \in Threads : Driving(r, t)

\* One reply at a time: it is yet to be sent, in the handler, or on the queue.
Unanswered(r) == shown[r] # replied[r]
Replying(r)   == request.run = r /\ request.pc \in {"store", "route"}
Queued(r)     == queue[r] # << >>

OneReply(r) ==
    /\ Unanswered(r) => ~Replying(r) /\ shown[r] = replied[r] + 1
    /\ Queued(r) => ~Unanswered(r) /\ ~Replying(r) /\ Len(queue[r]) = 1 /\ r \in active
    /\ Unanswered(r) \/ Replying(r) \/ Queued(r) => Quiet(r)

StartingRow(r) ==
    request.run = r =>
        /\ request.pc = "spawn" => row[r].status = "queued" /\ r \notin active
        /\ request.pc = "respawn" => row[r].status = "running" /\ r \notin active

AloneInRun(r) ==
    /\ \A t, u \in Threads : Driving(r, t) /\ Driving(r, u) => t = u
    /\ Starting(r) => \A t \in Threads : ~Driving(r, t)

\* Of a run that is not there yet there is nothing.
AbsentRow(r) ==
    row[r].status = "absent" =>
        /\ \A t \in Threads : ~Driving(r, t)
        /\ r \notin active
        /\ shown[r] = replied[r]

RunInvariant(r) ==
    /\ AloneInRun(r)
    /\ \A t \in Threads : Driving(r, t) => RowAtStep(r, t)
    /\ Ownership(r)
    /\ OneReply(r)
    /\ StartingRow(r)
    /\ AbsentRow(r)

\* Of a process that is down nothing is left.
DownIsEmpty ==
    ~up => /\ pc = NoThreads
           /\ active = {}
           /\ request = NoRequest
           /\ queue = [r \in Runs |-> << >>]

ServiceInvariant == DownIsEmpty /\ \A r \in Runs : RunInvariant(r)

\* As long as every transaction succeeds: an active run has a driver, and only a
\* run that is running fails.
Attended(r) ==
    /\ r \in active => \E t \in Threads : Driving(r, t)
    /\ \A t \in Threads : pc[r][t] \in Failing => row[r].status = "running"

ChatInvariant == ServiceInvariant /\ \A r \in Runs : Attended(r)
=============================================================================
