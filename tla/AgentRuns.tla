----------------------------- MODULE AgentRuns ------------------------------
(***************************************************************************)
(* The run service: the database rows of PersistentRunStore, its in-memory *)
(* records, the worker threads of run_agent_request, the HTTP handlers     *)
(* create_run and clarify_run, and the restart of the process.             *)
(*                                                                         *)
(* One action is one storage transaction or one locked section, the        *)
(* points at which threads interleave.  The handlers are coroutines        *)
(* without an await: they are serial with each other, so one variable      *)
(* holds the request in flight, but the worker threads run between any two *)
(* of its steps.                                                           *)
(***************************************************************************)
EXTENDS Integers, Sequences

CONSTANTS
    Runs,           \* request ids
    Durable,        \* Postgres checkpointer (TRUE) or one MemorySaver per graph
    Client,         \* how the user replies, see MayReply
    MaxThreads,     \* bound: worker threads of one run in one process lifetime
    MaxQuestions,   \* bound: questions the model asks in one run
    MaxLog,         \* bound: no tool event beyond this length of the log
    MaxChat,        \* bound: the eager client stops at this many messages
    MaxCrashes      \* bound: process restarts

Threads == 1 .. MaxThreads
Asks    == 0 .. MaxQuestions        \* 0: no question, no answer

ASSUME ConstantsAssumption ==
    /\ Durable \in BOOLEAN
    /\ Client \in {"chat", "poll", "eager"}
    /\ MaxThreads \in Nat \ {0}
    /\ {MaxQuestions, MaxLog, MaxChat, MaxCrashes} \subseteq Nat

VARIABLES
    \* ---- the database: survives a crash
    row,        \* row[r]: status and pending_clarification of agent_runs
    log,        \* log[r]: the types of agent_events of r, log[r][n] has seq n
    chat,       \* chat[r]: agent_messages of r, in insertion order
    ckpt,       \* ckpt[r]: the latest LangGraph checkpoint of the run's thread
    \* ---- the process: lost in a crash
    active,     \* the keys of store._active
    mem,        \* mem[r]: status and pending_clarification of the active record
    queue,      \* queue[r]: clarification_queue of the active record
    pc,         \* pc[r][t]: the next step of worker thread t of run r
    task,       \* task[r][t]: arguments of the thread, and whether its
                \*   `record` is the active one
    request,    \* the HTTP request in flight
    up,         \* is the process up
    \* ---- auxiliary
    shown,      \* shown[r]: questions the client has been shown so far
    replied,    \* replied[r]: shown[r] as of the last reply
    used,       \* used[r]: pairs of a question and the answer it was resumed with
    crashes

dbVars     == <<row, log, chat>>
recordVars == <<active, mem, queue>>
threadVars == <<pc, task>>
auxVars    == <<shown, replied, used, crashes>>
vars == <<dbVars, ckpt, recordVars, threadVars, request, up, auxVars>>

Open     == {"queued", "running"}
Terminal == {"completed", "failed"}
Status   == {"absent", "waiting"} \cup Open \cup Terminal
Entry    == [status : Status, ask : Asks]
NoEntry  == [status |-> "absent", ask |-> 0]
EventTypes == {"run_started", "tool", "clarification_required",
               "assistant_message", "run_completed", "run_failed"}

Checkpoint == [at : {"none", "running", "asked", "finished"}, ask : Asks]

\* Steps at which the thread is inside PersistentRunStore.emit.
Emitting == {"started", "graph", "askEmit", "say", "doneEmit", "failEmit"}
PC == {"idle", "boot", "bootRow", "enter", "resume", "ask", "askRow", "askMsg",
       "wait", "clear", "clearRow", "answer", "sayMsg", "done", "doneRow",
       "doneOff", "fail", "failRow", "failOff"} \cup Emitting

Task    == [resume : BOOLEAN, answer : Asks, own : BOOLEAN]
NoTask  == [resume |-> FALSE, answer |-> 0, own |-> FALSE]
Request == [pc : {"none", "spawn", "store", "route", "respawn"},
            run : Runs \cup {"none"}, answer : Asks]
NoRequest == [pc |-> "none", run |-> "none", answer |-> 0]

TypeOK ==
    /\ row     \in [Runs -> Entry]
    /\ log     \in [Runs -> Seq(EventTypes)]
    /\ chat    \in [Runs -> Seq({"prompt", "question", "answer", "reply"})]
    /\ ckpt    \in [Runs -> Checkpoint]
    /\ active  \subseteq Runs
    /\ mem     \in [Runs -> Entry]
    /\ queue   \in [Runs -> Seq(Asks)]
    /\ pc      \in [Runs -> [Threads -> PC]]
    /\ task    \in [Runs -> [Threads -> Task]]
    /\ request \in Request
    /\ up      \in BOOLEAN
    /\ shown   \in [Runs -> Nat]
    /\ replied   \in [Runs -> Nat]
    /\ used    \in [Runs -> SUBSET (Asks \X Asks)]
    /\ crashes \in 0 .. MaxCrashes
-----------------------------------------------------------------------------
(* Storage primitives. *)

Goto(r, t, step) == pc' = [pc EXCEPT ![r][t] = step]

\* _update_run, one transaction.
WriteRow(r, status, ask) == row' = [row EXCEPT ![r] = [status |-> status, ask |-> ask]]

\* The mutation of require(r) under record.lock: it reaches the active record,
\* or a fresh one that is dropped at once.
WriteRecord(r, status, ask) ==
    mem' = IF r \in active
             THEN [mem EXCEPT ![r] = [status |-> status, ask |-> ask]] ELSE mem

\* What a handler sees: the active record, else the row.
View(r) == IF r \in active THEN mem[r] ELSE row[r]

\* _append_event: seq is the maximum plus one, in one transaction.
AppendEvent(r, type) == log' = [log EXCEPT ![r] = Append(@, type)]
InsertMessage(r, kind) == chat' = [chat EXCEPT ![r] = Append(@, kind)]
-----------------------------------------------------------------------------
(* Worker threads: run_agent_request, from the spawn to the end. *)

Boot(r, t) ==                       \* require; set_status, in memory
    /\ pc[r][t] = "boot"
    /\ task' = [task EXCEPT ![r][t].own = (r \in active)]
    /\ mem' = IF r \in active THEN [mem EXCEPT ![r].status = "running"] ELSE mem
    /\ Goto(r, t, "bootRow")
    /\ UNCHANGED <<dbVars, ckpt, active, queue, request, up, auxVars>>

BootRow(r, t) ==                    \* set_status, in the database
    /\ pc[r][t] = "bootRow"
    /\ row' = [row EXCEPT ![r].status = "running"]
    /\ Goto(r, t, IF task[r][t].resume THEN "resume" ELSE "started")
    /\ UNCHANGED <<log, chat, ckpt, recordVars, task, request, up, auxVars>>

EmitStarted(r, t) ==
    /\ pc[r][t] = "started"
    /\ AppendEvent(r, "run_started")
    /\ Goto(r, t, "enter")
    /\ UNCHANGED <<row, chat, ckpt, recordVars, task, request, up, auxVars>>

Enter(r, t) ==                      \* invoke with a fresh input: first checkpoint
    /\ pc[r][t] = "enter"
    /\ ckpt' = [ckpt EXCEPT ![r] = [at |-> "running", ask |-> 0]]
    /\ Goto(r, t, "graph")
    /\ UNCHANGED <<dbVars, recordVars, task, request, up, auxVars>>

\* The graph takes the answer as the value of its interrupt.
Deliver(r, answer) ==
    /\ ckpt[r].at = "asked"
    /\ ckpt' = [ckpt EXCEPT ![r].at = "running"]
    /\ used' = [used EXCEPT ![r] = @ \cup {<<ckpt[r].ask, answer>>}]

CheckpointExists(r) == Durable /\ ckpt[r].at # "none"

ResumeWithAnswer(r, t) ==           \* invoke(Command(resume=answer))
    /\ pc[r][t] = "resume"
    /\ CheckpointExists(r)
    /\ task[r][t].answer # 0
    /\ Deliver(r, task[r][t].answer)
    /\ Goto(r, t, "graph")
    /\ UNCHANGED <<dbVars, recordVars, task, request, up, shown, replied, crashes>>

\* invoke(None), or an answer for a graph that is not interrupted: it goes on
\* where the checkpoint is, and a pending interrupt is raised again.
ResumeAtCheckpoint(r, t) ==
    /\ pc[r][t] = "resume"
    /\ CheckpointExists(r)
    /\ ckpt[r].at = "asked" => task[r][t].answer = 0
    /\ Goto(r, t, CASE ckpt[r].at = "asked"    -> "ask"
                    [] ckpt[r].at = "running"  -> "graph"
                    [] ckpt[r].at = "finished" -> "say")
    /\ UNCHANGED <<dbVars, ckpt, recordVars, task, request, up, auxVars>>

\* Faulty: the missing checkpoint ends the thread and not the run.
ResumeSilently(r, t) ==
    /\ pc[r][t] = "resume"
    /\ ~CheckpointExists(r)
    /\ Goto(r, t, "idle")
    /\ UNCHANGED <<dbVars, ckpt, recordVars, task, request, up, auxVars>>

ResumeWithoutCheckpoint(r, t) ==    \* RuntimeError: checkpoint not found
    /\ pc[r][t] = "resume"
    /\ ~CheckpointExists(r)
    /\ Goto(r, t, "fail")
    /\ UNCHANGED <<dbVars, ckpt, recordVars, task, request, up, auxVars>>

UseTool(r, t) ==                    \* a tool call: an event, the next checkpoint
    /\ pc[r][t] = "graph"
    /\ Len(log[r]) < MaxLog
    /\ AppendEvent(r, "tool")
    /\ UNCHANGED <<row, chat, ckpt, recordVars, threadVars, request, up, auxVars>>

Interrupt(r, t) ==                  \* interrupt(payload) in clarify_interrupt
    /\ pc[r][t] = "graph"
    /\ ckpt[r].ask < MaxQuestions
    /\ ckpt' = [ckpt EXCEPT ![r] = [at |-> "asked", ask |-> @.ask + 1]]
    /\ Goto(r, t, "ask")
    /\ UNCHANGED <<dbVars, recordVars, task, request, up, auxVars>>

Finish(r, t) ==                     \* final_response, the graph returns
    /\ pc[r][t] = "graph"
    /\ ckpt' = [ckpt EXCEPT ![r].at = "finished"]
    /\ Goto(r, t, "say")
    /\ UNCHANGED <<dbVars, recordVars, task, request, up, auxVars>>

\* Building the graph, the model or a tool raises: to the except clause.
Raise(r, t) ==
    /\ pc[r][t] \in {"enter", "resume", "graph"}
    /\ Goto(r, t, "fail")
    /\ UNCHANGED <<dbVars, ckpt, recordVars, task, request, up, auxVars>>

\* Two threads append to one run through records that do not share a lock:
\* uq_agent_events_run_seq rejects one of them.  Raised inside fail, the
\* exception ends the thread.
EmitConflict(r, t) ==
    /\ pc[r][t] \in Emitting
    /\ r \notin active
    /\ \E u \in Threads \ {t} : pc[r][u] \in Emitting
    /\ Goto(r, t, IF pc[r][t] = "failEmit" THEN "idle" ELSE "fail")
    /\ UNCHANGED <<dbVars, ckpt, recordVars, task, request, up, auxVars>>

\* set_pending_clarification: the record, the row, then the event with the
\* chat message that is inserted under the same lock.
Ask(r, t) ==
    /\ pc[r][t] = "ask"
    /\ WriteRecord(r, "waiting", ckpt[r].ask)
    /\ shown' = IF Client = "chat" THEN shown ELSE [shown EXCEPT ![r] = @ + 1]
    /\ Goto(r, t, "askRow")
    /\ UNCHANGED <<dbVars, ckpt, active, queue, task, request, up, replied, used, crashes>>

\* Faulty: the row gets the number of the next question.
AskRowNext(r, t) ==
    /\ pc[r][t] = "askRow"
    /\ WriteRow(r, "waiting", ckpt[r].ask + 1)
    /\ Goto(r, t, "askEmit")
    /\ UNCHANGED <<log, chat, ckpt, recordVars, task, request, up, auxVars>>

AskRow(r, t) ==
    /\ pc[r][t] = "askRow"
    /\ WriteRow(r, "waiting", ckpt[r].ask)
    /\ Goto(r, t, "askEmit")
    /\ UNCHANGED <<log, chat, ckpt, recordVars, task, request, up, auxVars>>

EmitAsk(r, t) ==
    /\ pc[r][t] = "askEmit"
    /\ AppendEvent(r, "clarification_required")
    /\ Goto(r, t, "askMsg")
    /\ UNCHANGED <<row, chat, ckpt, recordVars, task, request, up, auxVars>>

AskMessage(r, t) ==
    /\ pc[r][t] = "askMsg"
    /\ InsertMessage(r, "question")
    /\ shown' = IF Client = "chat" THEN [shown EXCEPT ![r] = @ + 1] ELSE shown
    /\ Goto(r, t, "wait")
    /\ UNCHANGED <<row, log, ckpt, recordVars, task, request, up, replied, used, crashes>>

\* Faulty: the answer is read and left on the queue.
PeekAnswer(r, t) ==
    /\ pc[r][t] = "wait"
    /\ task[r][t].own
    /\ queue[r] # << >>
    /\ task' = [task EXCEPT ![r][t].answer = Head(queue[r])]
    /\ Goto(r, t, "clear")
    /\ UNCHANGED <<dbVars, ckpt, recordVars, request, up, auxVars>>

\* clarification_queue.get().  A thread whose record is not the active one
\* waits on a queue that nobody else can reach.
TakeAnswer(r, t) ==
    /\ pc[r][t] = "wait"
    /\ task[r][t].own
    /\ queue[r] # << >>
    /\ task' = [task EXCEPT ![r][t].answer = Head(queue[r])]
    /\ queue' = [queue EXCEPT ![r] = Tail(@)]
    /\ Goto(r, t, "clear")
    /\ UNCHANGED <<dbVars, ckpt, active, mem, request, up, auxVars>>

Clear(r, t) ==                      \* clear_pending_clarification
    /\ pc[r][t] = "clear"
    /\ WriteRecord(r, "running", 0)
    /\ Goto(r, t, "clearRow")
    /\ UNCHANGED <<dbVars, ckpt, active, queue, task, request, up, auxVars>>

ClearRow(r, t) ==
    /\ pc[r][t] = "clearRow"
    /\ WriteRow(r, "running", 0)
    /\ Goto(r, t, "answer")
    /\ UNCHANGED <<log, chat, ckpt, recordVars, task, request, up, auxVars>>

Continue(r, t) ==                   \* invoke(Command(resume=answer)) in the loop
    /\ pc[r][t] = "answer"
    /\ Deliver(r, task[r][t].answer)
    /\ Goto(r, t, "graph")
    /\ UNCHANGED <<dbVars, recordVars, task, request, up, shown, replied, crashes>>

Say(r, t) ==                        \* ui.assistant, when there is a final text
    /\ pc[r][t] = "say"
    /\ \/ AppendEvent(r, "assistant_message") /\ Goto(r, t, "sayMsg")
       \/ UNCHANGED log /\ Goto(r, t, "done")
    /\ UNCHANGED <<row, chat, ckpt, recordVars, task, request, up, auxVars>>

SayMessage(r, t) ==
    /\ pc[r][t] = "sayMsg"
    /\ InsertMessage(r, "reply")
    /\ Goto(r, t, "done")
    /\ UNCHANGED <<row, log, ckpt, recordVars, task, request, up, auxVars>>

\* complete and fail: the record, the row, the event, deactivate.
EndRecord(r, t, from, status, to) ==
    /\ pc[r][t] = from
    /\ WriteRecord(r, status, 0)
    /\ Goto(r, t, to)
    /\ UNCHANGED <<dbVars, ckpt, active, queue, task, request, up, auxVars>>

EndRow(r, t, from, status, to) ==
    /\ pc[r][t] = from
    /\ WriteRow(r, status, 0)
    /\ Goto(r, t, to)
    /\ UNCHANGED <<log, chat, ckpt, recordVars, task, request, up, auxVars>>

EndEvent(r, t, from, type, to) ==
    /\ pc[r][t] = from
    /\ AppendEvent(r, type)
    /\ Goto(r, t, to)
    /\ UNCHANGED <<row, chat, ckpt, recordVars, task, request, up, auxVars>>

\* Faulty: what comes after the event raises, and the except clause runs fail.
CompleteThenFail(r, t) ==
    \/ EndRecord(r, t, "done", "completed", "doneRow")
    \/ EndRow(r, t, "doneRow", "completed", "doneEmit")
    \/ EndEvent(r, t, "doneEmit", "run_completed", "fail")

\* Faulty: complete emits its event before it writes the row.
CompleteEventFirst(r, t) ==
    \/ EndRecord(r, t, "done", "completed", "doneRow")
    \/ EndEvent(r, t, "doneRow", "run_completed", "doneEmit")
    \/ EndRow(r, t, "doneEmit", "completed", "doneOff")

Complete(r, t) ==
    \/ EndRecord(r, t, "done", "completed", "doneRow")
    \/ EndRow(r, t, "doneRow", "completed", "doneEmit")
    \/ EndEvent(r, t, "doneEmit", "run_completed", "doneOff")

Fail(r, t) ==
    \/ EndRecord(r, t, "fail", "failed", "failRow")
    \/ EndRow(r, t, "failRow", "failed", "failEmit")
    \/ EndEvent(r, t, "failEmit", "run_failed", "failOff")

\* Faulty: every record is dropped, not the one of the run that ends.
DeactivateAll(r, t) ==
    /\ pc[r][t] \in {"doneOff", "failOff"}
    /\ active' = {}
    /\ mem' = [s \in Runs |-> NoEntry]
    /\ queue' = [s \in Runs |-> << >>]
    /\ Goto(r, t, "idle")
    /\ UNCHANGED <<dbVars, ckpt, task, request, up, auxVars>>

\* The record, and with it its queue, is out of everybody's reach.
Deactivate(r, t) ==
    /\ pc[r][t] \in {"doneOff", "failOff"}
    /\ active' = active \ {r}
    /\ mem' = [mem EXCEPT ![r] = NoEntry]
    /\ queue' = [queue EXCEPT ![r] = << >>]
    /\ Goto(r, t, "idle")
    /\ UNCHANGED <<dbVars, ckpt, task, request, up, auxVars>>

Worker(r, t) ==
    \/ Boot(r, t) \/ BootRow(r, t) \/ EmitStarted(r, t) \/ Enter(r, t)
    \/ ResumeWithAnswer(r, t) \/ ResumeAtCheckpoint(r, t) \/ ResumeWithoutCheckpoint(r, t)
    \/ UseTool(r, t) \/ Interrupt(r, t) \/ Finish(r, t)
    \/ up /\ (Raise(r, t) \/ EmitConflict(r, t))      \* an exception, of either kind
    \/ Ask(r, t) \/ AskRow(r, t) \/ EmitAsk(r, t) \/ AskMessage(r, t)
    \/ TakeAnswer(r, t) \/ Clear(r, t) \/ ClearRow(r, t) \/ Continue(r, t)
    \/ Say(r, t) \/ SayMessage(r, t) \/ Complete(r, t) \/ Fail(r, t) \/ Deactivate(r, t)
-----------------------------------------------------------------------------
(* Requests, crash and restart. *)

\* start_agent_worker: the thread takes the first free slot of the bound.
Spawn(r, resume, answer) ==
    \E t \in Threads :
        /\ pc[r][t] = "idle"
        /\ \A u \in 1 .. t - 1 : pc[r][u] # "idle"
        /\ Goto(r, t, "boot")
        /\ task' = [task EXCEPT ![r][t] =
                       [resume |-> resume, answer |-> answer, own |-> FALSE]]

CreateRun(r) ==                     \* the row and the prompt, one transaction
    /\ up
    /\ request.pc = "none"
    /\ row[r].status = "absent"
    /\ WriteRow(r, "queued", 0)
    /\ InsertMessage(r, "prompt")
    /\ request' = [NoRequest EXCEPT !.pc = "spawn", !.run = r]
    /\ UNCHANGED <<log, ckpt, recordVars, threadVars, up, auxVars>>

StartRun(r) ==                      \* _active, then the worker
    /\ request.pc = "spawn"
    /\ request.run = r
    /\ active' = active \cup {r}
    /\ mem' = [mem EXCEPT ![r] = [status |-> "queued", ask |-> 0]]
    /\ queue' = [queue EXCEPT ![r] = << >>]
    /\ Spawn(r, FALSE, 0)
    /\ request' = NoRequest
    /\ UNCHANGED <<dbVars, ckpt, up, auxVars>>

\* Whether the user sends (another) reply: "chat" replies once to each question
\* in the message list, "poll" once to each question it sees in the run status,
\* "eager" at any time.
MayReply(r) ==
    IF Client = "eager" THEN Len(chat[r]) < MaxChat ELSE replied[r] < shown[r]

\* require_record and the status check; any other status is a 409.
Clarify(r) ==
    /\ up
    /\ request.pc = "none"
    /\ MayReply(r)
    /\ View(r).status = "waiting"
    /\ request' = [pc |-> "store", run |-> r, answer |-> View(r).ask]
    /\ replied' = [replied EXCEPT ![r] = shown[r]]
    /\ UNCHANGED <<dbVars, ckpt, recordVars, threadVars, up, shown, used, crashes>>

StoreAnswer(r) ==                   \* store_clarification_answer
    /\ request.pc = "store"
    /\ request.run = r
    /\ InsertMessage(r, "answer")
    /\ request' = [request EXCEPT !.pc = "route"]
    /\ UNCHANGED <<row, log, ckpt, recordVars, threadVars, up, auxVars>>

\* Faulty: the answer goes to the queue of every active run.
HandToAll(r) ==
    /\ request.pc = "route"
    /\ request.run = r
    /\ r \in active
    /\ queue' = [s \in Runs |-> IF s \in active THEN Append(queue[s], request.answer)
                                              ELSE queue[s]]
    /\ request' = NoRequest
    /\ UNCHANGED <<dbVars, ckpt, active, mem, threadVars, up, auxVars>>

HandAnswer(r) ==                    \* is_active_record: put on the queue
    /\ request.pc = "route"
    /\ request.run = r
    /\ r \in active
    /\ queue' = [queue EXCEPT ![r] = Append(@, request.answer)]
    /\ request' = NoRequest
    /\ UNCHANGED <<dbVars, ckpt, active, mem, threadVars, up, auxVars>>

\* Not active: clear_pending_clarification, then a worker that resumes.
RouteInactive(r) ==
    /\ request.pc = "route"
    /\ request.run = r
    /\ r \notin active
    /\ WriteRow(r, "running", 0)
    /\ request' = [request EXCEPT !.pc = "respawn"]
    /\ UNCHANGED <<log, chat, ckpt, recordVars, threadVars, up, auxVars>>

\* Faulty: the thread is started without the answer.
RespawnEmptyHanded(r) ==
    /\ request.pc = "respawn"
    /\ request.run = r
    /\ Spawn(r, TRUE, 0)
    /\ request' = NoRequest
    /\ UNCHANGED <<dbVars, ckpt, recordVars, up, auxVars>>

Respawn(r) ==
    /\ request.pc = "respawn"
    /\ request.run = r
    /\ Spawn(r, TRUE, request.answer)
    /\ request' = NoRequest
    /\ UNCHANGED <<dbVars, ckpt, recordVars, up, auxVars>>

Handler(r) == StartRun(r) \/ StoreAnswer(r) \/ HandAnswer(r) \/ RouteInactive(r) \/ Respawn(r)

NoThreads == [r \in Runs |-> [t \in Threads |-> "idle"]]
NoTasks   == [r \in Runs |-> [t \in Threads |-> NoTask]]

\* The process dies: daemon threads, records and the request in flight are gone,
\* and so are the checkpoints of a MemorySaver.
Crash ==
    /\ up
    /\ crashes < MaxCrashes
    /\ crashes' = crashes + 1
    /\ up' = FALSE
    /\ active' = {}
    /\ mem' = [r \in Runs |-> NoEntry]
    /\ queue' = [r \in Runs |-> << >>]
    /\ pc' = NoThreads
    /\ task' = NoTasks
    /\ request' = NoRequest
    /\ ckpt' = IF Durable THEN ckpt ELSE [r \in Runs |-> [at |-> "none", ask |-> 0]]
    /\ UNCHANGED <<dbVars, shown, replied, used>>

\* Faulty: waiting runs are recovered as well (ACTIVE_STATUSES).
RestartWaiting ==
    /\ ~up
    /\ up' = TRUE
    /\ pc' = [r \in Runs |-> [t \in Threads |->
                IF t = 1 /\ row[r].status \in Open \cup {"waiting"} THEN "boot" ELSE "idle"]]
    /\ task' = [r \in Runs |-> [t \in Threads |->
                [NoTask EXCEPT !.resume = t = 1 /\ row[r].status # "queued"]]]
    /\ UNCHANGED <<dbVars, ckpt, recordVars, request, auxVars>>

\* Faulty: every run that has not completed is recovered.
RestartUncompleted ==
    /\ ~up
    /\ up' = TRUE
    /\ pc' = [r \in Runs |-> [t \in Threads |->
                IF t = 1 /\ row[r].status \in Open \cup {"waiting", "failed"} THEN "boot" ELSE "idle"]]
    /\ task' = [r \in Runs |-> [t \in Threads |->
                [NoTask EXCEPT !.resume = t = 1 /\ row[r].status # "queued"]]]
    /\ UNCHANGED <<dbVars, ckpt, recordVars, request, auxVars>>

\* Faulty: a run that was still queued is left behind.
RestartRunning ==
    /\ ~up
    /\ up' = TRUE
    /\ pc' = [r \in Runs |-> [t \in Threads |->
                IF t = 1 /\ row[r].status \in {"running"} THEN "boot" ELSE "idle"]]
    /\ task' = [r \in Runs |-> [t \in Threads |->
                [NoTask EXCEPT !.resume = t = 1 /\ row[r].status # "queued"]]]
    /\ UNCHANGED <<dbVars, ckpt, recordVars, request, auxVars>>

\* lifespan: a worker for every queued or running row, before any request; the
\* runs do not become active again.
Restart ==
    /\ ~up
    /\ up' = TRUE
    /\ pc' = [r \in Runs |-> [t \in Threads |->
                IF t = 1 /\ row[r].status \in Open THEN "boot" ELSE "idle"]]
    /\ task' = [r \in Runs |-> [t \in Threads |->
                [NoTask EXCEPT !.resume = t = 1 /\ row[r].status = "running"]]]
    /\ UNCHANGED <<dbVars, ckpt, recordVars, request, auxVars>>
-----------------------------------------------------------------------------
Init ==
    /\ row = [r \in Runs |-> NoEntry]
    /\ log = [r \in Runs |-> << >>]
    /\ chat = [r \in Runs |-> << >>]
    /\ ckpt = [r \in Runs |-> [at |-> "none", ask |-> 0]]
    /\ active = {}
    /\ mem = [r \in Runs |-> NoEntry]
    /\ queue = [r \in Runs |-> << >>]
    /\ pc = NoThreads
    /\ task = NoTasks
    /\ request = NoRequest
    /\ up = TRUE
    /\ shown = [r \in Runs |-> 0]
    /\ replied = [r \in Runs |-> 0]
    /\ used = [r \in Runs |-> {}]
    /\ crashes = 0

Next ==
    \/ \E r \in Runs :
         \/ CreateRun(r) \/ Clarify(r) \/ Handler(r)
         \/ \E t \in Threads : Worker(r, t)
    \/ Crash
    \/ Restart

\* The operating system runs every thread that can run, the event loop finishes
\* the request it took, and the orchestrator restarts a dead process.  Nothing
\* obliges the user to create runs or to reply.
Fairness ==
    /\ \A r \in Runs : WF_vars(Handler(r))
    /\ \A r \in Runs, t \in Threads : WF_vars(Worker(r, t))
    /\ WF_vars(Restart)

Safety == Init /\ [][Next]_vars
Spec   == Safety /\ Fairness
-----------------------------------------------------------------------------
(* Correctness. *)

\* A thread that still acts on the run; a thread that waits on a private queue
\* never will.
Driving(r, t) == pc[r][t] # "idle" /\ (pc[r][t] = "wait" => task[r][t].own)

\* The request in flight is about to start a thread for the run.
Starting(r) == request.run = r /\ request.pc \in {"spawn", "respawn"}

(***************************************************************************)
(* At most one thread drives a run: recovery, the creation of the run and  *)
(* a reply to an inactive run never put two agents on one thread_id, where *)
(* they would write the same flow file and race for event numbers.         *)
(***************************************************************************)
SingleDriver ==
    \A r \in Runs :
        /\ \A t, u \in Threads : Driving(r, t) /\ Driving(r, u) => t = u
        /\ Starting(r) => \A t \in Threads : ~Driving(r, t)

(***************************************************************************)
(* While the process is up, a row that says queued or running has a thread *)
(* that works on it or a request about to start one: no run is left open   *)
(* with nobody to end it, whatever replies and restarts come in between.   *)
(***************************************************************************)
OpenRunIsDriven ==
    \A r \in Runs :
        up /\ row[r].status \in Open =>
            Starting(r) \/ \E t \in Threads : Driving(r, t)

\* Steps after which the thread still writes the row before it ends or sleeps.
Owing == PC \ {"idle", "askEmit", "askMsg", "wait", "doneEmit", "doneOff",
                "failEmit", "failOff"}

(***************************************************************************)
(* The reason for OpenRunIsDriven: whoever made the row queued or running  *)
(* is still there and owes it another write, so that a thread that ends or *)
(* starts to wait never leaves an open row behind.                         *)
(***************************************************************************)
OpenRunIsOwed ==
    \A r \in Runs :
        up /\ row[r].status \in Open =>
            Starting(r) \/ \E t \in Threads : pc[r][t] \in Owing

(***************************************************************************)
(* Every answer the graph was resumed with is the answer to the question   *)
(* it was interrupted for.                                                 *)
(***************************************************************************)
AnswersMatch == \A r \in Runs : \A pair \in used[r] : pair[1] = pair[2]

(***************************************************************************)
(* An accepted reply on the queue has a reader: the thread that owns the   *)
(* queue is at, or on its way to, clarification_queue.get().               *)
(***************************************************************************)
QueuedAnswerHasReader ==
    \A r \in Runs :
        queue[r] # << >> =>
            \E t \in Threads :
                /\ task[r][t].own
                /\ pc[r][t] \in {"askRow", "askEmit", "askMsg", "wait"}

(***************************************************************************)
(* The event log of a run tells one story: run_started is never repeated   *)
(* and comes first, and after run_completed or run_failed nothing follows. *)
(***************************************************************************)
LogTellsOneRun ==
    \A r \in Runs : \A n \in 1 .. Len(log[r]) :
        /\ log[r][n] = "run_started" => n = 1
        /\ log[r][n] \in {"run_completed", "run_failed"} => n = Len(log[r])

(***************************************************************************)
(* A terminal event in the log agrees with the row: whoever reads          *)
(* run_completed (run_failed) finds the run completed (failed) for good.   *)
(***************************************************************************)
TerminalEventAgreesWithRow ==
    \A r \in Runs : \A n \in 1 .. Len(log[r]) :
        /\ log[r][n] = "run_completed" => row[r].status = "completed"
        /\ log[r][n] = "run_failed"    => row[r].status = "failed"

(***************************************************************************)
(* The status column follows the run lifecycle, ends included, and the     *)
(* agent makes the progress the lifecycle promises, through crashes too.   *)
(***************************************************************************)
Lifecycle == INSTANCE RunLifecycle WITH status <- [r \in Runs |-> row[r].status]
FollowsLifecycle == Lifecycle!Spec
KeepsLifecycle   == Lifecycle!Safety

\* The row says that the run waits for the answer to this question, and nobody has
\* one: no request, no queue, no thread.  A reply would be accepted.
QuestionOpen(r, question) ==
    /\ up
    /\ row[r] = [status |-> "waiting", ask |-> question]
    /\ request.run # r
    /\ queue[r] = << >>
    /\ \A t \in Threads : pc[r][t] \in {"idle", "wait"}

(***************************************************************************)
(* A reply the server took reaches the graph, or the run ends.  A crash    *)
(* may take the reply; then the process comes up again with the question   *)
(* open, and the run waits for a second reply.  It is asked again only if  *)
(* the row said running already, so that the recovered worker raises the   *)
(* interrupt once more.  A crash before that leaves a waiting row, which   *)
(* is not recovered: nothing asks again, and a user who has replied to     *)
(* what the chat shows has no reason to reply once more.                   *)
(***************************************************************************)
ReplyReachesGraph ==
    \A r \in Runs, a \in 1 .. MaxQuestions, c \in 0 .. MaxCrashes :
        request.pc = "route" /\ request.run = r /\ request.answer = a /\ crashes = c
            ~> \/ <<a, a>> \in used[r]
               \/ row[r].status \in Terminal
               \/ crashes > c /\ QuestionOpen(r, a)
=============================================================================
