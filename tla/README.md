# Verification of the Botmother Flow Agent

TLA+ models of the agent service (`src/bm_flow_agent`), the TLC instances that
check them, and TLAPS proofs of what matters most about them.

The service runs an LLM agent that edits a bot flow. A user creates a *run*; a
worker thread drives a LangGraph graph for it, stores events and chat messages,
may stop to ask the user a question, and ends the run. Rows live in a database,
the objects the threads share live in memory, and a restarted process recovers
what it left behind.

## 1. The system

| part | state | operations |
|---|---|---|
| run store (`storage.py`) | tables `agent_runs`, `agent_events`, `agent_messages`; `_active` records with status, pending clarification, `clarification_queue`, `subscribers`, a lock each | `create`, `set_status`, `emit`, `set_pending_clarification`, `clear_pending_clarification`, `store_clarification_answer`, `complete`, `fail`, `deactivate`, `stream`, listings |
| HTTP handlers (`api.py`) | none of their own; coroutines on one event loop | `create_run`, `clarify_run`, `get_run`, `list_active_runs`, `stream_events`, `list_project_messages`; `lifespan` recovers runs at startup |
| workers (`run_agent_request`) | program counter, the `record` it started with, `resume_*` arguments | start or resume the graph, ask, wait, continue, say, complete or fail |
| checkpointer (LangGraph) | the latest checkpoint of each `thread_id`: PostgresSaver, or one MemorySaver per graph | invoke, interrupt, resume |
| agent graph (`graph.py`) | messages, `current_plan`, `working_dsl`, `pending_clarification` | `llm_call`, `tool_exec`, `clarify_interrupt`, `plan_reminder`, `final_response` |
| planning tools | the plan in the graph state | `create_task_plan`, `update_task_plan_item` |
| flow editing tools | `working_dsl`, the flow file | `upsert_step`, `remove_step`, `connect_steps`, `patch_step_block`, `save_flow_yaml`, `get_flow_yaml`, `analyze_flow_connectivity`, ... |
| DSL: models, parser, validator, compiler, importer, layout | pure functions on a document | validate, reachability, compile to nodes and edges, import, place |
| catalog | a table of node kinds, their fields, and where each is in the file | compile and import the data of a node |
| console UI | pointer, marks and answers of the question being asked | keys, numbered lines, batches of questions |
| prompts, repository tools, CLI, auth, Redis broker, Helm chart | tables, text, I/O | |

How they interact. A handler writes rows through the store and starts a daemon
thread. The thread calls the store for every event, and the store wakes the SSE
readers through the event loop. A question travels from the graph (an interrupt)
through the record and the row to the client, the reply through `clarify_run`
either to the queue of the active record or, if the run is not active in this
process, into a new worker. At startup every `queued` or `running` row gets a
worker, and such a run never becomes active again.

What is hard here:

- handlers and threads share records and rows without a common lock: a status
  is read, acted upon later, and written in three places (record, row, event)
  one after the other;
- the process may die between any two of these writes, and recovery decides by
  the row alone;
- the same reply may be sent twice, late, or across a restart;
- any transaction may be refused, also the one by which a worker reports that it
  has failed, while what it changed in memory stays changed;
- a reader of the event stream looks at the log, then at the status, then
  sleeps, while both change;
- a flow exists three times, as the file, as the draft in the graph state and as
  the document in a checkpoint, and a batch of tool calls changes the first at
  once and the others at its end;
- the file is all that the next session has: what the compiler writes must be
  read back as the same document, through button texts, handles, merged
  conditions, and fields that are renamed, nested, or left out when empty;
- an answer is chosen in one program, and read by the model and by the people in
  the chat through two different pieces of code.

The complete list, with a line of code for each, is `hazards` in `PROJECT.json`.

### What makes each part correct

- **Store, handlers, workers**: one driver per run; no open run without a
  driver; the status column follows a lifecycle and never leaves a terminal
  state; every answer goes to its question and reaches the graph, or a crash leaves
  the question open; the event log tells one run, and its terminal event agrees with the row.
- **Event stream**: the log in order, without gaps or repetitions; no lost
  wake-up; a stream of a run that is over ends, and ends with its last event.
- **Agent graph and tools**: a final answer leaves nothing unsaved; only sound
  flows reach the file, also when a batch of calls is executed twice; the model
  is called with one tool message for each tool call; an invoke ends.
- **DSL**: compiling and importing again gives the same flow and the same fields,
  and keeps what the tools do not know; what the validator accepts is connected,
  and it judges the links the compiler writes; a removed step leaves no reference
  behind; both graph searches end, also on cycles, and the nodes stand apart.
- **Clarification**: an answer given on a terminal or a pipe chooses among the
  options of its own question; the model and the chat read what the user saw marked,
  or posted.

## 2. Modules

| module | models |
|---|---|
| `RunLifecycle` | the abstract specification: what the status column promises, with the progress the agent owes |
| `AgentRuns` | store, handlers, workers, checkpoints, crash and restart |
| `AgentRunsInvariant` | the inductive invariant of the runs: `ServiceInvariant`, the part that failed transactions leave alone, and `Attended`, with it `ChatInvariant` |
| `StorageFaults` | `AgentRuns` with a database that may refuse any transaction |
| `EventStream` | SSE readers composed with `AgentRuns` |
| `Clarification` | an answer on its way from the keys of the user to the model and the chat |
| `AgentRunsProofs`, `EventStreamProofs` | the TLAPS proofs; the first also those about `StorageFaults` |
| `ClarificationProofs` | the TLAPS proofs about answers |
| `Lists` | one operator on lists, written so that a proof can expand it |
| `FlowDocument` | documents, the edits of the parser, the validator, with reachability as a definition |
| `FlowReachability` | the loop by which the validator computes reachability |
| `FlowCompiler` | document to file (compile, implicit edges, deduplication) and back (import, buttons, merged conditions) |
| `FlowEdits` | one document under any sequence of edits |
| `FlowLayout` | the search by which the nodes get their columns, and the positions |
| `FlowLoops` | `FlowLayout` and `FlowReachability` on one graph, as in one save |
| `NodeData` | the catalog, and the fields of one step written to and read from the data of its node |
| `NodeDataProofs` | the TLAPS proofs about fields and data |
| `FlowTools` | the tools the model calls, as functions of plan, draft and file |
| `FlowAgent` | the graph over these tools: turns, batches, questions, reminders, the recursion limit, crash and resume |
| `FlowLoopsProofs` | the TLAPS proofs about both searches |
| `FlowDocumentProofs` | the lemmas about documents, edits, compiler and importer |
| `FlowEditsProofs`, `FlowAgentProofs` | the TLAPS proofs, from those lemmas |
| `MCAgentRuns`, `MCStorageFaults`, `MCEventStream`, `MCClarification`, `MCFlowEdits`, `MCFlowLoops`, `MCNodeData`, `MCFlowAgent` | the instances for TLC |

`FlowAgent` and `AgentRuns` are two views of one run. `AgentRuns` sees a graph
that emits, asks, ends or raises, and has what is around it; `FlowAgent` has the
inside, with the rest reduced to a user who writes and replies and a process
that may die between two steps.

### AgentRuns

One action is one storage transaction or one section under a lock: the points at
which another thread can come in between. A worker is a program counter that
walks through `run_agent_request`: `boot` and `bootRow` are the two halves of
`set_status`, `ask`, `askRow`, `askEmit`, `askMsg` the four writes of
`set_pending_clarification`, `done`, `doneRow`, `doneEmit`, `doneOff` those of
`complete`. Because the handlers are coroutines without an `await`, they are
serial among themselves: one variable `request` holds the one in flight, and the
workers run between its steps.

What the model keeps apart, because the properties depend on it:

- `row` (database), `mem` (active record) and `ckpt` (checkpoint) can disagree;
  `View` is what `store.get` shows, the record if there is one;
- `require` returns the active record, or builds a fresh one from the row: a
  thread that recovered a run waits on the queue of a record of its own
  (`task.own` is false) and shares no lock with other threads of the run, so the
  unique constraint on event numbers can hit it (`EmitConflict`; it needs two drivers
  after a restart, so of the passing runs `faults` with its eager client reaches it);
- a question is a number, and an answer is the number of the question it was
  given to, so `used` shows which answer met which question;
- the client: `chat` replies once to each question shown in the message list,
  `poll` once to each question it sees in the run status (the client of the
  tests), `eager` whenever it likes.

Left out: payloads, time stamps, the plan column, the Redis publication,
scoping by project and user. Of the graph only what `run_agent_request` can see
is kept: it emits tool events, interrupts, finishes, or raises. Storage
transactions succeed here, except for the conflict above. One process runs at a
time.
A database with in-memory SQLite is not distinguished from Postgres; the
checkpointer is (`Durable`).

### StorageFaults

The same system with one action more for each place where a thread or a handler
uses the database: the transaction is rolled back and the call raises. `Writing`
and `Reading` are those places; `require` reads the row only of a run that is
not active. In a worker the exception leads to `fail` (`ThreadRaises`), and an
exception inside `fail` ends the thread (`FailRaises`): the run is `lost` until
the process starts again. In a handler the client gets a 500 (`HandlerRaises`).
What was written to the record before stays there, and this is what makes record,
row and log disagree.

### EventStream

A reader is the loop of `stream`: `list`, `check`, `wait`, with an `await` (or a
`yield`, at which the client may disconnect) between them. `bell` counts the
notifications in its queue. `Notify` is conjoined with every step of `AgentRuns`
and rings the readers subscribed to the active record when the step ends an
`emit`; events that carry a chat message end after the message. Readers that
attach while the run is not active subscribe to a throw-away record and live on
the 15 second time-out alone.

### The abstract specification and the refinement

`RunLifecycle` knows six moves of a status column: submit, start, ask, answer,
complete, fail. `AgentRuns` implements it with
`status <- [r \in Runs |-> row[r].status]`: `FollowsLifecycle` is its whole
specification, fairness included, `KeepsLifecycle` its safety part. Crashes,
records, queues and events are stuttering steps of it.

### The DSL modules

A document is a record of triggers, steps and routes, as in `dsl/models.py`; a
step keeps its kind, buttons, routes of its own, the message it edits, whether
it has branches, and one value for all other fields. A handle is a record with a
form (`plain`, `output`, `button`, `selected`) instead of a string with a prefix;
adding and removing the prefix of a runtime node is modelled (`Prefixed`,
`Unprefixed`). Button edges are known by the text of the button, as in the code,
so two buttons with one text are confused as they are there. `Errors` is the set
of the kinds of error the validators report. `Reachable` defines what
`reachable_from_triggers` should return, and `FlowReachability` is its loop.
`else_if` nodes in a chain are left out.

`FlowEdits` has the three edits of `parser.py` as actions, with steps from a
pool, and the properties relate the document, its compiled form, and the
document imported from it.

`FlowLayout` is the search of `assign_positions`. Its queue is a set and any entry
may be popped, because a node is labelled again when a nearer way turns up; the
properties hold for every order, hence for that of the code. `FlowLoops` runs it
and the validator's loop one after the other on one graph, as
`save_document_to_target` does.

`NodeData` follows one step of any kind. A value is what the code tells apart:
unset, an empty list or dict, null, the empty string, one element or several. The
data of a node is a function from paths to values; the entries a step writes are set
together (`SetNested`), since no two of them meet. `Candidates` gives for each
field the places where it is looked for, the first being where it is written;
`Compile` is `compile_step_data`, which leaves out what is empty, and `Import` is
`import_node`, which takes the fields out of the data and keeps the rest. Patching
the `data` of a step directly, and raw nodes, whose data is copied, are left out.

### Clarification

A request has one question or a batch. With a terminal every question is a menu
(`Up`, `Down`, `Space`, `Digit`, `Enter`, `OtherAnswer`); without one it is a
numbered list (`Line`). A client of the API posts everything at once (`Post`): a list
of any answers of `Items`, or one answer, to whatever was asked. `clarify_run` compares
nothing with the request, so `Items` may name any question or none, and any ids.
An answer has the id of a question (`NoId` for none), a text, and one option id,
several, or none. `meant` remembers the options that were marked on the screen when
the answer was given, or that were posted; `Lines` is what may be typed at a pipe;
`ModelReads` is the sentence of `graph.py` and `ChatReads` the line of `storage.py`,
both as the question, text and options they name. The chat looks a question up by the
id the answer names or, without one, by its place in the list (`QuestionId`), which is
why ids are numbers here: one that reads as a place is that place. Left out are posts
with both `option_id` and `option_ids` in one item (the model reads both, the chat the
list), items that are not objects, and the legacy `question` and `options` beside
`questions` in one request.

### FlowTools and FlowAgent

A tool is a function from the state it sees to the new state and how it ended:
with a result, with an error the model reads, or with an exception. `Save` is
`save_document_to_target`: a document without errors is written, one whose
errors may all be repaired later stays a draft while there is a plan, any other
is refused, and in all three cases it becomes `working_dsl`.

`FlowAgent` has one action per node of the graph. `tool_exec` is split into
`RunTool`, one turn of its loop, and `ToolsDone`, its return: the file changes
with the former, the checkpoint (`plan`, `draft`, `pending`, `answers`) with the
latter. `Crash` loses `work`, what the loop has so far, and starts the batch
again at the checkpoint, as `run_agent_request` does with the run after a
restart. `Prompt` is the next message of a chat session, `Reply` the answer to a
question. Messages are counted and not kept: `answers` has, for each call of the
last message of the model, how many tool messages it has got.

The model may call any batch of `Batches`, or stop. The prompt tells it to plan
first and to complete items last, but no code enforces it, and the model here does
as it likes. The auxiliary variable `late` remembers that the draft was edited when
no item of the plan was open; it is forgotten when one is open again.

## 3. Runs

| run | instance | question | properties |
|---|---|---|---|
| `chat_durable` | 1 run, Postgres, 2 questions, 2 crashes, chat client | is a run driven to an end through crashes, and does every reply count or leave its question open? | `TypeOK`, `OpenRunIsDriven`, `QueuedAnswerHasReader`, `ChatInvariant`, `FollowsLifecycle`, `ReplyReachesGraph` |
| `two_runs` | 2 runs, MemorySaver, 1 crash, 2 refused transactions, chat client | do runs leave each other alone, and do row, log and answers stay true when the database does not? | `SingleDriver`, `AnswersMatch`, `LogTellsOneRun`, `TerminalEventAgreesWithRow`, `EndedStaysEnded` |
| `faults` | 1 run, Postgres, 1 crash, 2 refused transactions, eager client | what survives any client and any error of the database? | `OpenRunIsDrivenOrLost`, `StatusesAgreeAtRest`, `OpenRunsProgressOrAreLost`, `RestartMends` |
| `stream` | 1 run, 1 reader, 2 connections, 1 crash | does a reader get everything and stop? | `StreamIsPrefixOfLog`, `NoMissedWakeup`, `LateReaderGetsWholeLog`, `EventsReachReaders`, `StreamsOfEndedRunsClose` |
| `stream_close` | as `stream` | violated: `ClosedStreamEndsWithTerminalEvent` | |
| `reply_after_restart` | 1 run, polling client, 1 crash | violated: `KeepsLifecycle` | |
| `loops` | every graph over 3 ids, with 2 or 3 nodes, any triggers | do both searches of a save end, with the right result? | `ResultIsLeastClosedSet`, `ColumnsAreDistances`, `NodesStandApart`, `ConnectedFlowStartsWithTriggers`, `LoopTerminates`, `SearchEnds` |
| `documents` | 3 ids, 13 steps with conditions of both forms, 10 routes, at most 2 of them at the top | do validator, compiler, importer and edits agree? | `TypeOK`, `ValidatorSeesTheCompiledFlow`, `RoundTripKeepsFlow`, `WrittenFlowStaysAccepted`, `RemovalLeavesNoReference` |
| `linked_triggers` | as `documents`, without conditions | violated: `ImportedTriggersStayTriggers` | |
| `fields` | every kind of the catalog, data of up to 2 entries, 2 edits, any number of sessions | does the next session read what this one wrote? | `ReadsBackWhatWasWritten`, `StrayDataSurvives` |
| `conversation` | all tools in 20 batches of up to 3 calls, 2 turns or a reply, 1 crash | does a batch that is executed again do harm, over which unsaved work is an answer given, does an invoke end? | `EveryCallIsAnsweredOnce`, `FinalAnswerMeansSaved`, `FileFollowsDraft`, `OnlySoundFlowsAreWritten`, `AgentComesToRest` |
| `answers` | single questions with 0, 1 or 3 options and batches of 2, 6 keys in a menu, lines of up to 2 numbers | does an answer fit its question, and do its readers agree? | `AnswersFitTheirQuestions`, `BothReadWhatWasMarked` |

### Disagreements found

1. `stream_close`: a stream can end without the terminal event. `stream` lists
   the events and then asks for the status; `complete` writes the status and
   then appends `run_completed`. Both fall between. `tests/test_api.py:289`
   expects the last event to be `run_completed`. A client that reconnects gets
   it (`LateReaderGetsWholeLog`).
2. `reply_after_restart`: after a restart the recovered run is not active. Its
   worker asks its question again, and the status says so before the event is
   stored. A user who polls the status and replies (as `tests/test_api.py:275-280`
   does) now starts a second worker. An emit of the one that collides with an
   emit of the other fails the run, and then the other one asks: the row goes
   from failed back to waiting.
3. `linked_triggers`: a trigger that a step or a button leads to is read back as
   an ordinary step (`dsl/importer.py:41`), and with it perhaps the only root of
   the flow; "Trigger kinds must live in flow.triggers"
   (`tools/dsl_tools.py:325`).

Seen while modelling, and excluded by a condition of a property or of an instance
that says so:

- two replies to one question are both accepted while the status says waiting; the
  second one is given to the next question, or, if the run ends while it is being
  handled, reopens the run. `AnswersMatch`, `SingleDriver`, `LogTellsOneRun`,
  `TerminalEventAgreesWithRow`, `EndedStaysEnded` and `QueuedAnswerHasReader` hold
  for users who reply once to each question of the message list; with replies to
  the status they fail once a restart or a refused transaction is added. This is
  the assumption `Client = "chat"` of the theorems below;
- between the first and the last write of `set_pending_clarification`
  `GET /runs/{id}` says waiting, and `GET /runs/active` does not yet
  (`tests/test_api.py:424-428` reads one after the other);
- two buttons of one text with different targets both get the target of the last
  edge when the file is imported, and a condition without branches that leads to
  an else node comes back as one step; a route of a menu that has the handle of a
  button is read back as a button's target or is lost, and a runtime node takes
  only routes of its own along (`Faithful`);
- a step may edit the message of a trigger as far as the validator is concerned. The
  edge this writes leads to the trigger, which is then read back as a step
  (`dsl/importer.py:41`), as in 3. above: a flow with one trigger has none in the
  next session. `WrittenFlowStaysAccepted` asks that no edge leads to a trigger;
- with `trigger: true` an action is stored as a trigger, and is then a root for
  the validator: the flow is accepted with an action nothing leads to. The
  batches of `conversation` have only triggers among the triggers;
- while there is a draft, `get_flow_yaml` shows the flow of the file, not the one
  that is being edited (`tools/dsl_tools.py:121-125`), also where the prompt sends
  the model to it after a failed validation (`prompts.py:62`);
- a list or text that is cleared is not written, and what the step carried along
  stands in its place: `selected_callbacks` of an imported callback trigger comes
  back through `value` (`dsl/compiler.py:66-69`, `dsl/importer.py:87-90`), a text
  or code through a second spelling in the file (`newText`, `dynamicMessageText`,
  `code`). `Shadowed` names these states, and `ReadsBackWhatWasWritten` excludes
  them;
- `allow_free_text = false` ("Whether the user may answer this question with free
  text.", `tools/repo_tools.py:193-196`) binds the menu only: the numbered list and
  `clarify_run` take any text. `AnswersFitTheirQuestions` asks it of terminals;
- two questions of a batch with one id are shown in the chat with the text of the
  later one (`DistinctIds`); in a batch the chat leaves out the options when there
  is a text, for a single answer it shows both;
- the digits reach options 1 to 9 only, and a superscript two passes `isdigit`
  where `int` raises (`ui.py:156`, `226`);
- an edit that follows the completion of the plan and that the validator refuses stays
  in `working_dsl`, and nothing makes the agent mend or save it before its final answer
  (`tools/dsl_tools.py:442`; without any plan the edit itself is refused).
  `FinalAnswerMeansSaved` names this case (`late`) and asks the rest;
- a crash after a reply was stored and before the row is running again
  (`api.py:222`, `348`) loses the reply: the row stays waiting, which recovery does
  not pick up, and nothing asks again. The chat shows the reply, and the run waits for
  a second one. `ReplyReachesGraph` says this much: the question is open, and a
  reply would be taken;
- `clarify_run` compares a reply with nothing: not the ids of options and questions,
  not the number of answers, not their order (`api.py:65-69`, `211-222`).
  `AnswersFitTheirQuestions` speaks of consoles only. On a pipe, moreover, the options
  come in the order they were typed in, also twice (`ui.py:216-225`);
- an answer posted for a question that was not asked is shown in the chat without its
  options, and as "Javob berildi" if it has no text, while the model reads the option
  ids (`storage.py:165-170`). `BothReadWhatWasMarked` excludes it (`NotFound`).

### Bounds

`MaxThreads` bounds the workers of a run in one process lifetime (a slot is used
again when its thread ends), `MaxQuestions` the questions of a run, `MaxLog`
stops tool events (any other event may still be appended), `MaxChat` stops the
eager client, `MaxCrashes` the restarts, `MaxConnects` the connections. With two
questions a reply can be late for one and early for the other; with two crashes
recovery itself can be interrupted; with three or four threads recovery, a reply
and a second reply can each have one. `MaxFaults` is 2: one transaction can fail,
and then one of those by which `fail` reports it, or one in each of two runs. In no
run does the bound on threads keep a request waiting that the liveness properties
depend on: they hold. Runs do not interact but through the serial handlers, so the
other instances have one; in `two_runs`, where the crash takes the checkpoints
along, the two are interchangeable (symmetry), and its properties are safety
properties.

In the DSL runs three ids are enough for a trigger, a step that points and a
step that is pointed at, a cycle of them, and a step that is replaced by one of
another kind; `MaxRoutes` bounds the top-level routes. The pools hold a step of
each kind the compiler or the importer treats apart. Three ids give the searches
every shape of cycle, a node that is labelled twice, parts no root leads to, and an
edge to or from a missing node. In `fields` two entries of data (`MaxLeaves`) put a
field beside a stray entry or beside its other spelling, and two edits (`MaxEdits`)
set a field and clear it again, with sessions before, between and after. In
`answers` six keys (`MaxKeys`) go once around the longest menu and mark two rows, and
a line (`Lines`) names two options, one twice, or numbers there are no options for. A
reply has one or two answers (`MaxItems`) of 29 (`Items`): of either question, none or
a third, with options of the one, the other or neither, in order or not, with and
without text; so a batch gets too few, too many, swapped and repeated answers. In
the agent runs `RecursionLimit` is 6 where the service has 200: enough for a plan, an edit, a
repair, and the completion of the plan in batches, and small enough for the limit
to strike in the middle of each; `MaxTurns` counts messages of the user and
replies. The start files are none, an empty flow, and a flow with a trigger.

`CHECK_DEADLOCK FALSE`: a conversation is over when the user writes no more or an
exception has ended it; and when all runs have ended, or wait for a user who has no
more replies, the system may stop.

### Fairness

Weak fairness of every worker thread (the operating system schedules it), of the
request in flight (the event loop finishes what it started) and of the restart
(the orchestrator restarts the process); in `EventStream` of every reader. None
for creating runs, replying, connecting, leaving or crashing. A tool or model
call is assumed to return or raise, which is what their time-outs are for; that
the agent does not call tools for ever comes from LangGraph's recursion limit,
here from `MaxLog` and `MaxQuestions`. `StorageFaults` has the same fairness, of the
steps that succeed; nothing obliges the database to fail or to stop failing but the
bound, which is why `RestartMends` speaks of a restart after the last failure. In
`FlowLoops` the thread that saves is weakly fair; `NodeData` and `Clarification` have
safety properties only.

In `FlowAgent` the steps of an invoke, taken together, are weakly fair: `invoke`
is one thread that goes from node to node. (`Fairness` is `WF_vars(Step)` with
`ENABLED Step`, which is `Running`, written out.) None of them is fair by itself, so the
model may do the same thing for ever; the user need not write or reply, and the
process need not die.

## 4. Proofs

`tlapm` checks the eight modules whose names end in `Proofs`. In those about runs
nothing is assumed but the assumptions on the kinds of the constants and, where
stated, `Client = "chat"`; runs, readers, threads, questions, restarts and faults
may be any number.

- `TypeCorrect`: `Safety => []TypeOK`.
- `OpenRunsAreDriven`: `Safety => []OpenRunIsDriven`, for every client.
  `OpenRunIsDriven` is not inductive: a thread about to sleep is a driver, and
  when it sleeps the row must not be open. `OpenRunIsOwed` adds what is needed:
  the driver is at a step from which it still writes the row (`Owing`), so the
  step that leaves `Owing` is the step that closes the row (`OpenRunsAreOwed`).
- `ChatInvariantHolds`: `Safety => []ChatInvariant` if `Client = "chat"`.
  `SingleDriver` is not inductive either, since a reply routed to an inactive
  run starts a thread. The invariant says of every run: what the row is at each
  step of its driver (`RowAtStep`); that the record is active only with a driver
  and shared with it (`Ownership`); that at most one reply is unsent, in the
  handler or on the queue, and that while there is one the run is quiet, waiting
  with its driver asleep or gone (`OneReply`); that a request about to start a
  thread is alone (`AloneInRun`, `StartingRow`); and that nothing is left of a
  process that is down (`DownIsEmpty`). The lemmas go step by step: `PlainStep`
  for the steps that change no variable replies go through, one lemma for each
  other step of the thread and of the handlers, `SameRun` for the other runs.
- `OneDriver`: `Safety => []SingleDriver` if `Client = "chat"`.
- `RunsFollowLifecycle`: `Safety => Lifecycle!Safety` if `Client = "chat"`: the
  refinement, from `RowAtStep`, each row write being one of the six moves.
  `reply_after_restart` shows that it needs its assumption.
- `QueuedAnswersAreRead`: `Safety => []QueuedAnswerHasReader` for the same users: by
  `OneReply` a queued reply finds the run quiet, so that its driver stands at the
  queue, and by `Ownership` the queue is the driver's.

What the log tells builds on `ChatInvariant`, for the same users:

- `LogsTellOneRun`, `TerminalEventsAgree`: `LogInvariant` says that the log is empty
  until the thread that emits `run_started` is past it, that a terminal event agrees
  with the row, and that where there is one no thread is left that would append
  another. A run that goes on has a row that is not terminal, hence no terminal event
  in its log (`OpenLog`), and any event may follow.
- `AnswersMeetTheirQuestions`: `Safety => []AnswersMatch`. `used` alone says nothing
  of answers on their way. `QuestionInvariant` follows an answer through the request,
  the queue, the hands of the thread and the resume argument: wherever it is, it fits
  (`Fits`) the question the checkpoint waits for, if it waits for one, because row and
  record show that question and it does not change while a reply travels. A crash that
  falls back to a checkpoint without a question makes every answer fit.

`StorageFaults`, for every client and any number of refused transactions:

- `FaultsTypeCorrect`, and `OpenRunsAreDrivenOrLost`: `OpenRunIsDriven` with one
  exception. An exception sends the thread to `fail`, which owes a write; only when
  that raises is nothing owed, and the run is in `lost` (`OwedOrLost`).
- `OneDriverWithFaults`, `QueuedAnswersAreReadWithFaults`, `EndsLast`,
  `LogsTellOneRunWithFaults`, `TerminalEventsAgreeWithFaults` and
  `AnswersMeetTheirQuestionsWithFaults`, for users who reply once to each question:
  `ServiceInvariant`, `LogInvariant` and `QuestionInvariant` are stated so that a
  refused transaction preserves them. It sends the driver to `fail`, where the
  invariants allow any row that is still open, or out of the run, which then has no
  driver that could append or write; a handler that raises gives the question back,
  and with it the one reply. Only `Attended`, that an open run has a driver, is lost.
- `RecordAndRowAgree`: `FaultsSafety => []StatusesAgreeAtRest`. `RecordInvariant`: an
  active run has one thread, until that is lost, and `StatusesAtStep` says what
  record and row are at each of its steps; it sleeps or ends only where they agree.
  Runs that are not active have no record to disagree with.

`EventStreamProofs`:

- `StreamsArePrefixes`, `NoWakeupIsMissed`: for every client. `ReaderInvariant` says
  that a reader has got the events up to `next`, and that if there are more by the
  time it is past its look at the log, then its bell has rung or a thread is still
  between the event and the end of its `emit` (`Telling`).
- `LateReadersGetTheLog`, for users who reply once to each question: a log with a
  terminal event does not grow (`EndedLogStays`, from `LogInvariant`), so a reader that
  connects afterwards has all of it after its first look (`LateInvariant`).

About the DSL and the agent:

- `LayoutInvariantHolds`, `ColumnsAreRight`, `NodesAreApart` (`FlowLoopsProofs`, for
  every set of ids): every root and every neighbour of a labelled node is labelled as
  near as it must be or is queued (`NothingForgotten`), and every label and entry
  comes from a root or from a node one step nearer (`EveryLabelHasASource`). With the
  queue empty the two make the labels distances. `NothingTooNear` bounds them from
  below by any potential of the graph. Two nodes of one column differ in the number
  of nodes above them.
- `LoopInvariant`, `ReachabilityIsCorrect`, `SavesFindTheLeastSet` (`FlowLoopsProofs`):
  at every turn of the loop what is visited is reachable, and every successor of a
  visited step is visited or on the stack. When the stack is empty the visited set is
  closed under the links and holds the roots, so it is the least such set.
  `ConnectedFlowsStartWithTriggers`: in a flow the validator finds connected the first
  column of the layout shows the triggers and nothing else. A node without an
  incoming edge is reached only if it is a trigger, so both searches start from the
  same nodes.
- `DocumentsKeepTheirForm`, `DocumentsAreTyped`, `ValidatorAndCompilerAgree`,
  `AcceptedDocumentsAreSound`, `RemovalsAreClean` (`FlowEditsProofs`, for any pool of
  steps and routes of the form `EditsAssumption`): `DocumentInvariant` says that the
  lists are lists of steps and routes, that an id is used once in both lists together,
  and that no route claims to be the edit of a message. From the form alone follows
  that the compiler writes one edge for each link the validator sees and no other
  (`CompiledLinks`): flattening the routes of the steps and dropping duplicates keep
  the set of the edges, by induction over the functions the folds are made of. Then
  the errors of the validator, empty, say of the file what `SoundFlow` asks
  (`AcceptedFlowIsSound`), and what `remove_step` leaves names no removed step.
- `RoundTripKeepsTheFlow`, `WrittenFlowsStayAccepted` (`FlowEditsProofs`): what a file
  says, the import finds again. A file is `Written` if the edges that leave a node are
  its routes, its presses and its edit, told apart by their two handles, and if buttons
  with one text lead to one step; the file of an accepted and faithful document is
  (`FileIsWritten`). In such a file, a node and the edges that leave it are what the
  step read from them compiles to (`NodeReadBack`: `RawNodeReadBack`,
  `PressesReadBack`, `EditReadBack`), and the loop reads each node once, as a trigger
  or as a step (`ImportedDocument`). The union over the nodes is the file
  (`ReadBackIsSame`). The second theorem follows from the first
  (`ReadBackIsAccepted`): the ids are those of the nodes, the links those of the file
  (`CompiledLinks`), and a node no edge leads to is a trigger before and after, so what
  was reachable is.
- `AnswersAreCounted`, `CallsAreAnsweredOnce` (`FlowAgentProofs`): from
  `AgentAssumption` alone, with the tools unexpanded. `EveryCallIsAnsweredOnce`
  speaks of one node; the invariant says what the counts are at the others: in a
  batch, one for each call executed but the question that was kept
  (`BatchAnswers`), at the interrupt, one for all but this question
  (`AskedAnswers`). A crash puts the batch back to the start of `BatchAnswers`,
  and this is why executing it again gives no call a second message.
- `SavesAreGuarded`, for every model: `SavesInvariant` says of the checkpoint and of
  the batch being executed that a draft the validator refuses has an open item of the
  plan beside it, or is `late` (`Guarded`). One call keeps it, whichever it is
  (`CallKeepsGuard`): an edit that stays a draft is made under an open item or is late,
  and the last open item is completed with a save that is accepted, or is blocked, and
  a blocked item is open.
- `FinalAnswersAreSaved`, if no flow is the absent value (`NoneIsNoFlow`):
  `FinalAnswerMeansSaved`. It is not inductive, since a batch may edit, be cut off, and
  be executed again on a file it has already written. `SavesAreGuarded` leaves an
  accepted draft or a late one, and `FileIsTheDraft` (below) has the accepted one in
  the file; no item is open at a final answer.
- `FileIsReplayed`, `FileIsTheDraft`, if no flow is the absent value:
  `FileFollowsDraft`. `FileInvariant` says that between batches an accepted draft is
  what the file holds, and during one that the file is where some prefix of the batch
  brought it. With a draft, what a call does to plan and draft does not depend on the
  file (`DraftDecides`), so the second execution takes the course of the first, and
  the call that wrote the file is still to come.
- `FlowsStayProper`, `WrittenFlowsAreSound`: `OnlySoundFlowsAreWritten`, if the
  calls of the model store only triggers as triggers (`ProperCalls`) and the
  conversation starts with no file or one the tools have written (`ProperStart`);
  `MCFlowAgent` asserts both of its instance. `FlowInvariant`: the file is
  sound, and every draft is a proper document. An accepted proper document compiles
  to a sound file (`AcceptedFileIsProper`), each edit keeps a document proper
  (`ReplaceKeepsProper`, `ConnectKeepsProper`, `PointKeepsProper`, `RemoveKeepsProper`),
  and a sound file is read back as a proper document (`ImportIsProper`): a node whose
  type is no trigger has an incoming edge, because a trigger leads to it, so that
  the importer does not put it among the triggers, merged conditions included.

- `DataIsKeptApart`, `FieldsAreReadBack`, `StraysSurvive` (`NodeDataProofs`, for every
  kind of the catalog, any number of entries in the file and of edits): `DataInvariant`
  says that a step has the fields of its kind, that the place of each field is free in
  the data the step carries along, and that this data has every entry of the file that
  belongs to no field. The places of two fields of one kind share no first key
  (`HeadsAreApart`, `PathsAreApart`, from the tables of the catalog), so what one field
  writes neither hides nor overwrites another (`WritingAField`), the order of writing
  does not matter, and an entry that belongs to no field meets none (`WritingStrays`). A
  field is then found at the first of its places that holds something (`Finding`,
  `Reading`), which is where it was written; a field that was left out is found nowhere
  (`WritingNoField`), but for the states `Shadowed` names.
- `MenusStayApart`, `AnswersAreFitting`, `MarksAreRead` (`ClarificationProofs`, for any
  requests of the form `RequestsAssumption`, any number of questions, options, keys and
  typed numbers, and any posts): `ClarificationInvariant` says of a console that pointer
  and marks are on rows of the question the next answer is for, that a terminal is at
  the prompt only where text may be typed, and that every answer taken names (`Names`)
  and fits (`Fits`) the question at its place: its ids are those that were marked, and
  its text is their labels or typed. Of a reply to the API it says only what is in it.
  `TakeKeeps` is the step from one question to the next, for any answer that fits; each
  way to answer is then shown to give one. That the marked rows make a list in the order
  of the options is a property of `Only` (`ChosenRows`), whose lemma comes from
  `FlowDocumentProofs`. What model and chat read follows answer by answer, the question
  being found by its id because no other has it (`FoundIsTheQuestion`).

Every invariant of a passing run, and every property of one that says what a step may
not do, is stated by one of these theorems. Only model-checked is what this prover
cannot do, everything under fairness: `FollowsLifecycle` as a whole (its safety part
is proved: `RunsFollowLifecycle`), `OpenRunsProgressOrAreLost`, `RestartMends`,
`ReplyReachesGraph`, `EventsReachReaders`, `StreamsOfEndedRunsClose`, `LoopTerminates`,
`SearchEnds`, `AgentComesToRest`.

## 5. Plan and limits

Written in this order: `RunLifecycle`, `AgentRuns`, `EventStream`; `FlowDocument`,
`FlowReachability`, `FlowCompiler`, `FlowEdits`; `FlowTools`, `FlowAgent`; then
`FlowLayout` and `FlowLoops`, `NodeData`, `StorageFaults`, `Clarification`; each with
its runs, and the proofs above. What could follow:

1. Two processes on one database (a rolling update: the new one recovers runs the
   old one still drives), two runs with one `thread_id` or one flow file, a run that
   goes on after an exception on the same thread.
2. `else_if` chains in `FlowCompiler`, with files the tools did not write. Such a
   chain may be a cycle, on which `try_merge_if_chain` does not end.
3. Proofs: liveness, should the prover learn `ENABLED`. The measures are at hand:
   the keys and answers left, the labels that can still get nearer, the steps a thread
   has yet to go.

### Not modelled

Prompts and the descriptions of the catalog (text for the model), the arguments and
slash commands of the CLI, reading and searching of the repository tools (I/O
without state), auth (stateless decoding of a token), Redis (published, and read by
nothing in the repository), deployment (configuration). The plan column, time stamps,
and scoping by project and user are filters or copies on the rows of `AgentRuns`.
