-------------------------- MODULE AgentRunsProofs ---------------------------
(***************************************************************************)
(* Proofs about AgentRuns, for every set of runs, every bound, both        *)
(* checkpointers and all three clients: first the rows, records, threads   *)
(* and questions, then what the event log tells and that answers meet      *)
(* their questions when the user replies once to each, and last the same   *)
(* service with a database that refuses transactions (StorageFaults).      *)
(***************************************************************************)
EXTENDS AgentRunsInvariant, StorageFaults, SequenceTheorems, TLAPS

(* What the storage primitives preserve. *)

LEMMA GotoType ==
    ASSUME TypeOK, NEW r \in Runs, NEW t \in Threads, NEW step \in PC, Goto(r, t, step)
    PROVE  pc' \in [Runs -> [Threads -> PC]]
BY DEF TypeOK, Goto

LEMMA WriteRowType ==
    ASSUME TypeOK, NEW r \in Runs, NEW s \in Status, NEW q \in Asks, WriteRow(r, s, q)
    PROVE  row' \in [Runs -> Entry]
BY DEF TypeOK, WriteRow, Entry

LEMMA WriteRecordType ==
    ASSUME TypeOK, NEW r \in Runs, NEW s \in Status, NEW q \in Asks, WriteRecord(r, s, q)
    PROVE  mem' \in [Runs -> Entry]
BY DEF TypeOK, WriteRecord, Entry

LEMMA AppendEventType ==
    ASSUME TypeOK, NEW r \in Runs, NEW e \in EventTypes, AppendEvent(r, e)
    PROVE  log' \in [Runs -> Seq(EventTypes)]
BY DEF TypeOK, AppendEvent

LEMMA InsertMessageType ==
    ASSUME TypeOK, NEW r \in Runs, NEW kind \in {"prompt", "question", "answer", "reply"},
           InsertMessage(r, kind)
    PROVE  chat' \in [Runs -> Seq({"prompt", "question", "answer", "reply"})]
BY DEF TypeOK, InsertMessage

LEMMA DeliverType ==
    ASSUME TypeOK, NEW r \in Runs, NEW a \in Asks, Deliver(r, a)
    PROVE  /\ ckpt' \in [Runs -> Checkpoint]
           /\ used' \in [Runs -> SUBSET (Asks \X Asks)]
<1>1. ckpt[r].ask \in Asks
  BY DEF TypeOK, Checkpoint
<1>2. ckpt' \in [Runs -> Checkpoint]
  BY DEF TypeOK, Deliver, Checkpoint
<1>3. used[r] \in SUBSET (Asks \X Asks) /\ <<ckpt[r].ask, a>> \in Asks \X Asks
  BY <1>1 DEF TypeOK
<1>4. QED
  BY <1>2, <1>3 DEF TypeOK, Deliver

LEMMA SpawnType ==
    ASSUME TypeOK, NEW r \in Runs, NEW b \in BOOLEAN, NEW a \in Asks, Spawn(r, b, a)
    PROVE  pc' \in [Runs -> [Threads -> PC]] /\ task' \in [Runs -> [Threads -> Task]]
<1>1. PICK t \in Threads :
        /\ Goto(r, t, "boot")
        /\ task' = [task EXCEPT ![r][t] = [resume |-> b, answer |-> a, own |-> FALSE]]
  BY DEF Spawn
<1>2. [resume |-> b, answer |-> a, own |-> FALSE] \in Task
  BY DEF Task
<1>3. QED
  BY <1>1, <1>2, GotoType DEF TypeOK, PC

LEMMA Literals ==
    /\ Emitting \subseteq PC /\ Open \subseteq Status /\ Terminal \subseteq Status
    /\ "waiting" \in Status /\ 0 \in Asks
BY ConstantsAssumption DEF PC, Emitting, Status, Open, Terminal, Asks

LEMMA InitTypeOK == Init => TypeOK
<1> SUFFICES ASSUME Init PROVE TypeOK
  OBVIOUS
<1> USE ConstantsAssumption
<1>1. NoEntry \in Entry /\ NoTask \in Task /\ NoRequest \in Request
  BY DEF NoEntry, Entry, Status, Open, Terminal, Asks, NoTask, Task, NoRequest, Request
<1>2. NoThreads \in [Runs -> [Threads -> PC]] /\ NoTasks \in [Runs -> [Threads -> Task]]
  BY <1>1 DEF NoThreads, NoTasks, PC
<1>3. QED
  BY <1>1, <1>2 DEF Init, TypeOK, Asks, Checkpoint

LEMMA WorkerTypeOK ==
    ASSUME TypeOK, NEW r \in Runs, NEW t \in Threads, Worker(r, t) PROVE TypeOK'
<1> USE ConstantsAssumption DEF TypeOK, Goto
<1>1. CASE Boot(r, t)
  <2> DEFINE booted == [task[r][t] EXCEPT !.own = (r \in active)]
  <2>a. task[r][t] \in Task
    OBVIOUS
  <2>b. \A b \in BOOLEAN : [task[r][t] EXCEPT !.own = b] \in Task
    BY <2>a DEF Task
  <2>c. (r \in active) \in BOOLEAN
    OBVIOUS
  <2>d. booted \in Task
    BY <2>b, <2>c
  <2>e. task' = [task EXCEPT ![r] = [task[r] EXCEPT ![t] = booted]]
    BY <1>1 DEF Boot
  <2>1. task' \in [Runs -> [Threads -> Task]]
    BY <2>d, <2>e
  <2>2. mem' \in [Runs -> Entry]
    BY <1>1 DEF Boot, Entry, Status, Open
  <2>3. QED
    BY <1>1, <2>1, <2>2 DEF Boot, dbVars, auxVars, PC
<1>2. CASE BootRow(r, t)
  BY <1>2 DEF BootRow, recordVars, auxVars, PC, Emitting, Entry, Status, Open
<1>3. CASE EmitStarted(r, t)
  BY <1>3 DEF EmitStarted, AppendEvent, recordVars, auxVars, PC, EventTypes
<1>4. CASE Enter(r, t)
  <2>1. [at |-> "running", ask |-> 0] \in Checkpoint
    BY Literals DEF Checkpoint
  <2>2. ckpt' \in [Runs -> Checkpoint]
    BY <1>4, <2>1 DEF Enter
  <2>3. QED
    BY <1>4, <2>2 DEF Enter, dbVars, recordVars, auxVars, PC, Emitting
<1>5. CASE ResumeWithAnswer(r, t)
  <2>1. task[r][t].answer \in Asks
    BY DEF Task
  <2>2. QED
    BY <1>5, <2>1, DeliverType DEF ResumeWithAnswer, dbVars, recordVars, PC, Emitting
<1>6. CASE ResumeAtCheckpoint(r, t)
  BY <1>6 DEF ResumeAtCheckpoint, CheckpointExists, dbVars, recordVars, auxVars, PC, Emitting, Checkpoint
<1>7. CASE ResumeWithoutCheckpoint(r, t)
  BY <1>7 DEF ResumeWithoutCheckpoint, dbVars, recordVars, auxVars, PC
<1>8. CASE UseTool(r, t)
  BY <1>8 DEF UseTool, AppendEvent, recordVars, threadVars, auxVars, EventTypes
<1>9. CASE Interrupt(r, t)
  <2>1. ckpt[r].ask + 1 \in Asks
    BY <1>9 DEF Interrupt, Asks, Checkpoint
  <2>2. ckpt' = [ckpt EXCEPT ![r] = [at |-> "asked", ask |-> ckpt[r].ask + 1]]
    BY <1>9 DEF Interrupt
  <2>3. QED
    BY <1>9, <2>1, <2>2 DEF Interrupt, dbVars, recordVars, auxVars, PC, Checkpoint
<1>10. CASE Finish(r, t)
  BY <1>10 DEF Finish, dbVars, recordVars, auxVars, PC, Emitting, Checkpoint
<1>11. CASE Raise(r, t)
  BY <1>11 DEF Raise, dbVars, recordVars, auxVars, PC
<1>12. CASE EmitConflict(r, t)
  BY <1>12 DEF EmitConflict, dbVars, recordVars, auxVars, PC
<1>13. CASE Ask(r, t)
  BY <1>13 DEF Ask, WriteRecord, dbVars, PC, Entry, Status, Checkpoint
<1>14. CASE AskRow(r, t)
  BY <1>14 DEF AskRow, WriteRow, recordVars, auxVars, PC, Emitting, Entry, Status, Checkpoint
<1>15. CASE EmitAsk(r, t)
  BY <1>15 DEF EmitAsk, AppendEvent, recordVars, auxVars, PC, EventTypes
<1>16. CASE AskMessage(r, t)
  BY <1>16 DEF AskMessage, InsertMessage, recordVars, PC
<1>17. CASE TakeAnswer(r, t)
  <2>1. Head(queue[r]) \in Asks /\ Tail(queue[r]) \in Seq(Asks)
    BY <1>17 DEF TakeAnswer
  <2> DEFINE given == [task[r][t] EXCEPT !.answer = Head(queue[r])]
  <2>a. task[r][t] \in Task
    OBVIOUS
  <2>c. given \in Task
    BY <2>1, <2>a DEF Task
  <2>b. task' = [task EXCEPT ![r] = [task[r] EXCEPT ![t] = given]]
    BY <1>17 DEF TakeAnswer
  <2>2. task' \in [Runs -> [Threads -> Task]]
    BY <2>b, <2>c
  <2>3. QED
    BY <1>17, <2>1, <2>2 DEF TakeAnswer, dbVars, auxVars, PC
<1>18. CASE Clear(r, t)
  BY <1>18 DEF Clear, WriteRecord, dbVars, auxVars, PC, Entry, Status, Open, Asks
<1>19. CASE ClearRow(r, t)
  BY <1>19 DEF ClearRow, WriteRow, recordVars, auxVars, PC, Entry, Status, Open, Asks
<1>20. CASE Continue(r, t)
  <2>1. task[r][t].answer \in Asks
    BY DEF Task
  <2>2. QED
    BY <1>20, <2>1, DeliverType DEF Continue, dbVars, recordVars, PC, Emitting
<1>21. CASE Say(r, t)
  <2>1. CASE AppendEvent(r, "assistant_message") /\ Goto(r, t, "sayMsg")
    BY <1>21, <2>1 DEF Say, AppendEvent, EventTypes, recordVars, auxVars, PC
  <2>2. CASE UNCHANGED log /\ Goto(r, t, "done")
    BY <1>21, <2>2 DEF Say, recordVars, auxVars, PC
  <2>3. QED
    BY <1>21, <2>1, <2>2 DEF Say
<1>22. CASE SayMessage(r, t)
  BY <1>22 DEF SayMessage, InsertMessage, recordVars, auxVars, PC
<1>23. CASE Complete(r, t)
  <2>1. CASE EndRecord(r, t, "done", "completed", "doneRow")
    BY <2>1, Literals, WriteRecordType DEF EndRecord, dbVars, auxVars, PC, Terminal
  <2>2. CASE EndRow(r, t, "doneRow", "completed", "doneEmit")
    BY <2>2, Literals, WriteRowType DEF EndRow, recordVars, auxVars, Emitting, Terminal
  <2>3. CASE EndEvent(r, t, "doneEmit", "run_completed", "doneOff")
    BY <2>3, AppendEventType DEF EndEvent, recordVars, auxVars, PC, EventTypes
  <2>4. QED
    BY <1>23, <2>1, <2>2, <2>3 DEF Complete
<1>24. CASE Fail(r, t)
  <2>1. CASE EndRecord(r, t, "fail", "failed", "failRow")
    BY <2>1, Literals, WriteRecordType DEF EndRecord, dbVars, auxVars, PC, Terminal
  <2>2. CASE EndRow(r, t, "failRow", "failed", "failEmit")
    BY <2>2, Literals, WriteRowType DEF EndRow, recordVars, auxVars, Emitting, Terminal
  <2>3. CASE EndEvent(r, t, "failEmit", "run_failed", "failOff")
    BY <2>3, AppendEventType DEF EndEvent, recordVars, auxVars, PC, EventTypes
  <2>4. QED
    BY <1>24, <2>1, <2>2, <2>3 DEF Fail
<1>25. CASE Deactivate(r, t)
  <2>1. NoEntry \in Entry
    BY Literals DEF NoEntry, Entry, Status
  <2>2. queue' \in [Runs -> Seq(Asks)] /\ mem' \in [Runs -> Entry] /\ active' \subseteq Runs
    BY <1>25, <2>1 DEF Deactivate
  <2>3. QED
    BY <1>25, <2>2 DEF Deactivate, dbVars, auxVars, PC
<1>26. QED
  BY <1>1, <1>2, <1>3, <1>4, <1>5, <1>6, <1>7, <1>8, <1>9, <1>10, <1>11, <1>12, <1>13,
     <1>14, <1>15, <1>16, <1>17, <1>18, <1>19, <1>20, <1>21, <1>22, <1>23, <1>24, <1>25
     DEF Worker

LEMMA RequestTypeOK ==
    ASSUME TypeOK, NEW r \in Runs, CreateRun(r) \/ Clarify(r) \/ Handler(r) PROVE TypeOK'
<1> USE ConstantsAssumption DEF TypeOK, Goto
<1>1. CASE CreateRun(r)
  <2>1. request' \in Request
    BY <1>1, Literals DEF CreateRun, NoRequest, Request
  <2>2. QED
    BY <1>1, <2>1, Literals, WriteRowType, InsertMessageType
    DEF CreateRun, recordVars, threadVars, auxVars, Open
<1>2. CASE StartRun(r)
  <2>1. request' \in Request
    BY <1>2, Literals DEF StartRun, NoRequest, Request
  <2>2. pc' \in [Runs -> [Threads -> PC]] /\ task' \in [Runs -> [Threads -> Task]]
    BY <1>2, Literals, SpawnType DEF StartRun
  <2>3. mem' \in [Runs -> Entry]
    BY <1>2, Literals DEF StartRun, Entry, Open
  <2>4. QED
    BY <1>2, <2>1, <2>2, <2>3 DEF StartRun, dbVars, auxVars
<1>3. CASE Clarify(r)
  BY <1>3 DEF Clarify, View, Request, dbVars, recordVars, threadVars, Entry
<1>4. CASE StoreAnswer(r)
  <2>1. request' \in Request
    BY <1>4 DEF StoreAnswer, Request
  <2>2. QED
    BY <1>4, <2>1, InsertMessageType DEF StoreAnswer, recordVars, threadVars, auxVars
<1>5. CASE HandAnswer(r)
  BY <1>5 DEF HandAnswer, NoRequest, Request, dbVars, threadVars, auxVars, Asks
<1>6. CASE RouteInactive(r)
  <2>1. request' \in Request
    BY <1>6 DEF RouteInactive, Request
  <2>2. QED
    BY <1>6, <2>1, Literals, WriteRowType DEF RouteInactive, recordVars, threadVars, auxVars, Open
<1>7. CASE Respawn(r)
  <2>1. request' \in Request
    BY <1>7, Literals DEF Respawn, NoRequest, Request
  <2>2. pc' \in [Runs -> [Threads -> PC]] /\ task' \in [Runs -> [Threads -> Task]]
    BY <1>7, SpawnType DEF Respawn, Request
  <2>3. QED
    BY <1>7, <2>1, <2>2 DEF Respawn, dbVars, recordVars, auxVars
<1>8. QED
  BY <1>1, <1>2, <1>3, <1>4, <1>5, <1>6, <1>7 DEF Handler

LEMMA ProcessTypeOK == ASSUME TypeOK, Crash \/ Restart PROVE TypeOK'
<1> USE ConstantsAssumption DEF TypeOK
<1>1. CASE Crash
  <2>1. NoEntry \in Entry /\ NoTask \in Task /\ NoRequest \in Request
    BY DEF NoEntry, Entry, Status, Asks, NoTask, Task, NoRequest, Request
  <2>2. NoThreads \in [Runs -> [Threads -> PC]] /\ NoTasks \in [Runs -> [Threads -> Task]]
    BY <2>1 DEF NoThreads, NoTasks, PC
  <2>3. ckpt' \in [Runs -> Checkpoint]
    BY <1>1, Literals DEF Crash, Checkpoint
  <2>4. crashes' \in 0 .. MaxCrashes
    BY <1>1 DEF Crash
  <2>5. queue' \in [Runs -> Seq(Asks)] /\ mem' \in [Runs -> Entry] /\ active' \subseteq Runs
    BY <1>1, <2>1 DEF Crash
  <2>6. QED
    BY <1>1, <2>1, <2>2, <2>3, <2>4, <2>5 DEF Crash, dbVars
<1>2. CASE Restart
  <2>1. \A b \in BOOLEAN : [NoTask EXCEPT !.resume = b] \in Task
    BY Literals DEF NoTask, Task
  <2>2. pc' \in [Runs -> [Threads -> PC]]
    BY <1>2 DEF Restart, PC
  <2>3. task' \in [Runs -> [Threads -> Task]]
    BY <1>2, <2>1 DEF Restart
  <2>4. QED
    BY <1>2, <2>2, <2>3 DEF Restart, dbVars, recordVars, auxVars
<1>3. QED
  BY <1>1, <1>2

(***************************************************************************)
(* Type correctness, for every run of the service.                         *)
(***************************************************************************)
THEOREM TypeCorrect == Safety => []TypeOK
<1>1. TypeOK /\ [Next]_vars => TypeOK'
  <2>1. ASSUME TypeOK, UNCHANGED vars PROVE TypeOK'
    BY <2>1 DEF TypeOK, vars, dbVars, recordVars, threadVars, auxVars
  <2>2. QED
    BY <2>1, WorkerTypeOK, RequestTypeOK, ProcessTypeOK DEF Next
<1>2. QED
  BY <1>1, InitTypeOK, PTL DEF Safety
-----------------------------------------------------------------------------
(* No open run without a driver.  The invariant is OpenRunIsOwed: a thread   *)
(* leaves Owing only by writing a row that is no longer open, and a request  *)
(* that opens a row is Starting until it has spawned a thread.               *)

Owed(r) == up /\ row[r].status \in Open =>
             Starting(r) \/ \E t \in Threads : pc[r][t] \in Owing

\* A thread step keeps its run owed if it goes to an owing step, or closes the row.
LEMMA GotoOwing ==
    ASSUME TypeOK, NEW r \in Runs, NEW t \in Threads, NEW step \in Owing, Goto(r, t, step)
    PROVE  pc'[r][t] \in Owing
BY DEF TypeOK, Goto, Owing

LEMMA OtherRunsKeepOwed ==
    ASSUME TypeOK, NEW r \in Runs, NEW t \in Threads, Worker(r, t),
           NEW s \in Runs, s # r, Owed(s)
    PROVE  Owed(s)'
<1>1. pc'[s] = pc[s] /\ row'[s] = row[s] /\ UNCHANGED <<request, up>>
  BY DEF Worker, TypeOK, Goto, Boot, BootRow, EmitStarted, Enter, ResumeWithAnswer,
     ResumeAtCheckpoint, ResumeWithoutCheckpoint, UseTool, Interrupt, Finish, Raise,
     EmitConflict, Ask, AskRow, EmitAsk, AskMessage, TakeAnswer, Clear, ClearRow, Continue,
     Say, SayMessage, Complete, Fail, Deactivate, EndRecord, EndRow, EndEvent, WriteRow,
     dbVars, threadVars
<1>2. QED
  BY <1>1 DEF Owed, Starting

LEMMA WorkerKeepsOwed ==
    ASSUME TypeOK, NEW r \in Runs, NEW t \in Threads, Worker(r, t), Owed(r)
    PROVE  Owed(r)'
<1> USE DEF Owed, Starting
\* Steps that end, or sleep, with the row closed.
<1>1. CASE AskRow(r, t)
  BY <1>1 DEF AskRow, WriteRow, TypeOK, Open
<1>2. CASE EndRow(r, t, "doneRow", "completed", "doneEmit")
  BY <1>2 DEF EndRow, WriteRow, TypeOK, Open
<1>3. CASE EndRow(r, t, "failRow", "failed", "failEmit")
  BY <1>3 DEF EndRow, WriteRow, TypeOK, Open
\* Steps of a thread that owes nothing: the others are where they were.
<1>4. ASSUME pc[r][t] \notin Owing, UNCHANGED <<row, request, up>>,
             \A u \in Threads : u # t => pc'[r][u] = pc[r][u]
      PROVE  Owed(r)'
  BY <1>4
<1>5. CASE EmitAsk(r, t) \/ AskMessage(r, t) \/ Deactivate(r, t)
           \/ EndEvent(r, t, "doneEmit", "run_completed", "doneOff")
           \/ EndEvent(r, t, "failEmit", "run_failed", "failOff")
  <2>1. pc[r][t] \notin Owing /\ UNCHANGED <<row, request, up>>
    BY <1>5 DEF EmitAsk, AskMessage, Deactivate, EndEvent, Owing, dbVars
  <2>2. \A u \in Threads : u # t => pc'[r][u] = pc[r][u]
    BY <1>5 DEF EmitAsk, AskMessage, Deactivate, EndEvent, Goto, TypeOK
  <2>3. QED
    BY <1>4, <2>1, <2>2
<1>6. CASE EmitConflict(r, t)
  <2>1. CASE pc[r][t] = "failEmit"
    <3>1. \A u \in Threads : u # t => pc'[r][u] = pc[r][u]
      BY <1>6 DEF EmitConflict, Goto, TypeOK
    <3>2. QED
      BY <1>4, <1>6, <2>1, <3>1 DEF EmitConflict, Owing, dbVars
  <2>2. CASE pc[r][t] # "failEmit"
    <3>1. Goto(r, t, "fail") /\ "fail" \in Owing
      BY <1>6, <2>2 DEF EmitConflict, Owing, PC
    <3>2. QED
      BY <3>1, GotoOwing
  <2>3. QED
    BY <2>1, <2>2
\* Steps to an owing step.
<1>7. ASSUME NEW step \in Owing, Goto(r, t, step) PROVE Owed(r)'
  BY <1>7, GotoOwing
<1>8. CASE Boot(r, t) \/ BootRow(r, t) \/ EmitStarted(r, t) \/ Enter(r, t)
           \/ ResumeWithAnswer(r, t) \/ ResumeWithoutCheckpoint(r, t)
           \/ Interrupt(r, t) \/ Finish(r, t) \/ Raise(r, t) \/ Ask(r, t)
  BY <1>7, <1>8 DEF Boot, BootRow, EmitStarted, Enter, ResumeWithAnswer,
     ResumeWithoutCheckpoint, Interrupt, Finish, Raise, Ask, Owing, PC, Emitting
<1>9. CASE ResumeAtCheckpoint(r, t)
  BY <1>7, <1>9 DEF ResumeAtCheckpoint, CheckpointExists, TypeOK, Checkpoint, Owing, PC, Emitting
<1>10. CASE UseTool(r, t)
  BY <1>10 DEF UseTool, threadVars
<1>11. CASE TakeAnswer(r, t) \/ Clear(r, t) \/ ClearRow(r, t) \/ Continue(r, t)
            \/ Say(r, t) \/ SayMessage(r, t)
            \/ EndRecord(r, t, "done", "completed", "doneRow")
            \/ EndRecord(r, t, "fail", "failed", "failRow")
  BY <1>7, <1>11 DEF TakeAnswer, Clear, ClearRow, Continue, Say, SayMessage, EndRecord,
     Owing, PC, Emitting
<1>12. QED
  BY <1>1, <1>2, <1>3, <1>5, <1>6, <1>8, <1>9, <1>10, <1>11 DEF Worker, Complete, Fail

\* spawn leaves an owing thread behind, and the threads of other runs alone.
LEMMA SpawnOwes ==
    ASSUME TypeOK, NEW r \in Runs, NEW b, NEW a, Spawn(r, b, a)
    PROVE  /\ \E t \in Threads : pc'[r][t] \in Owing
           /\ \A s \in Runs \ {r} : pc'[s] = pc[s]
BY DEF Spawn, TypeOK, Goto, Owing, PC

LEMMA RequestKeepsOwed ==
    ASSUME TypeOK, NEW r \in Runs, CreateRun(r) \/ Clarify(r) \/ Handler(r),
           NEW s \in Runs, Owed(s)
    PROVE  Owed(s)'
<1> USE DEF Owed, Starting
<1>1. CASE CreateRun(r)
  BY <1>1 DEF CreateRun, WriteRow, NoRequest, TypeOK, threadVars
<1>2. CASE StartRun(r)
  BY <1>2, SpawnOwes DEF StartRun, dbVars
<1>3. CASE Clarify(r)
  BY <1>3 DEF Clarify, dbVars, threadVars
<1>4. CASE StoreAnswer(r)
  BY <1>4 DEF StoreAnswer, threadVars
<1>5. CASE HandAnswer(r)
  BY <1>5 DEF HandAnswer, dbVars, threadVars
<1>6. CASE RouteInactive(r)
  BY <1>6 DEF RouteInactive, WriteRow, TypeOK, Request, threadVars
<1>7. CASE Respawn(r)
  BY <1>7, SpawnOwes DEF Respawn, dbVars
<1>8. QED
  BY <1>1, <1>2, <1>3, <1>4, <1>5, <1>6, <1>7 DEF Handler

LEMMA RestartOwes == ASSUME TypeOK, Restart, NEW s \in Runs PROVE Owed(s)'
<1>1. 1 \in Threads
  BY ConstantsAssumption DEF Threads
<1>2. row[s].status \in Open => pc'[s][1] = "boot"
  BY <1>1 DEF Restart
<1>3. QED
  BY <1>1, <1>2 DEF Restart, Owed, dbVars, Owing, PC

(***************************************************************************)
(* Every open row is owed a write by somebody who is there to make it.     *)
(***************************************************************************)
THEOREM OpenRunsAreOwed == Safety => []OpenRunIsOwed
<1>1. Init => OpenRunIsOwed
  BY DEF Init, OpenRunIsOwed, NoEntry, Open
<1>2. TypeOK /\ OpenRunIsOwed /\ [Next]_vars => OpenRunIsOwed'
  <2> SUFFICES ASSUME TypeOK, \A s \in Runs : Owed(s), [Next]_vars, NEW s \in Runs
               PROVE  Owed(s)'
    BY DEF OpenRunIsOwed, Owed
  <2>1. ASSUME NEW r \in Runs, NEW t \in Threads, Worker(r, t) PROVE Owed(s)'
    BY <2>1, WorkerKeepsOwed, OtherRunsKeepOwed
  <2>2. ASSUME NEW r \in Runs, CreateRun(r) \/ Clarify(r) \/ Handler(r) PROVE Owed(s)'
    BY <2>2, RequestKeepsOwed
  <2>3. CASE Crash
    BY <2>3 DEF Crash, Owed
  <2>4. CASE Restart
    BY <2>4, RestartOwes
  <2>5. CASE UNCHANGED vars
    BY <2>5 DEF vars, dbVars, threadVars, Owed, Starting
  <2>6. QED
    BY <2>1, <2>2, <2>3, <2>4, <2>5 DEF Next
<1>3. QED
  BY <1>1, <1>2, TypeCorrect, PTL DEF Safety

(***************************************************************************)
(* While the process is up no queued or running run is left without a      *)
(* thread, or a request, that drives it: for every client, with or without *)
(* durable checkpoints, through any number of restarts.                    *)
(***************************************************************************)
THEOREM OpenRunsAreDriven == Safety => []OpenRunIsDriven
<1>1. OpenRunIsOwed => OpenRunIsDriven
  BY DEF OpenRunIsOwed, OpenRunIsDriven, Driving, Owing
<1>2. QED
  BY <1>1, OpenRunsAreOwed, PTL
-----------------------------------------------------------------------------
(***************************************************************************)
(* A run has one driver and its status column follows RunLifecycle, for    *)
(* every set of runs, any number of restarts and both checkpointers, when  *)
(* the user replies once to each question.                                 *)
(***************************************************************************)

(* A step of the thread that drives a run. *)

\* It is alone, and unless it waits, no reply is on its way.
LEMMA OnlyDriver ==
    ASSUME TypeOK, NEW r \in Runs, NEW t \in Threads, RunInvariant(r), Driving(r, t)
    PROVE  /\ \A u \in Threads : Driving(r, u) => u = t
           /\ ~Starting(r)
           /\ RowAtStep(r, t)
           /\ pc[r][t] # "wait" => ~Unanswered(r) /\ ~Replying(r) /\ ~Queued(r)
BY DEF RunInvariant, AloneInRun, OneReply, Quiet

LEMMA PlainStep ==
    ASSUME TypeOK, TypeOK', NEW r \in Runs, NEW t \in Threads, RunInvariant(r),
           Driving(r, t), pc[r][t] \notin {"wait", "boot"},
           NEW step \in PC \ {"idle", "boot"}, Goto(r, t, step),
           UNCHANGED <<task, request, active, queue, shown, replied>>,
           row'[r].status # "absent", RowAtStep(r, t)'
    PROVE  RunInvariant(r)'
<1>1. pc'[r][t] = step /\ \A u \in Threads \ {t} : pc'[r][u] = pc[r][u]
  BY DEF TypeOK, Goto
<1>2. \A u \in Threads \ {t} : ~Driving(r, u)'
  BY <1>1, OnlyDriver DEF Driving
<1>3. ~Starting(r)' /\ ~Unanswered(r)' /\ ~Replying(r)' /\ ~Queued(r)'
  BY OnlyDriver DEF Starting, Unanswered, Replying, Queued
<1>4. AloneInRun(r)' /\ OneReply(r)' /\ StartingRow(r)'
  BY <1>2, <1>3 DEF AloneInRun, OneReply, StartingRow, Starting
<1>5. task[r][t].own <=> r \in active
  BY DEF RunInvariant, Ownership
<1>6. Ownership(r)'
  BY <1>1, <1>2, <1>5 DEF Ownership, Driving
<1>7. QED
  BY <1>2, <1>4, <1>6 DEF RunInvariant, AbsentRow

\* The steps that change none of the variables replies go through.
LEMMA PlainSteps ==
    ASSUME TypeOK, TypeOK', NEW r \in Runs, NEW t \in Threads, RunInvariant(r),
           \/ BootRow(r, t) \/ EmitStarted(r, t) \/ Enter(r, t)
           \/ ResumeWithAnswer(r, t) \/ ResumeAtCheckpoint(r, t) \/ ResumeWithoutCheckpoint(r, t)
           \/ Interrupt(r, t) \/ Finish(r, t) \/ Raise(r, t) \/ (Ask(r, t) /\ Client = "chat")
           \/ AskRow(r, t) \/ EmitAsk(r, t) \/ Clear(r, t) \/ ClearRow(r, t) \/ Continue(r, t)
           \/ Say(r, t) \/ SayMessage(r, t) \/ Complete(r, t) \/ Fail(r, t)
    PROVE  RunInvariant(r)'
<1>0. UNCHANGED <<task, request, active, queue, shown, replied>>
  BY DEF BootRow, EmitStarted, Enter, ResumeWithAnswer, ResumeAtCheckpoint,
     ResumeWithoutCheckpoint, Interrupt, Finish, Raise, Ask, AskRow, EmitAsk, Clear, ClearRow,
     Continue, Say, SayMessage, Complete, Fail, EndRecord, EndRow, EndEvent, recordVars, auxVars
<1>1. pc[r][t] \notin {"idle", "wait", "boot"}
  BY DEF BootRow, EmitStarted, Enter, ResumeWithAnswer, ResumeAtCheckpoint,
     ResumeWithoutCheckpoint, Interrupt, Finish, Raise, Ask, AskRow, EmitAsk, Clear, ClearRow,
     Continue, Say, SayMessage, Complete, Fail, EndRecord, EndRow, EndEvent
<1>2. Driving(r, t) /\ RowAtStep(r, t)
  BY <1>1, OnlyDriver DEF Driving
<1>3. ASSUME NEW step \in PC \ {"idle", "boot"}, Goto(r, t, step), row'[r].status # "absent",
             pc'[r][t] = step => RowAtStep(r, t)'
      PROVE  RunInvariant(r)'
  <2>1. pc'[r][t] = step
    BY <1>3 DEF Goto, TypeOK
  <2>2. QED
    BY <1>0, <1>1, <1>2, <1>3, <2>1, PlainStep
\* By the status the row has after the step.
<1>4. ASSUME NEW step \in MidRun, Goto(r, t, step), row'[r].status = "running"
      PROVE  RunInvariant(r)'
  BY <1>3, <1>4 DEF RowAtStep, MidRun, AtQuestion, PC, Emitting
<1>5. ASSUME NEW step \in {"askEmit", "askMsg", "clearRow"}, Goto(r, t, step),
             row'[r].status = "waiting"
      PROVE  RunInvariant(r)'
  BY <1>3, <1>5 DEF RowAtStep, MidRun, AtQuestion, PC, Emitting
<1>6. ASSUME NEW step \in {"doneEmit", "doneOff"}, Goto(r, t, step),
             row'[r].status = "completed"
      PROVE  RunInvariant(r)'
  BY <1>3, <1>6 DEF RowAtStep, MidRun, AtQuestion, PC, Emitting
<1>7. ASSUME NEW step \in {"failEmit", "failOff"}, Goto(r, t, step),
             row'[r].status = "failed"
      PROVE  RunInvariant(r)'
  BY <1>3, <1>7 DEF RowAtStep, MidRun, AtQuestion, PC, Emitting
<1>8. pc[r][t] \in MidRun /\ UNCHANGED row => row'[r].status = "running"
  BY <1>2 DEF RowAtStep
\* To fail from anywhere.
<1>18. ASSUME NEW step \in Failing, Goto(r, t, step), UNCHANGED row
       PROVE  RunInvariant(r)'
  <2>1. row'[r].status # "absent"
    BY <1>2, <1>18 DEF RunInvariant, AbsentRow
  <2>2. QED
    BY <1>3, <1>18, <2>1 DEF RowAtStep, MidRun, AtQuestion, Failing, PC
<1>9. CASE EmitStarted(r, t) \/ Enter(r, t) \/ ResumeWithAnswer(r, t)
           \/ Interrupt(r, t) \/ Finish(r, t) \/ Ask(r, t) \/ Continue(r, t)
  BY <1>4, <1>8, <1>9 DEF EmitStarted, Enter, ResumeWithAnswer,
     Interrupt, Finish, Ask, Continue, dbVars, MidRun
<1>19. CASE ResumeWithoutCheckpoint(r, t) \/ Raise(r, t)
  BY <1>18, <1>19 DEF ResumeWithoutCheckpoint, Raise, dbVars, Failing
<1>10. CASE BootRow(r, t) \/ ClearRow(r, t)
  <2>1. row'[r].status = "running"
    BY <1>10 DEF BootRow, ClearRow, WriteRow, TypeOK, Entry
  <2>2. QED
    BY <1>4, <1>10, <2>1 DEF BootRow, ClearRow, MidRun
<1>11. CASE ResumeAtCheckpoint(r, t)
  <2>1. ckpt[r].at \in {"running", "asked", "finished"}
    BY <1>11 DEF ResumeAtCheckpoint, CheckpointExists, TypeOK, Checkpoint
  <2>2. QED
    BY <1>4, <1>8, <1>11, <2>1 DEF ResumeAtCheckpoint, dbVars, MidRun
<1>12. CASE Say(r, t) \/ SayMessage(r, t)
  BY <1>4, <1>8, <1>12 DEF Say, SayMessage, MidRun
<1>13. CASE AskRow(r, t)
  BY <1>5, <1>13 DEF AskRow, WriteRow, TypeOK
<1>14. CASE EmitAsk(r, t) \/ Clear(r, t)
  <2>1. row'[r].status = "waiting"
    BY <1>2, <1>14 DEF EmitAsk, Clear, RowAtStep, AtQuestion, dbVars
  <2>2. QED
    BY <1>5, <1>14, <2>1 DEF EmitAsk, Clear
<1>15. CASE Complete(r, t)
  <2>1. CASE EndRecord(r, t, "done", "completed", "doneRow")
    BY <1>4, <1>8, <2>1 DEF EndRecord, dbVars, MidRun
  <2>2. CASE EndRow(r, t, "doneRow", "completed", "doneEmit")
    BY <1>6, <2>2 DEF EndRow, WriteRow, TypeOK
  <2>3. CASE EndEvent(r, t, "doneEmit", "run_completed", "doneOff")
    BY <1>2, <1>6, <2>3 DEF EndEvent, RowAtStep
  <2>4. QED
    BY <1>15, <2>1, <2>2, <2>3 DEF Complete
<1>16. CASE Fail(r, t)
  <2>1. CASE EndRecord(r, t, "fail", "failed", "failRow")
    BY <1>18, <2>1 DEF EndRecord, dbVars, Failing
  <2>2. CASE EndRow(r, t, "failRow", "failed", "failEmit")
    BY <1>7, <2>2 DEF EndRow, WriteRow, TypeOK
  <2>3. CASE EndEvent(r, t, "failEmit", "run_failed", "failOff")
    BY <1>2, <1>7, <2>3 DEF EndEvent, RowAtStep
  <2>4. QED
    BY <1>16, <2>1, <2>2, <2>3 DEF Fail
<1>17. QED
  BY <1>9, <1>10, <1>11, <1>12, <1>13, <1>14, <1>15, <1>16, <1>19

\* The steps that do: the first, the question, the answer and the last.
LEMMA BootKeeps ==
    ASSUME TypeOK, TypeOK', NEW r \in Runs, NEW t \in Threads, RunInvariant(r), Boot(r, t)
    PROVE  RunInvariant(r)'
<1>1. Driving(r, t) /\ pc[r][t] = "boot"
  BY DEF Boot, Driving
<1>2. pc'[r][t] = "bootRow" /\ \A u \in Threads \ {t} : pc'[r][u] = pc[r][u]
  BY DEF Boot, Goto, TypeOK
<1>3. /\ task'[r][t].own <=> r \in active
      /\ task'[r][t].resume = task[r][t].resume
      /\ \A u \in Threads \ {t} : task'[r][u] = task[r][u]
  BY DEF Boot, TypeOK, Task
<1>4. UNCHANGED <<row, active, queue, request, shown, replied>>
  BY DEF Boot, dbVars, auxVars
<1>5. \A u \in Threads \ {t} : ~Driving(r, u)'
  BY <1>1, <1>2, <1>3, OnlyDriver DEF Driving
<1>6. ~Starting(r)' /\ ~Unanswered(r)' /\ ~Replying(r)' /\ ~Queued(r)'
  BY <1>1, <1>4, OnlyDriver DEF Starting, Unanswered, Replying, Queued
<1>7. AloneInRun(r)' /\ OneReply(r)' /\ StartingRow(r)'
  BY <1>5, <1>6 DEF AloneInRun, OneReply, StartingRow, Starting
<1>8. RowAtStep(r, t)' /\ row'[r].status # "absent"
  BY <1>1, <1>2, <1>3, <1>4, OnlyDriver DEF RowAtStep, MidRun, AtQuestion
<1>9. Ownership(r)'
  BY <1>2, <1>3, <1>4, <1>5 DEF Ownership, Driving
<1>10. QED
  BY <1>5, <1>7, <1>8, <1>9 DEF RunInvariant, AbsentRow

LEMMA AskMessageKeeps ==
    ASSUME TypeOK, TypeOK', NEW r \in Runs, NEW t \in Threads, RunInvariant(r),
           AskMessage(r, t), Client = "chat"
    PROVE  RunInvariant(r)'
<1>1. Driving(r, t) /\ pc[r][t] = "askMsg" /\ row[r].status = "waiting"
  BY OnlyDriver DEF AskMessage, Driving, RowAtStep, AtQuestion
<1>2. pc'[r][t] = "wait" /\ \A u \in Threads \ {t} : pc'[r][u] = pc[r][u]
  BY DEF AskMessage, Goto, TypeOK
<1>3. UNCHANGED <<row, task, active, queue, request, replied>>
  BY DEF AskMessage, recordVars
<1>4. \A u \in Threads \ {t} : ~Driving(r, u)'
  BY <1>1, <1>2, <1>3, OnlyDriver DEF Driving
<1>5. ~Starting(r)' /\ ~Replying(r)' /\ ~Queued(r)'
  BY <1>1, <1>3, OnlyDriver DEF Starting, Replying, Queued
<1>6. shown'[r] = replied'[r] + 1
  BY <1>1, <1>3, OnlyDriver DEF AskMessage, Unanswered, TypeOK
<1>7. AloneInRun(r)' /\ StartingRow(r)'
  BY <1>4, <1>5 DEF AloneInRun, StartingRow, Starting
<1>13. task[r][t].own <=> r \in active
  BY <1>1 DEF RunInvariant, Ownership
<1>8. Quiet(r)'
  BY <1>1, <1>2, <1>3, <1>4, <1>13 DEF Quiet, Driving
<1>9. OneReply(r)'
  BY <1>5, <1>6, <1>8 DEF OneReply
<1>10. RowAtStep(r, t)'
  BY <1>1, <1>2, <1>3 DEF RowAtStep, MidRun, AtQuestion
<1>11. Ownership(r)'
  BY <1>2, <1>3, <1>4, <1>13 DEF Ownership, Driving
<1>12. QED
  BY <1>1, <1>3, <1>4, <1>7, <1>9, <1>10, <1>11 DEF RunInvariant, AbsentRow

LEMMA TakeAnswerKeeps ==
    ASSUME TypeOK, TypeOK', NEW r \in Runs, NEW t \in Threads, RunInvariant(r),
           TakeAnswer(r, t)
    PROVE  RunInvariant(r)'
<1>1. Driving(r, t) /\ pc[r][t] = "wait" /\ row[r].status = "waiting" /\ Queued(r)
  BY OnlyDriver DEF TakeAnswer, Driving, RowAtStep, AtQuestion, Queued
<1>2. pc'[r][t] = "clear" /\ \A u \in Threads \ {t} : pc'[r][u] = pc[r][u]
  BY DEF TakeAnswer, Goto, TypeOK
<1>3. task'[r][t].own = task[r][t].own /\ \A u \in Threads \ {t} : task'[r][u] = task[r][u]
  <2>1. task'[r][t] = [task[r][t] EXCEPT !.answer = Head(queue[r])]
    BY DEF TakeAnswer, TypeOK
  <2>2. task[r][t] \in Task
    BY DEF TypeOK
  <2>3. task'[r][t].own = task[r][t].own
    BY <2>1, <2>2 DEF Task
  <2>4. \A u \in Threads \ {t} : task'[r][u] = task[r][u]
    BY DEF TakeAnswer, TypeOK
  <2>5. QED
    BY <2>3, <2>4
<1>4. UNCHANGED <<row, active, request, shown, replied>>
  BY DEF TakeAnswer, dbVars, auxVars
<1>5. \A u \in Threads \ {t} : ~Driving(r, u)'
  BY <1>1, <1>2, <1>3, OnlyDriver DEF Driving
<1>6. ~Unanswered(r) /\ ~Replying(r) /\ Len(queue[r]) = 1
  BY <1>1 DEF RunInvariant, OneReply
<1>7. queue'[r] = << >>
  <2>1. queue[r] \in Seq(Asks) /\ queue'[r] = Tail(queue[r])
    BY DEF TakeAnswer, TypeOK
  <2>2. Tail(queue[r]) \in Seq(Asks) /\ Len(Tail(queue[r])) = 0
    BY <1>1, <1>6, <2>1, HeadTailProperties DEF Queued
  <2>3. QED
    BY <2>1, <2>2, EmptySeq
<1>8. ~Starting(r)' /\ ~Unanswered(r)' /\ ~Replying(r)' /\ ~Queued(r)'
  BY <1>1, <1>4, <1>6, <1>7, OnlyDriver DEF Starting, Unanswered, Replying, Queued
<1>9. AloneInRun(r)' /\ OneReply(r)' /\ StartingRow(r)'
  BY <1>5, <1>8 DEF AloneInRun, OneReply, StartingRow, Starting
<1>10. RowAtStep(r, t)'
  BY <1>1, <1>2, <1>4 DEF RowAtStep, MidRun, AtQuestion
<1>11. Ownership(r)'
  <2>1. task[r][t].own <=> r \in active
    BY <1>1 DEF RunInvariant, Ownership
  <2>2. QED
    BY <1>2, <1>3, <1>4, <1>5, <2>1 DEF Ownership, Driving
<1>12. QED
  BY <1>1, <1>4, <1>5, <1>9, <1>10, <1>11 DEF RunInvariant, AbsentRow

LEMMA DeactivateKeeps ==
    ASSUME TypeOK, TypeOK', NEW r \in Runs, NEW t \in Threads, RunInvariant(r),
           Deactivate(r, t)
    PROVE  RunInvariant(r)'
<1>1. /\ Driving(r, t) /\ pc[r][t] \in {"doneOff", "failOff"}
      /\ row[r].status \in {"completed", "failed"}
  BY OnlyDriver DEF Deactivate, Driving, RowAtStep
<1>2. pc'[r][t] = "idle" /\ \A u \in Threads \ {t} : pc'[r][u] = pc[r][u]
  BY DEF Deactivate, Goto, TypeOK
<1>3. UNCHANGED <<row, task, request, shown, replied>> /\ r \notin active' /\ queue'[r] = << >>
  BY DEF Deactivate, dbVars, auxVars, TypeOK
<1>4. \A u \in Threads : ~Driving(r, u)'
  BY <1>1, <1>2, <1>3, OnlyDriver DEF Driving
<1>5. ~Starting(r)' /\ ~Unanswered(r)' /\ ~Replying(r)' /\ ~Queued(r)'
  BY <1>1, <1>3, OnlyDriver DEF Starting, Unanswered, Replying, Queued
<1>6. QED
  BY <1>1, <1>3, <1>4, <1>5 DEF RunInvariant, AloneInRun, OneReply, StartingRow, Starting,
     Ownership, AbsentRow

\* UseTool changes nothing the invariant speaks of, and EmitConflict needs a
\* second driver.
LEMMA UseToolKeeps ==
    ASSUME NEW r \in Runs, NEW t \in Threads, RunInvariant(r), UseTool(r, t)
    PROVE  RunInvariant(r)'
BY DEF UseTool, recordVars, threadVars, auxVars, RunInvariant, AloneInRun, Driving, Starting,
   RowAtStep, Ownership, OneReply, Unanswered, Replying, Queued, Quiet, StartingRow,
   AbsentRow

LEMMA NoConflict ==
    ASSUME TypeOK, NEW r \in Runs, NEW t \in Threads, RunInvariant(r)
    PROVE  ~EmitConflict(r, t)
<1>1. \A u \in Threads : pc[r][u] \in Emitting => Driving(r, u)
  BY DEF Driving, Emitting
<1>2. QED
  BY <1>1, OnlyDriver DEF EmitConflict

LEMMA WorkerKeeps ==
    ASSUME TypeOK, TypeOK', NEW r \in Runs, NEW t \in Threads, RunInvariant(r),
           Worker(r, t), Client = "chat"
    PROVE  RunInvariant(r)'
BY PlainSteps, BootKeeps, AskMessageKeeps, TakeAnswerKeeps, DeactivateKeeps, UseToolKeeps,
   NoConflict DEF Worker

LEMMA WorkerDrives ==
    ASSUME NEW r \in Runs, NEW t \in Threads, Worker(r, t) PROVE Driving(r, t)
BY DEF Worker, Boot, BootRow, EmitStarted, Enter, ResumeWithAnswer,
   ResumeAtCheckpoint, ResumeWithoutCheckpoint, UseTool, Interrupt, Finish, Raise,
   EmitConflict, Ask, AskRow, EmitAsk, AskMessage, TakeAnswer, Clear, ClearRow, Continue,
   Say, SayMessage, Complete, Fail, Deactivate, EndRecord, EndRow, EndEvent, Driving, Emitting

\* No thread takes back the creation of a run.
LEMMA RowStaysPresent ==
    ASSUME TypeOK, NEW r \in Runs, NEW t \in Threads, Worker(r, t), row[r].status # "absent"
    PROVE  row'[r].status # "absent"
<1>1. CASE UNCHANGED row
  BY <1>1
<1>2. ASSUME NEW status \in Status \ {"absent"}, NEW q \in Asks, WriteRow(r, status, q)
      PROVE  row'[r].status # "absent"
  BY <1>2 DEF WriteRow, TypeOK
<1>3. CASE BootRow(r, t)
  BY <1>3 DEF BootRow, TypeOK, Entry
<1>4. CASE AskRow(r, t)
  BY <1>2, <1>4 DEF AskRow, TypeOK, Checkpoint, Status
<1>5. CASE ClearRow(r, t)
  BY <1>2, <1>5, Literals DEF ClearRow, Open
<1>6. CASE EndRow(r, t, "doneRow", "completed", "doneEmit")
           \/ EndRow(r, t, "failRow", "failed", "failEmit")
  BY <1>2, <1>6, Literals DEF EndRow, Terminal
<1>7. QED
  BY <1>1, <1>3, <1>4, <1>5, <1>6
  DEF Worker, Boot, EmitStarted, Enter, ResumeWithAnswer, ResumeAtCheckpoint,
      ResumeWithoutCheckpoint, UseTool, Interrupt, Finish, Raise, EmitConflict, Ask, EmitAsk,
      AskMessage, TakeAnswer, Clear, Continue, Say, SayMessage, Complete, Fail, Deactivate,
      EndRecord, EndEvent, dbVars

(* A step of one run leaves the others alone. *)

ElsewhereOrNone(req, s) == req.pc = "none" \/ req.run # s

LEMMA SameRun ==
    ASSUME NEW s \in Runs, RunInvariant(s),
           pc'[s] = pc[s], task'[s] = task[s], row'[s] = row[s], queue'[s] = queue[s],
           shown'[s] = shown[s], replied'[s] = replied[s], s \in active' <=> s \in active,
           \/ request' = request
           \/ ElsewhereOrNone(request, s) /\ ElsewhereOrNone(request', s)
    PROVE  RunInvariant(s)'
<1>1. CASE request' = request
  BY <1>1 DEF RunInvariant, AloneInRun, Driving, Starting,
     RowAtStep, Ownership, OneReply, Unanswered, Replying, Queued, Quiet, StartingRow,
     AbsentRow
<1>2. CASE ElsewhereOrNone(request, s) /\ ElsewhereOrNone(request', s)
  BY <1>2 DEF RunInvariant, AloneInRun, Driving, Starting, ElsewhereOrNone,
     RowAtStep, Ownership, OneReply, Unanswered, Replying, Queued, Quiet, StartingRow,
     AbsentRow
<1>3. QED
  BY <1>1, <1>2

LEMMA WorkerChangesOnlyItsRun ==
    ASSUME TypeOK, NEW r \in Runs, NEW t \in Threads, Worker(r, t),
           NEW s \in Runs, s # r
    PROVE  /\ pc'[s] = pc[s] /\ task'[s] = task[s] /\ row'[s] = row[s]
           /\ mem'[s] = mem[s] /\ queue'[s] = queue[s] /\ (s \in active' <=> s \in active)
           /\ shown'[s] = shown[s] /\ replied'[s] = replied[s] /\ request' = request
BY DEF Worker, TypeOK, Goto, Boot, BootRow, EmitStarted, Enter, ResumeWithAnswer, Deliver,
   ResumeAtCheckpoint, ResumeWithoutCheckpoint, UseTool, Interrupt, Finish, Raise,
   EmitConflict, Ask, AskRow, EmitAsk, AskMessage, TakeAnswer, Clear, ClearRow, Continue,
   Say, SayMessage, Complete, Fail, Deactivate, EndRecord, EndRow, EndEvent, WriteRow,
   WriteRecord, dbVars, recordVars, threadVars, auxVars

LEMMA WorkerElsewhere ==
    ASSUME TypeOK, NEW r \in Runs, NEW t \in Threads, Worker(r, t),
           NEW s \in Runs, s # r, RunInvariant(s)
    PROVE  RunInvariant(s)'
BY WorkerChangesOnlyItsRun, SameRun

LEMMA RequestIsElsewhere ==
    ASSUME TypeOK, NEW r \in Runs, CreateRun(r) \/ Clarify(r) \/ Handler(r),
           NEW s \in Runs, s # r
    PROVE  ElsewhereOrNone(request, s) /\ ElsewhereOrNone(request', s)
<1>1. CASE CreateRun(r)
  BY <1>1 DEF CreateRun, ElsewhereOrNone, NoRequest
<1>2. CASE Clarify(r)
  BY <1>2 DEF Clarify, ElsewhereOrNone
<1>3. CASE StartRun(r) \/ HandAnswer(r) \/ Respawn(r)
  <2>1. request.run = r /\ request' = NoRequest
    BY <1>3 DEF StartRun, HandAnswer, Respawn
  <2>2. QED
    BY <2>1 DEF ElsewhereOrNone, NoRequest
<1>4. CASE StoreAnswer(r) \/ RouteInactive(r)
  <2>1. request.run = r /\ request'.run = r
    BY <1>4 DEF StoreAnswer, RouteInactive, TypeOK, Request
  <2>2. QED
    BY <2>1 DEF ElsewhereOrNone
<1>5. QED
  BY <1>1, <1>2, <1>3, <1>4 DEF Handler

LEMMA RequestChangesOnlyItsRun ==
    ASSUME TypeOK, NEW r \in Runs, CreateRun(r) \/ Clarify(r) \/ Handler(r),
           NEW s \in Runs, s # r
    PROVE  /\ pc'[s] = pc[s] /\ task'[s] = task[s] /\ row'[s] = row[s]
           /\ mem'[s] = mem[s] /\ queue'[s] = queue[s] /\ (s \in active' <=> s \in active)
           /\ shown'[s] = shown[s] /\ replied'[s] = replied[s]
<1>1. pc'[s] = pc[s] /\ task'[s] = task[s]
  BY DEF TypeOK, CreateRun, Clarify, Handler, StartRun, StoreAnswer, HandAnswer, RouteInactive,
     Respawn, Spawn, Goto, threadVars
<1>2. /\ row'[s] = row[s] /\ mem'[s] = mem[s] /\ queue'[s] = queue[s]
      /\ shown'[s] = shown[s] /\ replied'[s] = replied[s] /\ (s \in active' <=> s \in active)
  BY DEF TypeOK, CreateRun, Clarify, Handler, StartRun, StoreAnswer, HandAnswer, RouteInactive,
     Respawn, WriteRow, dbVars, recordVars, auxVars
<1>3. QED
  BY <1>1, <1>2

LEMMA RequestElsewhere ==
    ASSUME TypeOK, NEW r \in Runs, CreateRun(r) \/ Clarify(r) \/ Handler(r),
           NEW s \in Runs, s # r, RunInvariant(s)
    PROVE  RunInvariant(s)'
BY RequestIsElsewhere, RequestChangesOnlyItsRun, SameRun

(* Requests for a run. *)

LEMMA AbsentIsEmpty ==
    ASSUME TypeOK, NEW r \in Runs, RunInvariant(r), row[r].status = "absent"
    PROVE  /\ \A t \in Threads : ~Driving(r, t)
           /\ r \notin active
           /\ ~Unanswered(r) /\ ~Replying(r) /\ ~Queued(r)
BY DEF RunInvariant, AbsentRow, OneReply, Quiet

LEMMA CreateRunKeeps ==
    ASSUME TypeOK, NEW r \in Runs, RunInvariant(r), CreateRun(r) PROVE RunInvariant(r)'
<1>1. /\ row'[r].status = "queued" /\ request'.pc = "spawn" /\ request'.run = r
      /\ UNCHANGED <<pc, task, active, queue, shown, replied>>
  BY DEF CreateRun, WriteRow, NoRequest, TypeOK, recordVars, threadVars, auxVars
<1>2. /\ \A t \in Threads : ~Driving(r, t)'
      /\ r \notin active'
      /\ ~Unanswered(r)' /\ ~Replying(r)' /\ ~Queued(r)'
  BY <1>1, AbsentIsEmpty DEF CreateRun, Driving, Unanswered, Replying, Queued
<1>3. QED
  BY <1>1, <1>2 DEF RunInvariant, AloneInRun, Ownership, OneReply, StartingRow, AbsentRow

\* A spawned thread is the only driver of its run.
LEMMA SpawnKeeps ==
    ASSUME TypeOK, NEW r \in Runs, NEW b \in BOOLEAN, NEW a \in Asks, RunInvariant(r),
           Starting(r), Spawn(r, b, a), request' = NoRequest,
           row'[r].status = IF b THEN "running" ELSE "queued",
           UNCHANGED <<row, shown, replied>>, queue'[r] = << >>
    PROVE  RunInvariant(r)'
<1> DEFINE fresh == [resume |-> b, answer |-> a, own |-> FALSE]
<1>0. PICK t \in Threads : Goto(r, t, "boot") /\ task' = [task EXCEPT ![r][t] = fresh]
  BY DEF Spawn
<1>a. fresh.resume = b /\ ~fresh.own
  OBVIOUS
<1> HIDE DEF fresh
<1>1. /\ pc'[r][t] = "boot" /\ task'[r][t] = fresh
      /\ \A u \in Threads \ {t} : pc'[r][u] = pc[r][u] /\ task'[r][u] = task[r][u]
  BY <1>0 DEF Goto, TypeOK
<1>2. Driving(r, t)' /\ \A u \in Threads \ {t} : ~Driving(r, u)'
  BY <1>1 DEF Driving, RunInvariant, AloneInRun
<1>3. AloneInRun(r)' /\ StartingRow(r)'
  BY <1>2 DEF AloneInRun, StartingRow, Starting, NoRequest
<1>4. RowAtStep(r, t)'
  BY <1>1, <1>a DEF RowAtStep, MidRun, AtQuestion
<1>5. Ownership(r)'
  BY <1>1, <1>2, <1>a DEF Ownership
<1>6. OneReply(r)'
  BY DEF OneReply, RunInvariant, Unanswered, Replying, Queued, Quiet, NoRequest
<1>7. QED
  BY <1>2, <1>3, <1>4, <1>5, <1>6 DEF RunInvariant, AbsentRow

LEMMA StartRunKeeps ==
    ASSUME TypeOK, NEW r \in Runs, RunInvariant(r), StartRun(r) PROVE RunInvariant(r)'
<1>1. Starting(r) /\ row[r].status = "queued"
  BY DEF StartRun, Starting, RunInvariant, StartingRow
<1>2. queue'[r] = << >> /\ UNCHANGED <<row, shown, replied>>
  BY DEF StartRun, TypeOK, dbVars, auxVars
<1>3. QED
  BY <1>1, <1>2, SpawnKeeps, Literals DEF StartRun

LEMMA RespawnKeeps ==
    ASSUME TypeOK, NEW r \in Runs, RunInvariant(r), Respawn(r) PROVE RunInvariant(r)'
<1>1. Starting(r) /\ row[r].status = "running"
  BY DEF Respawn, Starting, RunInvariant, StartingRow
<1>2. ~Queued(r)
  BY <1>1 DEF RunInvariant, OneReply, Quiet
<1>3. queue'[r] = << >> /\ UNCHANGED <<row, shown, replied>> /\ request.answer \in Asks
  BY <1>2 DEF Respawn, Queued, TypeOK, Request, dbVars, recordVars, auxVars
<1>4. QED
  BY <1>1, <1>3, SpawnKeeps DEF Respawn

LEMMA ClarifyKeeps ==
    ASSUME TypeOK, NEW r \in Runs, RunInvariant(r), Clarify(r), Client = "chat"
    PROVE  RunInvariant(r)'
<1>1. Unanswered(r) /\ Quiet(r) /\ ~Queued(r)
  BY DEF Clarify, MayReply, Unanswered, RunInvariant, OneReply, TypeOK
<1>2. /\ request'.run = r /\ request'.pc = "store" /\ replied'[r] = shown'[r]
      /\ UNCHANGED <<pc, task, row, active, queue>>
  BY DEF Clarify, TypeOK, dbVars, recordVars, threadVars
<1>3. Quiet(r)' /\ ~Unanswered(r)' /\ ~Queued(r)' /\ Replying(r)' /\ ~Starting(r)'
  BY <1>1, <1>2 DEF Quiet, Unanswered, Queued, Replying, Starting, Driving
<1>4. QED
  BY <1>2, <1>3 DEF RunInvariant, AloneInRun, Driving, RowAtStep, Ownership, OneReply, StartingRow,
     Quiet, AbsentRow

LEMMA StoreAnswerKeeps ==
    ASSUME TypeOK, NEW r \in Runs, RunInvariant(r), StoreAnswer(r) PROVE RunInvariant(r)'
<1>1. /\ request'.run = r /\ request'.pc = "route"
      /\ UNCHANGED <<pc, task, row, active, queue, shown, replied>>
  BY DEF StoreAnswer, TypeOK, Request, recordVars, threadVars, auxVars
<1>2. Replying(r) /\ Replying(r)' /\ ~Starting(r)'
  BY <1>1 DEF StoreAnswer, Replying, Starting
<1>3. QED
  BY <1>1, <1>2 DEF RunInvariant, AloneInRun, Driving, RowAtStep, Ownership, OneReply,
     Unanswered, Queued, Quiet, StartingRow, AbsentRow

LEMMA HandAnswerKeeps ==
    ASSUME TypeOK, NEW r \in Runs, RunInvariant(r), HandAnswer(r) PROVE RunInvariant(r)'
<1>1. Replying(r) /\ Quiet(r) /\ ~Unanswered(r) /\ ~Queued(r)
  BY DEF HandAnswer, Replying, RunInvariant, OneReply
<1>2. request' = NoRequest /\ UNCHANGED <<pc, task, row, active, shown, replied>> /\ r \in active
  BY DEF HandAnswer, dbVars, threadVars, auxVars
<1>3. Len(queue'[r]) = 1
  BY <1>1 DEF HandAnswer, Queued, TypeOK, Request
<1>4. Quiet(r)' /\ ~Unanswered(r)' /\ ~Replying(r)' /\ ~Starting(r)'
  BY <1>1, <1>2 DEF Quiet, Unanswered, Replying, Starting, Driving, NoRequest
<1>5. QED
  BY <1>2, <1>3, <1>4 DEF RunInvariant, AloneInRun, Driving, RowAtStep, Ownership, OneReply,
     StartingRow, AbsentRow, NoRequest

LEMMA RouteInactiveKeeps ==
    ASSUME TypeOK, NEW r \in Runs, RunInvariant(r), RouteInactive(r) PROVE RunInvariant(r)'
<1>1. Quiet(r) /\ ~Unanswered(r) /\ ~Queued(r) /\ r \notin active
  BY DEF RouteInactive, Replying, RunInvariant, OneReply
<1>2. \A t \in Threads : ~Driving(r, t)
  BY <1>1 DEF Quiet, Driving, RunInvariant, Ownership
<1>3. /\ row'[r].status = "running" /\ request'.run = r /\ request'.pc = "respawn"
      /\ UNCHANGED <<pc, task, active, queue, shown, replied>>
  BY DEF RouteInactive, WriteRow, TypeOK, Request, recordVars, threadVars, auxVars
<1>4. /\ \A t \in Threads : ~Driving(r, t)'
      /\ ~Unanswered(r)' /\ ~Queued(r)' /\ ~Replying(r)' /\ r \notin active'
  BY <1>1, <1>2, <1>3 DEF Driving, Unanswered, Queued, Replying
<1>5. QED
  BY <1>3, <1>4 DEF RunInvariant, AloneInRun, Ownership, OneReply, StartingRow, AbsentRow

LEMMA RequestKeeps ==
    ASSUME TypeOK, NEW r \in Runs, RunInvariant(r), CreateRun(r) \/ Clarify(r) \/ Handler(r),
           Client = "chat"
    PROVE  RunInvariant(r)'
BY CreateRunKeeps, StartRunKeeps, RespawnKeeps, ClarifyKeeps, StoreAnswerKeeps, HandAnswerKeeps,
   RouteInactiveKeeps DEF Handler

(* Crash and restart. *)

LEMMA CrashKeeps ==
    ASSUME TypeOK, NEW r \in Runs, RunInvariant(r), Crash PROVE RunInvariant(r)'
<1>1. /\ \A t \in Threads : pc'[r][t] = "idle"
      /\ active' = {} /\ queue'[r] = << >> /\ request' = NoRequest
      /\ UNCHANGED <<row, shown, replied>>
  BY DEF Crash, NoThreads, dbVars
<1>2. /\ \A t \in Threads : ~Driving(r, t)'
      /\ ~Replying(r)' /\ ~Queued(r)' /\ ~Starting(r)'
  BY <1>1 DEF Driving, Replying, Queued, Starting, NoRequest
<1>3. OneReply(r)'
  BY <1>1, <1>2 DEF RunInvariant, OneReply, Unanswered, Quiet
<1>4. QED
  BY <1>1, <1>2, <1>3 DEF RunInvariant, AloneInRun, Ownership, StartingRow, AbsentRow, NoRequest

LEMMA RestartKeeps ==
    ASSUME TypeOK, DownIsEmpty, NEW r \in Runs, RunInvariant(r), Restart PROVE RunInvariant(r)'
<1>1. /\ active' = {} /\ queue'[r] = << >> /\ request' = NoRequest
      /\ UNCHANGED <<row, shown, replied>>
  BY DEF Restart, DownIsEmpty, dbVars, recordVars, auxVars
<1>2. 1 \in Threads
  BY ConstantsAssumption DEF Threads
<1>3. \A t \in Threads : pc'[r][t] = IF t = 1 /\ row[r].status \in Open THEN "boot" ELSE "idle"
  BY DEF Restart
<1>4. AloneInRun(r)' /\ StartingRow(r)'
  BY <1>1, <1>3 DEF AloneInRun, StartingRow, Starting, Driving, NoRequest
<1>9. Ownership(r)'
  <2>1. \A t \in Threads : ~task'[r][t].own
    BY DEF Restart, NoTask
  <2>2. QED
    BY <1>3, <2>1 DEF Ownership, Driving
<1>5. OneReply(r)'
  BY <1>1, <1>3 DEF RunInvariant, OneReply, Unanswered, Replying, Queued, Quiet, NoRequest,
     Driving, Open
<1>6. ASSUME NEW t \in Threads, Driving(r, t)' PROVE RowAtStep(r, t)'
  <2>1. t = 1 /\ row[r].status \in Open /\ pc'[r][t] = "boot"
    BY <1>3, <1>6 DEF Driving
  <2> DEFINE known(u) == u = 1 /\ row[r].status = "running"
  <2>2. task'[r][t] = [NoTask EXCEPT !.resume = known(t)]
    BY DEF Restart
  <2>3. \A b \in BOOLEAN : [NoTask EXCEPT !.resume = b].resume = b
    BY DEF NoTask
  <2>4. task'[r][t].resume = known(t)
    BY <2>2, <2>3
  <2>5. task'[r][t].resume <=> row[r].status = "running"
    BY <2>1, <2>4
  <2>6. QED
    BY <1>1, <2>1, <2>5 DEF RowAtStep, MidRun, AtQuestion, Open
<1>8. AbsentRow(r)'
  BY <1>1, <1>3 DEF RunInvariant, AbsentRow, Driving, Open
<1>7. QED
  BY <1>1, <1>4, <1>5, <1>6, <1>8, <1>9 DEF RunInvariant

LEMMA DownStaysEmpty ==
    ASSUME TypeOK, DownIsEmpty, [Next]_vars PROVE DownIsEmpty'
<1>1. ASSUME NEW r \in Runs, NEW t \in Threads, Worker(r, t) PROVE up'
  <2>1. pc # NoThreads
    BY <1>1, WorkerDrives DEF Driving, NoThreads
  <2>2. UNCHANGED up
    BY <1>1 DEF Worker, Boot, BootRow, EmitStarted, Enter, ResumeWithAnswer,
       ResumeAtCheckpoint, ResumeWithoutCheckpoint, UseTool, Interrupt, Finish, Raise,
       EmitConflict, Ask, AskRow, EmitAsk, AskMessage, TakeAnswer, Clear, ClearRow, Continue,
       Say, SayMessage, Complete, Fail, Deactivate, EndRecord, EndRow, EndEvent
  <2>3. QED
    BY <2>1, <2>2 DEF DownIsEmpty, TypeOK
<1>2. ASSUME NEW r \in Runs, CreateRun(r) \/ Clarify(r) \/ Handler(r) PROVE up'
  <2>1. up \/ request.pc # "none"
    BY <1>2 DEF CreateRun, Clarify, Handler, StartRun, StoreAnswer, HandAnswer, RouteInactive,
       Respawn
  <2>2. UNCHANGED up
    BY <1>2 DEF CreateRun, Clarify, Handler, StartRun, StoreAnswer, HandAnswer, RouteInactive,
       Respawn
  <2>3. QED
    BY <2>1, <2>2 DEF DownIsEmpty, NoRequest, TypeOK
<1>3. CASE Crash
  BY <1>3 DEF Crash, DownIsEmpty
<1>4. CASE Restart
  BY <1>4 DEF Restart, DownIsEmpty
<1>5. CASE UNCHANGED vars
  BY <1>5 DEF vars, recordVars, threadVars, DownIsEmpty
<1>6. QED
  BY <1>1, <1>2, <1>3, <1>4, <1>5 DEF Next, DownIsEmpty

LEMMA InitInvariant == Init => ServiceInvariant
<1> SUFFICES ASSUME Init, NEW r \in Runs PROVE RunInvariant(r)
  BY DEF ServiceInvariant, Init, DownIsEmpty
<1>1. /\ \A t \in Threads : pc[r][t] = "idle"
      /\ row[r].status = "absent" /\ active = {} /\ queue[r] = << >> /\ request = NoRequest
      /\ shown[r] = 0 /\ replied[r] = 0
  BY DEF Init, NoThreads, NoEntry
<1>2. QED
  BY <1>1 DEF RunInvariant, AloneInRun, Ownership, OneReply, StartingRow, AbsentRow, Driving,
     Unanswered, Replying, Queued, Starting, NoRequest

LEMMA ServiceStep ==
    ASSUME TypeOK, TypeOK', ServiceInvariant, [Next]_vars, Client = "chat"
    PROVE  ServiceInvariant'
<1> SUFFICES ASSUME NEW s \in Runs PROVE RunInvariant(s)'
  BY DownStaysEmpty DEF ServiceInvariant
<1>1. RunInvariant(s) /\ DownIsEmpty
  BY DEF ServiceInvariant
<1>2. ASSUME NEW r \in Runs, NEW t \in Threads, Worker(r, t) PROVE RunInvariant(s)'
  BY <1>1, <1>2, WorkerKeeps, WorkerElsewhere
<1>3. ASSUME NEW r \in Runs, CreateRun(r) \/ Clarify(r) \/ Handler(r) PROVE RunInvariant(s)'
  BY <1>1, <1>3, RequestKeeps, RequestElsewhere
<1>4. CASE Crash
  BY <1>1, <1>4, CrashKeeps
<1>5. CASE Restart
  BY <1>1, <1>5, RestartKeeps
<1>6. CASE UNCHANGED vars
  BY <1>1, <1>6, SameRun DEF vars, dbVars, recordVars, threadVars, auxVars
<1>7. QED
  BY <1>2, <1>3, <1>4, <1>5, <1>6 DEF Next

(* While every transaction succeeds an active run has a driver, and only a run *)
(* that is running fails.                                                      *)

LEMMA WorkerAttends ==
    ASSUME TypeOK, NEW r \in Runs, NEW t \in Threads, Worker(r, t), RunInvariant(r),
           Attended(r)
    PROVE  Attended(r)'
<1>1. Driving(r, t) /\ RowAtStep(r, t) /\ ~EmitConflict(r, t)
  BY WorkerDrives, NoConflict DEF RunInvariant
<1>2. \A u \in Threads \ {t} : pc[r][u] \notin Failing
  BY <1>1 DEF RunInvariant, AloneInRun, Driving, Failing
<1>3. ASSUME NEW step \in PC, Goto(r, t, step), step \in Failing => row'[r].status = "running",
             r \in active' => /\ r \in active /\ step # "idle"
                              /\ step = "wait" => UNCHANGED task /\ pc[r][t] # "boot"
      PROVE  Attended(r)'
  <2>1. pc'[r][t] = step /\ \A u \in Threads \ {t} : pc'[r][u] = pc[r][u]
    BY <1>3 DEF Goto, TypeOK
  <2>2. r \in active' => Driving(r, t)'
    BY <1>1, <1>3, <2>1 DEF Driving, RunInvariant, Ownership
  <2>3. QED
    BY <1>2, <1>3, <2>1, <2>2 DEF Attended
<1>4. CASE UseTool(r, t)
  BY <1>4 DEF UseTool, Attended, Driving, recordVars, threadVars
<1>5. CASE Deactivate(r, t)
  BY <1>3, <1>5 DEF Deactivate, Failing, PC
<1>6. CASE AskMessage(r, t)
  BY <1>3, <1>6 DEF AskMessage, Failing, PC, recordVars
<1>7. CASE ResumeWithoutCheckpoint(r, t) \/ Raise(r, t)
  BY <1>1, <1>3, <1>7 DEF ResumeWithoutCheckpoint, Raise, RowAtStep, MidRun, Failing, PC,
     recordVars, dbVars
<1>8. CASE Fail(r, t)
  <2>1. pc[r][t] = "fail" => row[r].status = "running"
    BY DEF Attended, Failing
  <2>2. QED
    BY <1>3, <1>8, <2>1 DEF Fail, EndRecord, EndRow, EndEvent, Failing, PC, Emitting, recordVars,
       dbVars
<1>9. CASE ResumeAtCheckpoint(r, t)
  <2>1. ckpt[r].at \in {"running", "asked", "finished"}
    BY <1>9 DEF ResumeAtCheckpoint, CheckpointExists, TypeOK, Checkpoint
  <2>2. QED
    BY <1>3, <1>9, <2>1 DEF ResumeAtCheckpoint, Failing, PC, Emitting, recordVars
<1>10. CASE Boot(r, t) \/ BootRow(r, t) \/ EmitStarted(r, t) \/ Enter(r, t)
            \/ ResumeWithAnswer(r, t) \/ Interrupt(r, t) \/ Finish(r, t)
  BY <1>3, <1>10 DEF Boot, BootRow, EmitStarted, Enter, ResumeWithAnswer, Interrupt, Finish,
     Failing, PC, Emitting, recordVars
<1>11. CASE Ask(r, t) \/ AskRow(r, t) \/ EmitAsk(r, t) \/ TakeAnswer(r, t) \/ Clear(r, t)
            \/ ClearRow(r, t) \/ Continue(r, t)
  BY <1>3, <1>11 DEF Ask, AskRow, EmitAsk, TakeAnswer, Clear, ClearRow, Continue,
     Failing, PC, Emitting, recordVars
<1>12. CASE Say(r, t) \/ SayMessage(r, t) \/ Complete(r, t)
  BY <1>3, <1>12 DEF Say, SayMessage, Complete, EndRecord, EndRow, EndEvent,
     Failing, PC, Emitting, recordVars
<1>13. QED
  BY <1>1, <1>4, <1>5, <1>6, <1>7, <1>8, <1>9, <1>10, <1>11, <1>12 DEF Worker

LEMMA RequestAttends ==
    ASSUME TypeOK, NEW r \in Runs, CreateRun(r) \/ Clarify(r) \/ Handler(r), RunInvariant(r),
           Attended(r)
    PROVE  Attended(r)'
<1>1. CASE StartRun(r) \/ Respawn(r)
  <2>1. PICK t \in Threads : Goto(r, t, "boot") /\ pc[r][t] = "idle"
    BY <1>1 DEF StartRun, Respawn, Spawn
  <2>2. pc'[r][t] = "boot" /\ \A u \in Threads \ {t} : pc'[r][u] = pc[r][u]
    BY <2>1 DEF Goto, TypeOK
  <2>3. UNCHANGED row
    BY <1>1 DEF StartRun, Respawn, dbVars
  <2>4. QED
    BY <2>2, <2>3 DEF Attended, Driving, Failing
<1>2. CASE CreateRun(r) \/ RouteInactive(r)
  <2>1. /\ UNCHANGED <<pc, task, active>> /\ r \notin active
        /\ \A t \in Threads : pc[r][t] \in {"idle", "wait"}
    BY <1>2 DEF CreateRun, RouteInactive, RunInvariant, AbsentRow, OneReply, Quiet, Replying,
       Driving, recordVars, threadVars
  <2>2. QED
    BY <2>1 DEF Attended, Failing
<1>3. CASE Clarify(r) \/ StoreAnswer(r) \/ HandAnswer(r)
  BY <1>3 DEF Clarify, StoreAnswer, HandAnswer, Attended, Driving, dbVars, recordVars, threadVars
<1>4. QED
  BY <1>1, <1>2, <1>3 DEF Handler

LEMMA SameAttended ==
    ASSUME NEW s \in Runs, Attended(s), pc'[s] = pc[s], task'[s] = task[s], row'[s] = row[s],
           s \in active' <=> s \in active
    PROVE  Attended(s)'
BY DEF Attended, Driving

LEMMA ChatStep ==
    ASSUME TypeOK, TypeOK', ChatInvariant, [Next]_vars, Client = "chat" PROVE ChatInvariant'
<1> SUFFICES ASSUME NEW s \in Runs PROVE Attended(s)'
  BY ServiceStep DEF ChatInvariant
<1>1. RunInvariant(s) /\ Attended(s) /\ DownIsEmpty
  BY DEF ChatInvariant, ServiceInvariant
<1>2. ASSUME NEW r \in Runs, NEW t \in Threads, Worker(r, t) PROVE Attended(s)'
  BY <1>1, <1>2, WorkerAttends, WorkerChangesOnlyItsRun, SameAttended
<1>3. ASSUME NEW r \in Runs, CreateRun(r) \/ Clarify(r) \/ Handler(r) PROVE Attended(s)'
  BY <1>1, <1>3, RequestAttends, RequestChangesOnlyItsRun, SameAttended
<1>4. CASE Crash
  BY <1>4 DEF Crash, Attended, NoThreads, Failing
<1>5. CASE Restart
  BY <1>1, <1>5 DEF Restart, Attended, DownIsEmpty, Failing, recordVars
<1>6. CASE UNCHANGED vars
  BY <1>1, <1>6, SameAttended DEF vars, dbVars, recordVars, threadVars
<1>7. QED
  BY <1>2, <1>3, <1>4, <1>5, <1>6 DEF Next

(***************************************************************************)
(* The invariant holds for every set of runs, both checkpointers and any   *)
(* number of restarts, as long as the user answers the questions of the    *)
(* message list once each.                                                 *)
(***************************************************************************)
THEOREM ChatInvariantHolds == ASSUME Client = "chat" PROVE Safety => []ChatInvariant
<1>1. Init => ChatInvariant
  BY InitInvariant DEF Init, ChatInvariant, Attended, NoThreads, Failing
<1>2. TypeOK /\ TypeOK' /\ ChatInvariant /\ [Next]_vars => ChatInvariant'
  BY ChatStep
<1>3. QED
  BY <1>1, <1>2, TypeCorrect, PTL DEF Safety

(***************************************************************************)
(* Then no run ever has two drivers.                                       *)
(***************************************************************************)
THEOREM OneDriver == ASSUME Client = "chat" PROVE Safety => []SingleDriver
<1>1. ChatInvariant => SingleDriver
  BY DEF ChatInvariant, ServiceInvariant, RunInvariant, AloneInRun, SingleDriver
<1>2. QED
  BY <1>1, ChatInvariantHolds, PTL

LEMMA ServiceReads == ServiceInvariant => QueuedAnswerHasReader
<1> SUFFICES ASSUME ServiceInvariant, NEW r \in Runs, queue[r] # << >>
             PROVE  \E t \in Threads : task[r][t].own /\ pc[r][t] = "wait"
  BY DEF QueuedAnswerHasReader
<1>1. r \in active /\ Quiet(r)
  BY DEF ServiceInvariant, RunInvariant, OneReply, Queued
<1>2. PICK t \in Threads : Driving(r, t)
  BY <1>1 DEF Quiet
<1>3. pc[r][t] = "wait"
  BY <1>1, <1>2 DEF Quiet
<1>4. QED
  BY <1>2, <1>3 DEF Driving

(***************************************************************************)
(* And a reply on the queue of a run is read: the driver of the run owns   *)
(* the queue and stands at clarification_queue.get().                      *)
(***************************************************************************)
THEOREM QueuedAnswersAreRead ==
    ASSUME Client = "chat" PROVE Safety => []QueuedAnswerHasReader
BY ServiceReads, ChatInvariantHolds, PTL DEF ChatInvariant
-----------------------------------------------------------------------------
(* Every write of a row is a step of the lifecycle. *)

StatusColumn == [r \in Runs |-> row[r].status]

Moves == {<<"absent", "queued">>, <<"queued", "running">>, <<"running", "waiting">>,
          <<"waiting", "running">>, <<"running", "completed">>, <<"running", "failed">>}

LEMMA MoveIsStep ==
    ASSUME TypeOK, TypeOK', NEW r \in Runs,
           \A s \in Runs \ {r} : row'[s].status = row[s].status,
           \/ row'[r].status = row[r].status
           \/ <<row[r].status, row'[r].status>> \in Moves
    PROVE  [Lifecycle!Next]_StatusColumn
<1>1. CASE row'[r].status = row[r].status
  BY <1>1 DEF StatusColumn
<1>2. CASE <<row[r].status, row'[r].status>> \in Moves
  <2>1. StatusColumn' = [StatusColumn EXCEPT ![r] = row'[r].status] /\ StatusColumn[r] = row[r].status
    BY DEF StatusColumn
  <2>2. QED
    BY <1>2, <2>1 DEF Moves, StatusColumn, Lifecycle!Next, Lifecycle!Submit, Lifecycle!Start,
       Lifecycle!Ask, Lifecycle!Answer, Lifecycle!Complete, Lifecycle!Fail, Lifecycle!Work,
       Lifecycle!Move
<1>3. QED
  BY <1>1, <1>2

LEMMA WorkerMoves ==
    ASSUME TypeOK, TypeOK', NEW r \in Runs, NEW t \in Threads, Worker(r, t), RunInvariant(r),
           Attended(r)
    PROVE  [Lifecycle!Next]_StatusColumn
<1>1. CASE UNCHANGED row
  BY <1>1, MoveIsStep
<1>2. RowAtStep(r, t)
  BY WorkerDrives DEF RunInvariant
<1>3. ASSUME NEW s \in Status, NEW q \in Asks, WriteRow(r, s, q),
             <<row[r].status, s>> \in Moves
      PROVE  [Lifecycle!Next]_StatusColumn
  <2>1. row'[r].status = s /\ \A u \in Runs \ {r} : row'[u].status = row[u].status
    BY <1>3 DEF WriteRow, TypeOK
  <2>2. QED
    BY <1>3, <2>1, MoveIsStep
<1>4. CASE BootRow(r, t)
  <2>1. row'[r].status = "running" /\ \A u \in Runs \ {r} : row'[u].status = row[u].status
    BY <1>4 DEF BootRow, TypeOK, Entry
  <2>2. row[r].status \in {"running", "queued"}
    BY <1>2, <1>4 DEF BootRow, RowAtStep
  <2>3. QED
    BY <2>1, <2>2, MoveIsStep DEF Moves
<1>5. CASE AskRow(r, t)
  BY <1>2, <1>3, <1>5, Literals DEF AskRow, RowAtStep, MidRun, Moves, TypeOK, Checkpoint
<1>6. CASE ClearRow(r, t)
  BY <1>2, <1>3, <1>6, Literals DEF ClearRow, RowAtStep, AtQuestion, Moves, Open
<1>7. CASE EndRow(r, t, "doneRow", "completed", "doneEmit")
  BY <1>2, <1>3, <1>7, Literals DEF EndRow, RowAtStep, MidRun, Moves, Terminal
<1>8. CASE EndRow(r, t, "failRow", "failed", "failEmit")
  BY <1>3, <1>8, Literals DEF EndRow, Attended, Failing, Moves, Terminal
<1>9. QED
  BY <1>1, <1>4, <1>5, <1>6, <1>7, <1>8 DEF Worker, Boot, EmitStarted, Enter, ResumeWithAnswer,
     ResumeAtCheckpoint, ResumeWithoutCheckpoint, UseTool, Interrupt, Finish, Raise,
     EmitConflict, Ask, EmitAsk, AskMessage, TakeAnswer, Clear, Continue,
     Say, SayMessage, Complete, Fail, Deactivate, EndRecord, EndEvent, dbVars

LEMMA RequestMoves ==
    ASSUME TypeOK, TypeOK', NEW r \in Runs, CreateRun(r) \/ Clarify(r) \/ Handler(r),
           RunInvariant(r)
    PROVE  [Lifecycle!Next]_StatusColumn
<1>1. CASE UNCHANGED row
  BY <1>1, MoveIsStep
<1>2. CASE CreateRun(r)
  <2>1. /\ row[r].status = "absent" /\ row'[r].status = "queued"
        /\ \A u \in Runs \ {r} : row'[u].status = row[u].status
    BY <1>2 DEF CreateRun, WriteRow, TypeOK
  <2>2. QED
    BY <2>1, MoveIsStep DEF Moves
<1>3. CASE RouteInactive(r)
  <2>1. /\ row[r].status = "waiting" /\ row'[r].status = "running"
        /\ \A u \in Runs \ {r} : row'[u].status = row[u].status
    BY <1>3 DEF RouteInactive, WriteRow, TypeOK, RunInvariant, OneReply, Replying, Quiet
  <2>2. QED
    BY <2>1, MoveIsStep DEF Moves
<1>4. QED
  BY <1>1, <1>2, <1>3 DEF Handler, StartRun, Clarify, StoreAnswer, HandAnswer, Respawn, dbVars

(***************************************************************************)
(* Then the status column follows the lifecycle: a run that has ended      *)
(* never starts again, only a waiting run is answered, and no restart or   *)
(* late reply takes a step the lifecycle does not have.                    *)
(***************************************************************************)
THEOREM RunsFollowLifecycle == ASSUME Client = "chat" PROVE Safety => KeepsLifecycle
<1>1. Init => Lifecycle!Init
  BY DEF Init, NoEntry, Lifecycle!Init
<1>2. TypeOK /\ TypeOK' /\ ChatInvariant /\ [Next]_vars => [Lifecycle!Next]_StatusColumn
  <2> SUFFICES ASSUME TypeOK, TypeOK', ChatInvariant, [Next]_vars
               PROVE  [Lifecycle!Next]_StatusColumn
    OBVIOUS
  <2>1. ASSUME NEW r \in Runs, NEW t \in Threads, Worker(r, t)
        PROVE  [Lifecycle!Next]_StatusColumn
    BY <2>1, WorkerMoves DEF ChatInvariant, ServiceInvariant
  <2>2. ASSUME NEW r \in Runs, CreateRun(r) \/ Clarify(r) \/ Handler(r)
        PROVE  [Lifecycle!Next]_StatusColumn
    BY <2>2, RequestMoves DEF ChatInvariant, ServiceInvariant
  <2>3. CASE Crash \/ Restart \/ UNCHANGED vars
    BY <2>3 DEF Crash, Restart, vars, dbVars, StatusColumn
  <2>4. QED
    BY <2>1, <2>2, <2>3 DEF Next
<1>3. QED
  BY <1>1, <1>2, TypeCorrect, ChatInvariantHolds, PTL
  DEF Safety, KeepsLifecycle, Lifecycle!Safety, StatusColumn

-----------------------------------------------------------------------------
(***************************************************************************)
(* What the event log of a run tells, and that answers meet the questions  *)
(* they were given to, for every set of runs, any number of restarts and   *)
(* both checkpointers, when the user replies once to each question.        *)
(***************************************************************************)
EndEvents   == {"run_completed", "run_failed"}
LogEnds(r) == \E n \in 1 .. Len(log[r]) : log[r][n] \in EndEvents

\* The log is empty until run_started, and closed by the event of the thread that
\* wrote the row.
LogInvariant(r) ==
    /\ row[r].status \in {"absent", "queued"} \/ (\E t \in Threads : pc[r][t] = "started")
         => log[r] = << >>
    /\ \A n \in 1 .. Len(log[r]) :
         /\ log[r][n] = "run_started" => n = 1
         /\ log[r][n] \in EndEvents => n = Len(log[r])
         /\ log[r][n] = "run_completed" => row[r].status = "completed"
         /\ log[r][n] = "run_failed"    => row[r].status = "failed"
    /\ LogEnds(r) => \A t \in Threads : pc[r][t] \notin {"doneEmit", "failEmit"} \cup Failing

LEMMA SameLog ==
    ASSUME NEW s \in Runs, LogInvariant(s), log'[s] = log[s], row'[s].status = row[s].status,
           \A t \in Threads : pc'[s][t] \in {"started", "doneEmit", "failEmit"} \cup Failing
                                => pc'[s][t] = pc[s][t]
    PROVE  LogInvariant(s)'
BY DEF LogInvariant, LogEnds

LEMMA EventAppended ==
    ASSUME TypeOK, NEW r \in Runs, NEW type \in EventTypes, AppendEvent(r, type)
    PROVE  /\ Len(log'[r]) = Len(log[r]) + 1
           /\ log'[r][Len(log[r]) + 1] = type
           /\ \A n \in 1 .. Len(log[r]) : log'[r][n] = log[r][n]
BY DEF TypeOK, AppendEvent

\* While a run goes on its log has no terminal event.
LEMMA OpenLog ==
    ASSUME NEW r \in Runs, LogInvariant(r), row[r].status \notin Terminal PROVE ~LogEnds(r)
BY DEF LogInvariant, LogEnds, EndEvents, Terminal

\* A thread fails before any end of the run is in its log.
LEMMA FailedLog ==
    ASSUME TypeOK, NEW r \in Runs, NEW t \in Threads, RunInvariant(r), LogInvariant(r),
           Driving(r, t), pc[r][t] \notin {"doneOff", "failOff"},
           NEW step \in Failing, Goto(r, t, step), UNCHANGED <<row, log>>
    PROVE  LogInvariant(r)'
<1>1. ~LogEnds(r)
  <2>1. CASE pc[r][t] \in {"doneEmit", "failEmit"} \cup Failing
    BY <2>1 DEF LogInvariant
  <2>2. CASE pc[r][t] \notin {"doneEmit", "failEmit"} \cup Failing
    <3>1. RowAtStep(r, t) /\ pc[r][t] \in PC \ {"idle"}
      BY DEF RunInvariant, Driving, TypeOK
    <3>2. row[r].status \notin Terminal
      BY <2>2, <3>1 DEF RowAtStep, PC, Emitting, MidRun, AtQuestion, Failing, Terminal
    <3>3. QED
      BY <3>2, OpenLog
  <2>3. QED
    BY <2>1, <2>2
<1>2. \A u \in Threads : pc'[r][u] = pc[r][u] \/ pc'[r][u] \in Failing
  BY DEF Goto, TypeOK
<1>3. ~LogEnds(r)'
  BY <1>1 DEF LogEnds
<1>4. QED
  BY <1>2, <1>3 DEF LogInvariant, Failing

\* An event of a run that goes on.
LEMMA MidEvent ==
    ASSUME TypeOK, NEW r \in Runs, NEW t \in Threads, LogInvariant(r),
           NEW type \in EventTypes \ EndEvents, AppendEvent(r, type),
           type = "run_started" => log[r] = << >>,
           row[r].status \in {"running", "waiting"}, row'[r] = row[r],
           \A u \in Threads : pc'[r][u] # "started"
    PROVE  LogInvariant(r)'
<1>1. ~LogEnds(r)
  BY OpenLog DEF Terminal
<1>2. Len(log[r]) \in Nat /\ (log[r] = << >> => Len(log[r]) = 0)
  BY DEF TypeOK
<1>3. ~LogEnds(r)'
  BY <1>1, <1>2, EventAppended DEF LogEnds, EndEvents
<1>4. \A n \in 1 .. Len(log'[r]) : log'[r][n] = "run_started" => n = 1
  BY <1>2, EventAppended DEF LogInvariant
<1>5. QED
  BY <1>3, <1>4 DEF LogInvariant, LogEnds, EndEvents

\* The last event.
LEMMA EndEventKeeps ==
    ASSUME TypeOK, NEW r \in Runs, NEW t \in Threads, LogInvariant(r), RunInvariant(r),
           NEW type \in EndEvents, AppendEvent(r, type), UNCHANGED row,
           row[r].status = IF type = "run_completed" THEN "completed" ELSE "failed",
           pc[r][t] \in {"doneEmit", "failEmit"},
           NEW step \in {"doneOff", "failOff"}, Goto(r, t, step)
    PROVE  LogInvariant(r)'
<1>1. ~LogEnds(r)
  BY DEF LogInvariant
<1>2. pc'[r][t] = step /\ \A u \in Threads \ {t} : pc'[r][u] = pc[r][u]
  BY DEF TypeOK, Goto
<1>3. \A u \in Threads \ {t} : pc'[r][u] \in {"idle", "wait"}
  BY <1>2 DEF RunInvariant, AloneInRun, Driving
<1>4. Len(log[r]) \in Nat /\ type \in EventTypes
  BY DEF TypeOK, EndEvents, EventTypes
<1>5. \A n \in 1 .. Len(log'[r]) :
        /\ log'[r][n] = "run_started" => n = 1
        /\ log'[r][n] \in EndEvents => n = Len(log'[r]) /\ log'[r][n] = type
  BY <1>1, <1>4, EventAppended DEF LogInvariant, LogEnds, EndEvents
<1>6. QED
  BY <1>2, <1>3, <1>5 DEF LogInvariant, EndEvents, Failing

\* The row is written while the log is open.
LEMMA RowWritten ==
    ASSUME NEW r \in Runs, LogInvariant(r), ~LogEnds(r), log'[r] = log[r],
           \/ log[r] = << >>
           \/ /\ row'[r].status \notin {"absent", "queued"}
              /\ \A t \in Threads : pc'[r][t] # "started"
    PROVE  LogInvariant(r)'
<1>1. ~LogEnds(r)'
  BY DEF LogEnds
<1>2. QED
  BY <1>1 DEF LogInvariant, LogEnds, EndEvents

LEMMA WorkerKeepsLog ==
    ASSUME TypeOK, NEW r \in Runs, NEW t \in Threads, Worker(r, t), RunInvariant(r),
           LogInvariant(r)
    PROVE  LogInvariant(r)'
<1>1. Driving(r, t) /\ RowAtStep(r, t)
  BY WorkerDrives DEF RunInvariant
<1>2. ~EmitConflict(r, t)
  BY NoConflict
<1>3. \A u \in Threads \ {t} : pc[r][u] \in {"idle", "wait"}
  BY <1>1 DEF RunInvariant, AloneInRun, Driving
<1>4. ASSUME NEW step \in PC, Goto(r, t, step)
      PROVE  pc'[r][t] = step /\ \A u \in Threads \ {t} : pc'[r][u] \in {"idle", "wait"}
  BY <1>3, <1>4 DEF Goto, TypeOK
<1>5. ASSUME NEW step \in PC \ ({"started", "doneEmit", "failEmit"} \cup Failing),
             Goto(r, t, step), UNCHANGED <<row, log>>
      PROVE  LogInvariant(r)'
  BY <1>4, <1>5, SameLog DEF Failing
<1>6. CASE Boot(r, t) \/ Enter(r, t) \/ ResumeWithAnswer(r, t) \/ Interrupt(r, t)
           \/ Finish(r, t) \/ Ask(r, t) \/ AskMessage(r, t) \/ TakeAnswer(r, t) \/ Clear(r, t)
           \/ Continue(r, t) \/ SayMessage(r, t) \/ Deactivate(r, t)
  BY <1>5, <1>6 DEF Boot, Enter, ResumeWithAnswer, Interrupt, Finish, Ask, AskMessage,
     TakeAnswer, Clear, Continue, SayMessage, Deactivate, dbVars, PC, Emitting, Failing
<1>22. CASE ResumeWithoutCheckpoint(r, t) \/ Raise(r, t) \/ EndRecord(r, t, "fail", "failed", "failRow")
  BY <1>1, <1>22, FailedLog DEF ResumeWithoutCheckpoint, Raise, EndRecord, dbVars, Failing
<1>7. CASE ResumeAtCheckpoint(r, t)
  <2>1. ckpt[r].at \in {"running", "asked", "finished"}
    BY <1>7 DEF ResumeAtCheckpoint, CheckpointExists, TypeOK, Checkpoint
  <2>2. QED
    BY <1>5, <1>7, <2>1 DEF ResumeAtCheckpoint, dbVars, PC, Emitting, Failing
<1>8. CASE BootRow(r, t)
  <2>1. row'[r].status = "running" /\ row[r].status \in {"running", "queued"}
    BY <1>1, <1>8 DEF BootRow, TypeOK, Entry, RowAtStep
  <2>2. ~task[r][t].resume => log[r] = << >>
    BY <1>1, <1>8 DEF BootRow, RowAtStep, LogInvariant
  <2>3. task[r][t].resume => \A u \in Threads : pc'[r][u] # "started"
    BY <1>4, <1>8 DEF BootRow, PC
  <2>4. log'[r] = log[r]
    BY <1>8 DEF BootRow
  <2>5. CASE task[r][t].resume
    BY <2>1, <2>3, <2>4, <2>5, RowWritten, OpenLog DEF Terminal
  <2>6. CASE ~task[r][t].resume
    BY <2>1, <2>2, <2>4, <2>6, RowWritten, OpenLog DEF Terminal
  <2>7. QED
    BY <2>5, <2>6
\* The other writes of the row, all of a run that goes on.
<1>9. ASSUME NEW status \in Status \ {"absent", "queued"}, NEW q \in Asks,
             WriteRow(r, status, q), UNCHANGED log, ~LogEnds(r),
             NEW step \in PC \ {"started"}, Goto(r, t, step)
      PROVE  LogInvariant(r)'
  <2>1. row'[r].status = status
    BY <1>9 DEF WriteRow, TypeOK
  <2>2. \A u \in Threads : pc'[r][u] # "started"
    BY <1>4, <1>9
  <2>3. QED
    BY <1>9, <2>1, <2>2, RowWritten
<1>10. CASE AskRow(r, t)
  BY <1>1, <1>9, <1>10, OpenLog DEF AskRow, RowAtStep, MidRun, Terminal, Status, TypeOK, Checkpoint, PC,
     Emitting
<1>11. CASE ClearRow(r, t)
  BY <1>1, <1>9, <1>11, Literals, OpenLog DEF ClearRow, RowAtStep, AtQuestion, Terminal, Open, PC
<1>12. CASE EndRow(r, t, "doneRow", "completed", "doneEmit")
  BY <1>1, <1>9, <1>12, Literals, OpenLog DEF EndRow, RowAtStep, MidRun, Terminal, PC, Emitting
<1>23. CASE EndRow(r, t, "failRow", "failed", "failEmit")
  <2>1. ~LogEnds(r)
    BY <1>23 DEF EndRow, LogInvariant, Failing
  <2>2. QED
    BY <1>9, <1>23, <2>1, Literals DEF EndRow, Terminal, PC, Emitting
<1>13. CASE EndRecord(r, t, "done", "completed", "doneRow")
  BY <1>5, <1>13 DEF EndRecord, dbVars, PC, Emitting, Failing
<1>14. CASE EndEvent(r, t, "doneEmit", "run_completed", "doneOff")
  BY <1>1, <1>14, EndEventKeeps DEF EndEvent, RowAtStep, EndEvents
<1>15. CASE EndEvent(r, t, "failEmit", "run_failed", "failOff")
  BY <1>1, <1>15, EndEventKeeps DEF EndEvent, RowAtStep, EndEvents
\* Events.
<1>16. ASSUME NEW type \in EventTypes \ EndEvents, AppendEvent(r, type), UNCHANGED row,
              type = "run_started" => log[r] = << >>, pc[r][t] \in MidRun \cup AtQuestion,
              pc'[r][t] # "started", \A u \in Threads \ {t} : pc'[r][u] \in {"idle", "wait"}
       PROVE  LogInvariant(r)'
  <2>1. row[r].status \in {"running", "waiting"}
    BY <1>1, <1>16 DEF RowAtStep
  <2>2. \A u \in Threads : pc'[r][u] # "started"
    BY <1>16
  <2>3. QED
    BY <1>16, <2>1, <2>2, MidEvent
<1>17. CASE EmitStarted(r, t)
  <2>1. log[r] = << >>
    BY <1>17 DEF EmitStarted, LogInvariant
  <2>2. QED
    BY <1>4, <1>16, <1>17, <2>1 DEF EmitStarted, EventTypes, EndEvents, MidRun, PC
<1>18. CASE UseTool(r, t)
  BY <1>3, <1>16, <1>18 DEF UseTool, EventTypes, EndEvents, MidRun, threadVars
<1>19. CASE EmitAsk(r, t)
  BY <1>4, <1>16, <1>19 DEF EmitAsk, EventTypes, EndEvents, AtQuestion, PC
<1>20. CASE Say(r, t)
  <2>1. CASE AppendEvent(r, "assistant_message") /\ Goto(r, t, "sayMsg")
    BY <1>4, <1>16, <1>20, <2>1 DEF Say, EventTypes, EndEvents, MidRun, PC
  <2>2. CASE UNCHANGED log /\ Goto(r, t, "done")
    BY <1>5, <1>20, <2>2 DEF Say, PC, Failing
  <2>3. QED
    BY <1>20, <2>1, <2>2 DEF Say
<1>21. QED
  BY <1>2, <1>6, <1>7, <1>8, <1>10, <1>11, <1>12, <1>13, <1>14, <1>15, <1>17, <1>18, <1>19,
     <1>20, <1>22, <1>23 DEF Worker, Complete, Fail

LEMMA RequestKeepsLog ==
    ASSUME TypeOK, NEW r \in Runs, CreateRun(r) \/ Clarify(r) \/ Handler(r), RunInvariant(r),
           LogInvariant(r)
    PROVE  LogInvariant(r)'
<1>1. CASE CreateRun(r)
  BY <1>1, RowWritten, OpenLog DEF CreateRun, LogInvariant, Terminal
<1>2. CASE RouteInactive(r)
  <2>1. row[r].status = "waiting" /\ row'[r].status = "running"
    BY <1>2 DEF RouteInactive, WriteRow, TypeOK, RunInvariant, OneReply, Replying, Quiet
  <2>2. \A t \in Threads : pc'[r][t] # "started"
    BY <1>2 DEF RouteInactive, threadVars, RunInvariant, OneReply, Replying, Quiet, Driving
  <2>3. QED
    BY <1>2, <2>1, <2>2, RowWritten, OpenLog DEF RouteInactive, Terminal
<1>3. CASE StartRun(r) \/ Respawn(r)
  <2>1. \A t \in Threads : pc'[r][t] = pc[r][t] \/ pc'[r][t] = "boot"
    BY <1>3 DEF StartRun, Respawn, Spawn, Goto, TypeOK
  <2>2. UNCHANGED <<row, log>>
    BY <1>3 DEF StartRun, Respawn, dbVars
  <2>3. QED
    BY <2>1, <2>2, SameLog DEF Failing
<1>4. CASE Clarify(r) \/ StoreAnswer(r) \/ HandAnswer(r)
  BY <1>4, SameLog DEF Clarify, StoreAnswer, HandAnswer, dbVars, threadVars
<1>5. QED
  BY <1>1, <1>2, <1>3, <1>4 DEF Handler

LEMMA OtherLogs ==
    ASSUME TypeOK, NEW r \in Runs, NEW s \in Runs, s # r,
           \/ CreateRun(r) \/ Clarify(r) \/ Handler(r)
           \/ \E t \in Threads : Worker(r, t)
    PROVE  log'[s] = log[s] /\ ckpt'[s] = ckpt[s] /\ used'[s] = used[s]
BY DEF TypeOK, CreateRun, Clarify, Handler, StartRun, StoreAnswer, HandAnswer, RouteInactive,
   Respawn, Worker, Boot, BootRow, EmitStarted, Enter, ResumeWithAnswer, Deliver,
   ResumeAtCheckpoint, ResumeWithoutCheckpoint, UseTool, Interrupt, Finish, Raise,
   EmitConflict, Ask, AskRow, EmitAsk, AskMessage, TakeAnswer, Clear, ClearRow, Continue,
   Say, SayMessage, Complete, Fail, Deactivate, EndRecord, EndRow, EndEvent, AppendEvent,
   dbVars, auxVars

LEMMA LogStep ==
    ASSUME TypeOK, ServiceInvariant, \A r \in Runs : LogInvariant(r), [Next]_vars, NEW s \in Runs
    PROVE  LogInvariant(s)'
<1>1. RunInvariant(s) /\ LogInvariant(s)
  BY DEF ServiceInvariant
<1>2. ASSUME NEW r \in Runs, NEW t \in Threads, Worker(r, t) PROVE LogInvariant(s)'
  BY <1>1, <1>2, WorkerKeepsLog, WorkerChangesOnlyItsRun, OtherLogs, SameLog
<1>3. ASSUME NEW r \in Runs, CreateRun(r) \/ Clarify(r) \/ Handler(r) PROVE LogInvariant(s)'
  BY <1>1, <1>3, RequestKeepsLog, RequestChangesOnlyItsRun, OtherLogs, SameLog
<1>4. CASE Crash \/ Restart
  <2>1. \A t \in Threads : pc'[s][t] \in {"idle", "boot"}
    BY <1>4 DEF Crash, Restart, NoThreads
  <2>2. QED
    BY <1>1, <1>4, <2>1, SameLog DEF Crash, Restart, dbVars, Failing
<1>5. CASE UNCHANGED vars
  BY <1>1, <1>5, SameLog DEF vars, dbVars, threadVars
<1>6. QED
  BY <1>2, <1>3, <1>4, <1>5 DEF Next

LogsInvariant == \A r \in Runs : LogInvariant(r)

LEMMA InitLogs == Init => LogsInvariant
<1> SUFFICES ASSUME Init, NEW r \in Runs PROVE LogInvariant(r)
  BY DEF LogsInvariant
<1>1. log[r] = << >> /\ \A t \in Threads : pc[r][t] = "idle"
  BY DEF Init, NoThreads
<1>2. QED
  BY <1>1 DEF LogInvariant, LogEnds

LEMMA LogsTell == LogsInvariant => LogTellsOneRun /\ TerminalEventAgreesWithRow
BY DEF LogsInvariant, LogInvariant, LogTellsOneRun, TerminalEventAgreesWithRow, EndEvents

LEMMA LogsHold == ASSUME Client = "chat" PROVE Safety => []LogsInvariant
<1>1. TypeOK /\ ChatInvariant /\ LogsInvariant /\ [Next]_vars => LogsInvariant'
  BY LogStep DEF LogsInvariant, ChatInvariant
<1>2. QED
  BY <1>1, InitLogs, TypeCorrect, ChatInvariantHolds, PTL DEF Safety

(***************************************************************************)
(* The log starts once and ends once: nothing follows run_completed or     *)
(* run_failed, and no restart writes run_started again.                    *)
(***************************************************************************)
THEOREM LogsTellOneRun == ASSUME Client = "chat" PROVE Safety => []LogTellsOneRun
BY LogsTell, LogsHold, PTL

(***************************************************************************)
(* Whoever reads the terminal event finds the row in that status.          *)
(***************************************************************************)
THEOREM TerminalEventsAgree == ASSUME Client = "chat" PROVE Safety => []TerminalEventAgreesWithRow
BY LogsTell, LogsHold, PTL
-----------------------------------------------------------------------------
(* Answers and questions.  Wherever an answer is on its way, in the request, *)
(* on the queue, or in the hands of a thread, it is one to the question the  *)
(* graph waits for, if it waits: that question is what the row and the       *)
(* record show, and it does not change while the answer travels.             *)

Fits(r, answer) == ckpt[r].at = "asked" => answer = ckpt[r].ask

InHand(r, t) ==
    /\ pc[r][t] \in {"clear", "clearRow", "answer"} => Fits(r, task[r][t].answer)
    /\ pc[r][t] \in {"boot", "bootRow", "resume"} =>
         task[r][t].answer = 0 \/ Fits(r, task[r][t].answer)

RecordShows(r, t) ==
    r \in active /\ pc[r][t] \in {"askRow", "askEmit", "askMsg", "wait", "clear"} =>
        Fits(r, mem[r].ask)

QuestionInvariant(r) ==
    /\ Replying(r) \/ Starting(r) => request.answer = 0 \/ Fits(r, request.answer)
    /\ Replying(r) => Fits(r, request.answer)
    /\ Queued(r) => Fits(r, queue[r][1])
    /\ \A t \in Threads : InHand(r, t) /\ (Driving(r, t) => RecordShows(r, t))
    /\ row[r].status = "waiting" => Fits(r, row[r].ask)
    /\ \A pair \in used[r] : pair[1] = pair[2]

\* The graph does not wait: every answer fits.
LEMMA NoQuestion ==
    ASSUME NEW r \in Runs, ckpt'[r].at # "asked", \A pair \in used'[r] : pair[1] = pair[2]
    PROVE  QuestionInvariant(r)'
BY DEF QuestionInvariant, Fits, InHand, RecordShows

LEMMA SameQuestion ==
    ASSUME NEW s \in Runs, QuestionInvariant(s), pc'[s] = pc[s], task'[s] = task[s],
           row'[s] = row[s], mem'[s] = mem[s], queue'[s] = queue[s], ckpt'[s] = ckpt[s],
           used'[s] = used[s], s \in active' <=> s \in active,
           request' = request \/ ElsewhereOrNone(request', s)
    PROVE  QuestionInvariant(s)'
BY DEF QuestionInvariant, Fits, InHand, RecordShows, Driving, Queued, Replying, Starting,
   ElsewhereOrNone

\* After a step of the driver no answer is on its way to it.
LEMMA DriverStep ==
    ASSUME TypeOK, NEW r \in Runs, NEW t \in Threads, RunInvariant(r), QuestionInvariant(r),
           Worker(r, t)
    PROVE  /\ ~Starting(r)' /\ ~Replying(r)' /\ ~Queued(r)'
           /\ \A u \in Threads \ {t} : pc'[r][u] \in {"idle", "wait"} /\ ~Driving(r, u)'
<1>1. Driving(r, t) /\ \A u \in Threads \ {t} : ~Driving(r, u)
  BY WorkerDrives DEF RunInvariant, AloneInRun
<1>2. /\ UNCHANGED request /\ \A u \in Threads \ {t} : pc'[r][u] = pc[r][u]
      /\ \A u \in Threads \ {t} : task'[r][u] = task[r][u]
  BY DEF TypeOK, Goto, Worker, Boot, BootRow, EmitStarted, Enter, ResumeWithAnswer,
     ResumeAtCheckpoint, ResumeWithoutCheckpoint, UseTool, Interrupt, Finish, Raise,
     EmitConflict, Ask, AskRow, EmitAsk, AskMessage, TakeAnswer, Clear, ClearRow, Continue,
     Say, SayMessage, Complete, Fail, Deactivate, EndRecord, EndRow, EndEvent, threadVars
<1>3. \A u \in Threads \ {t} : pc'[r][u] \in {"idle", "wait"} /\ ~Driving(r, u)'
  BY <1>1, <1>2 DEF Driving
<1>4. CASE TakeAnswer(r, t)
  <2>1. Len(queue[r]) = 1 /\ ~Replying(r) /\ queue'[r] = Tail(queue[r]) /\ queue[r] \in Seq(Asks)
    BY <1>4 DEF TakeAnswer, RunInvariant, OneReply, Queued, TypeOK
  <2>2. queue'[r] = << >>
    <3>1. Tail(queue[r]) \in Seq(Asks) /\ Len(Tail(queue[r])) = 0
      BY <1>4, <2>1, HeadTailProperties DEF TakeAnswer
    <3>2. QED
      BY <2>1, <3>1, EmptySeq
  <2>3. QED
    BY <1>1, <1>2, <1>3, <2>1, <2>2 DEF RunInvariant, AloneInRun, Starting, Replying, Queued
<1>5. CASE ~TakeAnswer(r, t)
  <2>1. pc[r][t] # "wait"
    BY <1>5 DEF Worker, Boot, BootRow, EmitStarted, Enter, ResumeWithAnswer,
       ResumeAtCheckpoint, ResumeWithoutCheckpoint, UseTool, Interrupt, Finish, Raise,
       EmitConflict, Ask, AskRow, EmitAsk, AskMessage, Clear, ClearRow, Continue,
       Say, SayMessage, Complete, Fail, Deactivate, EndRecord, EndRow, EndEvent, Emitting
  <2>2. ~Starting(r) /\ ~Replying(r) /\ ~Queued(r)
    BY <1>1, <2>1, OnlyDriver
  <2>3. queue'[r] = << >>
    BY <1>5, <2>2 DEF Queued, TypeOK, Worker, Boot, BootRow, EmitStarted, Enter,
       ResumeWithAnswer, ResumeAtCheckpoint, ResumeWithoutCheckpoint, UseTool, Interrupt, Finish,
       Raise, EmitConflict, Ask, AskRow, EmitAsk, AskMessage, Clear, ClearRow, Continue,
       Say, SayMessage, Complete, Fail, Deactivate, EndRecord, EndRow, EndEvent, recordVars
  <2>4. QED
    BY <1>2, <1>3, <2>2, <2>3 DEF Starting, Replying, Queued
<1>6. QED
  BY <1>4, <1>5

LEMMA AnswerDelivered ==
    ASSUME TypeOK, NEW r \in Runs, QuestionInvariant(r), NEW a \in Asks, Deliver(r, a), Fits(r, a)
    PROVE  QuestionInvariant(r)'
<1>1. ckpt'[r].at = "running" /\ a = ckpt[r].ask
  BY DEF Deliver, Fits, TypeOK, Checkpoint
<1>2. used'[r] = used[r] \cup {<<ckpt[r].ask, a>>}
  BY DEF Deliver, TypeOK
<1>3. QED
  BY <1>1, <1>2, NoQuestion DEF QuestionInvariant

LEMMA WorkerKeepsQuestion ==
    ASSUME TypeOK, NEW r \in Runs, NEW t \in Threads, Worker(r, t), RunInvariant(r),
           QuestionInvariant(r)
    PROVE  QuestionInvariant(r)'
<1>1. Driving(r, t) /\ RowAtStep(r, t) /\ InHand(r, t) /\ RecordShows(r, t)
  BY WorkerDrives DEF RunInvariant, QuestionInvariant
\* What is left to show of a step.
<1>2. ASSUME used'[r] = used[r], InHand(r, t)', RecordShows(r, t)',
             (row[r].status = "waiting" => Fits(r, row[r].ask))'
      PROVE  QuestionInvariant(r)'
  <2>1. \A u \in Threads : InHand(r, u)' /\ (Driving(r, u)' => RecordShows(r, u)')
    BY <1>2, DriverStep DEF InHand
  <2>2. QED
    BY <1>2, <2>1, DriverStep DEF QuestionInvariant
\* Steps to where no answer is in the thread's hands and no question shown.
<1>3. ASSUME NEW step \in PC \ {"clear", "clearRow", "answer", "boot", "bootRow", "resume",
                                "askRow", "askEmit", "askMsg", "wait"},
             Goto(r, t, step), used'[r] = used[r],
             (row[r].status = "waiting" => Fits(r, row[r].ask))'
      PROVE  QuestionInvariant(r)'
  <2>1. pc'[r][t] = step
    BY <1>3 DEF Goto, TypeOK
  <2>2. QED
    BY <1>2, <1>3, <2>1 DEF InHand, RecordShows
<1>4. ASSUME UNCHANGED <<row, ckpt>> PROVE (row[r].status = "waiting" => Fits(r, row[r].ask))'
  BY <1>4 DEF QuestionInvariant, Fits
<1>5. CASE Boot(r, t)
  <2>1. pc'[r][t] = "bootRow" /\ task'[r][t].answer = task[r][t].answer
    BY <1>5 DEF Boot, Goto, TypeOK, Task
  <2>2. QED
    BY <1>1, <1>2, <1>4, <1>5, <2>1 DEF Boot, InHand, RecordShows, Fits, dbVars, auxVars
<1>6. CASE BootRow(r, t)
  <2>1. pc'[r][t] \in {"resume", "started"} /\ row'[r].status = "running"
        /\ UNCHANGED <<task, ckpt, used>>
    BY <1>6 DEF BootRow, Goto, TypeOK, Entry, auxVars
  <2>2. QED
    BY <1>1, <1>2, <1>6, <2>1 DEF BootRow, InHand, RecordShows, Fits
<1>7. CASE EmitStarted(r, t) \/ ResumeWithoutCheckpoint(r, t) \/ Raise(r, t) \/ SayMessage(r, t)
  BY <1>3, <1>4, <1>7 DEF EmitStarted, ResumeWithoutCheckpoint, Raise, SayMessage, dbVars,
     auxVars, PC, Emitting
<1>8. CASE Enter(r, t) \/ Finish(r, t)
  <2>1. ckpt'[r].at # "asked" /\ used' = used
    BY <1>8 DEF Enter, Finish, TypeOK, Checkpoint, auxVars
  <2>2. QED
    BY <2>1, NoQuestion DEF QuestionInvariant
<1>9. CASE ResumeWithAnswer(r, t) \/ Continue(r, t)
  <2>1. task[r][t].answer \in Asks /\ Deliver(r, task[r][t].answer)
    BY <1>9 DEF TypeOK, Task, ResumeWithAnswer, Continue
  <2>2. Fits(r, task[r][t].answer)
    BY <1>1, <1>9 DEF InHand, ResumeWithAnswer, Continue
  <2>3. QED
    BY <2>1, <2>2, AnswerDelivered
<1>10. CASE ResumeAtCheckpoint(r, t)
  <2>1. ckpt[r].at \in {"running", "asked", "finished"}
    BY <1>10 DEF ResumeAtCheckpoint, CheckpointExists, TypeOK, Checkpoint
  <2>2. QED
    BY <1>3, <1>4, <1>10, <2>1 DEF ResumeAtCheckpoint, dbVars, auxVars, PC, Emitting
<1>11. CASE UseTool(r, t)
  BY <1>1, <1>2, <1>4, <1>11 DEF UseTool, InHand, RecordShows, Fits, recordVars, threadVars, auxVars
<1>12. CASE Interrupt(r, t)
  <2>1. row[r].status = "running"
    BY <1>1, <1>12 DEF Interrupt, RowAtStep, MidRun
  <2>2. QED
    BY <1>3, <1>12, <2>1 DEF Interrupt, dbVars, auxVars, PC
<1>13. CASE EmitConflict(r, t)
  BY <1>13, NoConflict
<1>14. CASE Ask(r, t)
  <2>1. r \in active => mem'[r].ask = ckpt[r].ask
    BY <1>14 DEF Ask, WriteRecord, TypeOK
  <2>2. pc'[r][t] = "askRow" /\ UNCHANGED <<row, ckpt, used, active>>
    BY <1>14 DEF Ask, Goto, TypeOK, dbVars
  <2>3. QED
    BY <1>2, <1>4, <2>1, <2>2 DEF InHand, RecordShows, Fits
<1>15. CASE AskRow(r, t)
  <2>1. row'[r].ask = ckpt[r].ask
    BY <1>15 DEF AskRow, WriteRow, TypeOK
  <2>2. pc'[r][t] = "askEmit" /\ pc[r][t] = "askRow" /\ UNCHANGED <<mem, ckpt, used, active>>
    BY <1>15 DEF AskRow, Goto, TypeOK, recordVars, auxVars
  <2>3. QED
    BY <1>1, <1>2, <2>1, <2>2 DEF InHand, RecordShows, Fits
<1>16. CASE EmitAsk(r, t) \/ AskMessage(r, t)
  <2>1. /\ pc[r][t] \in {"askEmit", "askMsg"} /\ pc'[r][t] \in {"askMsg", "wait"}
        /\ UNCHANGED <<row, mem, ckpt, used, active>>
    BY <1>16 DEF EmitAsk, AskMessage, Goto, TypeOK, recordVars, auxVars
  <2>2. QED
    BY <1>1, <1>2, <1>4, <2>1 DEF InHand, RecordShows, Fits
<1>17. CASE TakeAnswer(r, t)
  <2>1. /\ pc[r][t] = "wait" /\ pc'[r][t] = "clear"
        /\ UNCHANGED <<row, mem, ckpt, used, active>>
    BY <1>17 DEF TakeAnswer, Goto, TypeOK, dbVars, auxVars
  <2>2. task'[r][t].answer = Head(queue[r]) /\ queue[r] # << >> /\ queue[r] \in Seq(Asks)
    BY <1>17 DEF TakeAnswer, TypeOK, Task
  <2>3. Fits(r, Head(queue[r]))
    BY <2>2 DEF QuestionInvariant, Queued
  <2>4. QED
    BY <1>1, <1>2, <1>4, <2>1, <2>2, <2>3 DEF InHand, RecordShows, Fits
<1>18. CASE Clear(r, t)
  <2>1. /\ pc[r][t] = "clear" /\ pc'[r][t] = "clearRow" /\ UNCHANGED <<row, ckpt, used, task>>
    BY <1>18 DEF Clear, Goto, TypeOK, dbVars, auxVars
  <2>2. QED
    BY <1>1, <1>2, <1>4, <2>1 DEF InHand, RecordShows, Fits
<1>19. CASE ClearRow(r, t)
  <2>1. /\ pc[r][t] = "clearRow" /\ pc'[r][t] = "answer" /\ row'[r].status = "running"
        /\ UNCHANGED <<ckpt, used, task>>
    BY <1>19 DEF ClearRow, WriteRow, Goto, TypeOK, auxVars
  <2>2. QED
    BY <1>1, <1>2, <2>1 DEF InHand, RecordShows, Fits
<1>20. CASE Say(r, t)
  <2>1. UNCHANGED <<row, ckpt, used>> /\ (Goto(r, t, "sayMsg") \/ Goto(r, t, "done"))
    BY <1>20 DEF Say, auxVars
  <2>2. QED
    BY <1>3, <1>4, <2>1 DEF PC
<1>21. CASE EndRow(r, t, "doneRow", "completed", "doneEmit")
            \/ EndRow(r, t, "failRow", "failed", "failEmit")
  <2>1. row'[r].status # "waiting"
    BY <1>21 DEF EndRow, WriteRow, TypeOK
  <2>2. QED
    BY <1>3, <1>21, <2>1 DEF EndRow, auxVars, PC, Emitting
<1>22. CASE EndRecord(r, t, "done", "completed", "doneRow")
            \/ EndRecord(r, t, "fail", "failed", "failRow")
            \/ EndEvent(r, t, "doneEmit", "run_completed", "doneOff")
            \/ EndEvent(r, t, "failEmit", "run_failed", "failOff")
            \/ Deactivate(r, t)
  BY <1>3, <1>4, <1>22 DEF EndRecord, EndEvent, Deactivate, dbVars, auxVars, PC, Emitting
<1>23. QED
  BY <1>5, <1>6, <1>7, <1>8, <1>9, <1>10, <1>11, <1>12, <1>13, <1>14, <1>15, <1>16, <1>17,
     <1>18, <1>19, <1>20, <1>21, <1>22 DEF Worker, Complete, Fail

LEMMA SpawnHands ==
    ASSUME TypeOK, NEW r \in Runs, NEW b \in BOOLEAN, NEW a \in Asks, Spawn(r, b, a),
           RunInvariant(r), QuestionInvariant(r), Starting(r), a = 0 \/ Fits(r, a),
           UNCHANGED <<row, ckpt, used>>, request' = NoRequest, ~Queued(r)'
    PROVE  QuestionInvariant(r)'
<1> DEFINE fresh == [resume |-> b, answer |-> a, own |-> FALSE]
<1>0. PICK t \in Threads : Goto(r, t, "boot") /\ task' = [task EXCEPT ![r][t] = fresh]
  BY DEF Spawn
<1>a. fresh.answer = a
  OBVIOUS
<1> HIDE DEF fresh
<1>1. /\ pc'[r][t] = "boot" /\ task'[r][t] = fresh
      /\ \A u \in Threads \ {t} : pc'[r][u] = pc[r][u] /\ task'[r][u] = task[r][u]
  BY <1>0 DEF Goto, TypeOK
<1>2. \A u \in Threads \ {t} : pc'[r][u] \in {"idle", "wait"} /\ ~Driving(r, u)'
  BY <1>1 DEF Driving, RunInvariant, AloneInRun
<1>3. InHand(r, t)' /\ RecordShows(r, t)'
  BY <1>1, <1>a DEF InHand, RecordShows, Fits
<1>4. \A u \in Threads : InHand(r, u)' /\ (Driving(r, u)' => RecordShows(r, u)')
  BY <1>2, <1>3 DEF InHand
<1>5. QED
  BY <1>4 DEF QuestionInvariant, Fits, Replying, Starting, NoRequest

LEMMA RequestKeepsQuestion ==
    ASSUME TypeOK, NEW r \in Runs, CreateRun(r) \/ Clarify(r) \/ Handler(r), RunInvariant(r),
           QuestionInvariant(r), Client = "chat"
    PROVE  QuestionInvariant(r)'
<1>1. ASSUME UNCHANGED <<pc, task, mem, active, ckpt, used>>,
             (Replying(r) \/ Starting(r) => request.answer = 0 \/ Fits(r, request.answer))',
             (Replying(r) => Fits(r, request.answer))',
             (Queued(r) => Fits(r, queue[r][1]))',
             (row[r].status = "waiting" => Fits(r, row[r].ask))'
      PROVE  QuestionInvariant(r)'
  BY <1>1 DEF QuestionInvariant, InHand, RecordShows, Driving, Fits
<1>2. CASE CreateRun(r)
  <2>1. /\ row'[r].status = "queued" /\ request'.pc = "spawn" /\ request'.answer = 0
        /\ UNCHANGED <<pc, task, mem, active, queue, ckpt, used>>
    BY <1>2 DEF CreateRun, WriteRow, NoRequest, TypeOK, recordVars, threadVars, auxVars
  <2>2. QED
    BY <1>1, <2>1 DEF QuestionInvariant, Replying, Queued, Fits
<1>3. CASE Clarify(r)
  <2>1. /\ request'.answer = View(r).ask /\ request'.pc = "store" /\ View(r).status = "waiting"
        /\ UNCHANGED <<row, pc, task, mem, active, queue, ckpt, used>>
    BY <1>3 DEF Clarify, dbVars, recordVars, threadVars
  <2>2. Unanswered(r) /\ Quiet(r)
    BY <1>3 DEF Clarify, MayReply, Unanswered, RunInvariant, OneReply, TypeOK
  <2>3. Fits(r, View(r).ask)
    <3>1. CASE r \notin active
      BY <2>2, <3>1 DEF View, Quiet, QuestionInvariant
    <3>2. CASE r \in active
      <4>1. PICK t \in Threads : Driving(r, t) /\ pc[r][t] = "wait"
        BY <2>2, <3>2 DEF Quiet
      <4>2. QED
        BY <3>2, <4>1 DEF View, QuestionInvariant, RecordShows
    <3>3. QED
      BY <3>1, <3>2
  <2>4. QED
    BY <1>1, <2>1, <2>3 DEF QuestionInvariant, Replying, Starting, Queued, Fits
<1>4. CASE StoreAnswer(r)
  <2>1. /\ request'.answer = request.answer /\ Replying(r) /\ request'.pc = "route"
        /\ UNCHANGED <<row, pc, task, mem, active, queue, ckpt, used>>
    BY <1>4 DEF StoreAnswer, Replying, TypeOK, Request, recordVars, threadVars, auxVars
  <2>2. QED
    BY <1>1, <2>1 DEF QuestionInvariant, Queued, Fits
<1>5. CASE HandAnswer(r)
  <2>1. /\ Replying(r) /\ request' = NoRequest
        /\ UNCHANGED <<row, pc, task, mem, active, ckpt, used>>
    BY <1>5 DEF HandAnswer, Replying, dbVars, threadVars, auxVars
  <2>2. queue[r] = << >> /\ queue'[r] = Append(queue[r], request.answer)
    BY <1>5, <2>1 DEF HandAnswer, RunInvariant, OneReply, Queued, TypeOK
  <2>3. queue'[r][1] = request.answer
    BY <2>2
  <2>4. QED
    BY <1>1, <2>1, <2>3 DEF QuestionInvariant, Replying, Starting, Fits, NoRequest
<1>6. CASE RouteInactive(r)
  <2>1. /\ request'.answer = request.answer /\ Replying(r) /\ request'.pc = "respawn"
        /\ row'[r].status = "running"
        /\ UNCHANGED <<pc, task, mem, active, queue, ckpt, used>>
    BY <1>6 DEF RouteInactive, WriteRow, Replying, TypeOK, Request, recordVars, threadVars, auxVars
  <2>2. QED
    BY <1>1, <2>1 DEF QuestionInvariant, Replying, Queued, Fits
<1>7. CASE StartRun(r)
  <2>1. Starting(r) /\ UNCHANGED <<row, ckpt, used>> /\ request' = NoRequest
        /\ queue'[r] = << >>
    BY <1>7 DEF StartRun, Starting, TypeOK, dbVars, auxVars
  <2>2. QED
    BY <1>7, <2>1, SpawnHands, Literals DEF StartRun, Queued
<1>8. CASE Respawn(r)
  <2>1. Starting(r) /\ UNCHANGED <<row, ckpt, used, queue>> /\ request' = NoRequest
        /\ request.answer \in Asks
    BY <1>8 DEF Respawn, Starting, TypeOK, Request, dbVars, recordVars, auxVars
  <2>2. ~Queued(r)'
    BY <2>1 DEF RunInvariant, AloneInRun, OneReply, Quiet, StartingRow, Starting, Queued
  <2>3. request.answer = 0 \/ Fits(r, request.answer)
    BY <2>1 DEF QuestionInvariant
  <2>4. QED
    BY <1>8, <2>1, <2>2, <2>3, SpawnHands DEF Respawn
<1>9. QED
  BY <1>2, <1>3, <1>4, <1>5, <1>6, <1>7, <1>8 DEF Handler

LEMMA ProcessKeepsQuestion ==
    ASSUME TypeOK, DownIsEmpty, NEW s \in Runs, RunInvariant(s), QuestionInvariant(s),
           Crash \/ Restart
    PROVE  QuestionInvariant(s)'
<1>1. CASE Crash
  <2>1. /\ \A t \in Threads : pc'[s][t] = "idle"
        /\ active' = {} /\ queue'[s] = << >> /\ request' = NoRequest
        /\ UNCHANGED <<row, used>> /\ (ckpt'[s] = ckpt[s] \/ ckpt'[s].at = "none")
    BY <1>1 DEF Crash, NoThreads, dbVars
  <2>2. QED
    BY <2>1 DEF QuestionInvariant, InHand, RecordShows, Fits, Queued, Replying, Starting, NoRequest
<1>2. CASE Restart
  <2>1. /\ active' = {} /\ queue'[s] = << >> /\ request' = NoRequest
        /\ UNCHANGED <<row, used, ckpt>>
    BY <1>2 DEF Restart, DownIsEmpty, dbVars, recordVars, auxVars
  <2>2. \A t \in Threads : pc'[s][t] \in {"idle", "boot"} /\ task'[s][t].answer = 0
    BY <1>2 DEF Restart, NoTask
  <2>3. QED
    BY <2>1, <2>2 DEF QuestionInvariant, InHand, RecordShows, Fits, Queued, Replying, Starting,
       NoRequest
<1>3. QED
  BY <1>1, <1>2

QuestionsInvariant == \A r \in Runs : QuestionInvariant(r)

LEMMA InitQuestions == Init => QuestionsInvariant
<1> SUFFICES ASSUME Init, NEW r \in Runs PROVE QuestionInvariant(r)
  BY DEF QuestionsInvariant
<1>1. ckpt[r].at = "none" /\ used[r] = {}
  BY DEF Init
<1>2. QED
  BY <1>1 DEF QuestionInvariant, Fits, InHand, RecordShows

LEMMA QuestionStep ==
    ASSUME TypeOK, ServiceInvariant, QuestionsInvariant, [Next]_vars, NEW s \in Runs,
           Client = "chat"
    PROVE  QuestionInvariant(s)'
<1>1. RunInvariant(s) /\ QuestionInvariant(s) /\ DownIsEmpty
  BY DEF ServiceInvariant, QuestionsInvariant
<1>2. ASSUME NEW r \in Runs, NEW t \in Threads, Worker(r, t) PROVE QuestionInvariant(s)'
  BY <1>1, <1>2, WorkerKeepsQuestion, WorkerChangesOnlyItsRun, OtherLogs, SameQuestion
<1>3. ASSUME NEW r \in Runs, CreateRun(r) \/ Clarify(r) \/ Handler(r)
      PROVE  QuestionInvariant(s)'
  BY <1>1, <1>3, RequestKeepsQuestion, RequestIsElsewhere, RequestChangesOnlyItsRun, OtherLogs,
     SameQuestion
<1>4. CASE Crash \/ Restart
  BY <1>1, <1>4, ProcessKeepsQuestion
<1>5. CASE UNCHANGED vars
  BY <1>1, <1>5, SameQuestion DEF vars, dbVars, recordVars, threadVars, auxVars
<1>6. QED
  BY <1>2, <1>3, <1>4, <1>5 DEF Next

LEMMA QuestionsMatch == QuestionsInvariant => AnswersMatch
BY DEF QuestionsInvariant, QuestionInvariant, AnswersMatch

(***************************************************************************)
(* The graph is never resumed with the answer to another question.         *)
(***************************************************************************)
THEOREM AnswersMeetTheirQuestions == ASSUME Client = "chat" PROVE Safety => []AnswersMatch
<1>1. TypeOK /\ ChatInvariant /\ QuestionsInvariant /\ [Next]_vars => QuestionsInvariant'
  BY QuestionStep DEF QuestionsInvariant, ChatInvariant
<1>2. QED
  BY <1>1, InitQuestions, QuestionsMatch, TypeCorrect, ChatInvariantHolds, PTL DEF Safety

-----------------------------------------------------------------------------
(***************************************************************************)
(* StorageFaults, for any number of transactions that fail, every set of   *)
(* runs, all clients and both checkpointers: only a run whose fail raised  *)
(* is left open, and the record and the row of a run agree once its        *)
(* threads have come to rest; and, for users who reply once to each        *)
(* question, a run has one driver, what has ended stays ended, and the log *)
(* and the answers are in order.                                           *)
(***************************************************************************)
LEMMA FaultTypeOK == ASSUME TypeOK, Fault PROVE TypeOK'
<1>1. ASSUME NEW r \in Runs, HandlerRaises(r) PROVE TypeOK'
  <2>1. request' \in Request
    BY <1>1, Literals DEF HandlerRaises, NoRequest, Request
  <2>2. replied' \in [Runs -> Nat]
    BY <1>1 DEF HandlerRaises, TypeOK
  <2>3. QED
    BY <1>1, <2>1, <2>2 DEF HandlerRaises, TypeOK, dbVars, recordVars, threadVars
<1>2. ASSUME NEW r \in Runs, NEW t \in Threads, NEW step \in PC, Goto(r, t, step),
             UNCHANGED <<dbVars, ckpt, recordVars, task, request, up, auxVars>>
      PROVE  TypeOK'
  BY <1>2, GotoType DEF TypeOK, dbVars, recordVars, auxVars
<1>3. ASSUME NEW r \in Runs, NEW t \in Threads, ThreadRaises(r, t) \/ FailRaises(r, t)
      PROVE  TypeOK'
  BY <1>2, <1>3 DEF ThreadRaises, FailRaises, PC
<1>4. QED
  BY <1>1, <1>3 DEF Fault

LEMMA NextTypeOK == ASSUME TypeOK, Next PROVE TypeOK'
BY WorkerTypeOK, RequestTypeOK, ProcessTypeOK DEF Next

(***************************************************************************)
(* Type correctness, with any number of failed transactions.               *)
(***************************************************************************)
THEOREM FaultsTypeCorrect == FaultsSafety => []TypeOK
<1>1. TypeOK /\ [NoFault \/ Fault]_faultVars => TypeOK'
  <2>1. ASSUME TypeOK, UNCHANGED faultVars PROVE TypeOK'
    BY <2>1 DEF TypeOK, faultVars, vars, dbVars, recordVars, threadVars, auxVars
  <2>2. QED
    BY <2>1, FaultTypeOK, NextTypeOK DEF NoFault
<1>2. QED
  BY <1>1, InitTypeOK, PTL DEF FaultsSafety, FaultsInit
-----------------------------------------------------------------------------
(* An open run is owed a write, or lost.  An exception sends the thread to   *)
(* fail, which writes the row; one inside fail makes the run lost.           *)

OwedOrLost(r) == r \in lost \/ Owed(r)

LEMMA NextKeepsOwed == ASSUME TypeOK, Next, NEW s \in Runs, Owed(s) PROVE Owed(s)'
<1>1. ASSUME NEW r \in Runs, NEW t \in Threads, Worker(r, t) PROVE Owed(s)'
  BY <1>1, WorkerKeepsOwed, OtherRunsKeepOwed
<1>2. ASSUME NEW r \in Runs, CreateRun(r) \/ Clarify(r) \/ Handler(r) PROVE Owed(s)'
  BY <1>2, RequestKeepsOwed
<1>3. CASE Crash
  BY <1>3 DEF Crash, Owed
<1>4. CASE Restart
  BY <1>4, RestartOwes
<1>5. QED
  BY <1>1, <1>2, <1>3, <1>4 DEF Next

LEMMA FaultKeepsOwed ==
    ASSUME TypeOK, Fault, NEW s \in Runs, OwedOrLost(s) PROVE OwedOrLost(s)'
<1>1. ASSUME NEW r \in Runs, HandlerRaises(r) PROVE OwedOrLost(s)'
  BY <1>1 DEF HandlerRaises, OwedOrLost, Owed, Starting, NoRequest, dbVars, threadVars
<1>2. ASSUME NEW r \in Runs, NEW t \in Threads, ThreadRaises(r, t) PROVE OwedOrLost(s)'
  <2>1. /\ Goto(r, t, "fail") /\ "fail" \in Owing
        /\ UNCHANGED <<row, request, up, lost>>
    BY <1>2 DEF ThreadRaises, dbVars, Owing, PC
  <2>2. pc'[r][t] \in Owing
    BY <2>1, GotoOwing
  <2>3. s # r => pc'[s] = pc[s]
    BY <2>1 DEF Goto, TypeOK
  <2>4. QED
    BY <2>1, <2>2, <2>3 DEF OwedOrLost, Owed, Starting
<1>3. ASSUME NEW r \in Runs, NEW t \in Threads, FailRaises(r, t) PROVE OwedOrLost(s)'
  <2>1. /\ s # r => pc'[s] = pc[s]
        /\ lost' = lost \cup {r} /\ UNCHANGED <<row, request, up>>
    BY <1>3 DEF FailRaises, Goto, TypeOK, dbVars
  <2>2. QED
    BY <2>1 DEF OwedOrLost, Owed, Starting
<1>4. QED
  BY <1>1, <1>2, <1>3 DEF Fault

(***************************************************************************)
(* A queued or running run has somebody to end it, unless its fail raised  *)
(* in this process lifetime.                                               *)
(***************************************************************************)
THEOREM OpenRunsAreDrivenOrLost == FaultsSafety => []OpenRunIsDrivenOrLost
<1> DEFINE Inv == \A s \in Runs : OwedOrLost(s)
<1>1. FaultsInit => Inv
  BY DEF FaultsInit, Init, NoEntry, Open, OwedOrLost, Owed
<1>2. TypeOK /\ Inv /\ [NoFault \/ Fault]_faultVars => Inv'
  <2> SUFFICES ASSUME TypeOK, Inv, [NoFault \/ Fault]_faultVars, NEW s \in Runs
               PROVE  OwedOrLost(s)'
    OBVIOUS
  <2>1. CASE NoFault
    BY <2>1, NextKeepsOwed DEF NoFault, OwedOrLost, Owed
  <2>2. CASE Fault
    BY <2>2, FaultKeepsOwed
  <2>3. CASE UNCHANGED faultVars
    BY <2>3 DEF faultVars, vars, dbVars, threadVars, OwedOrLost, Owed, Starting
  <2>4. QED
    BY <2>1, <2>2, <2>3
<1>3. Inv => OpenRunIsDrivenOrLost
  BY DEF OwedOrLost, Owed, OpenRunIsDrivenOrLost, Driving, Owing
<1>4. QED
  BY <1>1, <1>2, <1>3, FaultsTypeCorrect, PTL DEF FaultsSafety
-----------------------------------------------------------------------------
(* The record and the row of a run. *)

\* A thread that has not ended, of a run that is active or not.
LEMMA BusyRun ==
    ASSUME NEW r \in Runs, NEW t \in Threads, RecordInvariant(r), pc[r][t] # "idle"
    PROVE  /\ row[r].status # "absent"
           /\ ~(request.run = r /\ request.pc = "spawn")
BY DEF RecordInvariant, NoThreadOf

LEMMA InactiveStep ==
    ASSUME NEW r \in Runs, r \notin active', row'[r].status # "absent",
           ~(request.run = r /\ request.pc = "spawn")', RecordInvariant(r)
    PROVE  RecordInvariant(r)'
BY DEF RecordInvariant

\* The one thread of an active run goes to another step.
LEMMA ActiveStep ==
    ASSUME TypeOK, NEW r \in Runs, NEW t \in Threads, RecordInvariant(r), r \in active,
           pc[r][t] # "idle", NEW step \in PC \ {"idle"}, Goto(r, t, step),
           UNCHANGED <<request, active>>, row'[r].status # "absent",
           pc'[r][t] = step => StatusesAtStep(r, t)'
    PROVE  RecordInvariant(r)'
<1>1. pc'[r][t] = step /\ \A u \in Threads \ {t} : pc'[r][u] = pc[r][u]
  BY DEF TypeOK, Goto
<1>2. \A u \in Threads \ {t} : pc'[r][u] = "idle"
  BY <1>1 DEF RecordInvariant
<1>3. \A u \in Threads : StatusesAtStep(r, u)'
  BY <1>1, <1>2 DEF StatusesAtStep
<1>4. ~Starting(r)' /\ ~(request.run = r /\ request.pc = "spawn")'
  BY BusyRun DEF RecordInvariant, Starting
<1>5. ~NoThreadOf(r)'
  BY <1>1 DEF NoThreadOf
<1>6. QED
  BY <1>1, <1>2, <1>3, <1>4, <1>5 DEF RecordInvariant

LEMMA WorkerKeepsRecord ==
    ASSUME TypeOK, TypeOK', NEW r \in Runs, NEW t \in Threads, Worker(r, t), RecordInvariant(r)
    PROVE  RecordInvariant(r)'
<1>1. pc[r][t] # "idle" /\ row[r].status # "absent"
      /\ ~(request.run = r /\ request.pc = "spawn") /\ row'[r].status # "absent"
  BY WorkerDrives, BusyRun, RowStaysPresent DEF Driving
<1>2. UNCHANGED request
  BY DEF Worker, Boot, BootRow, EmitStarted, Enter, ResumeWithAnswer,
     ResumeAtCheckpoint, ResumeWithoutCheckpoint, UseTool, Interrupt, Finish, Raise,
     EmitConflict, Ask, AskRow, EmitAsk, AskMessage, TakeAnswer, Clear, ClearRow, Continue,
     Say, SayMessage, Complete, Fail, Deactivate, EndRecord, EndRow, EndEvent
<1>3. CASE r \notin active'
  BY <1>1, <1>2, <1>3, InactiveStep
<1>4. CASE r \in active'
  <2>1. r \in active /\ UNCHANGED active /\ ~Deactivate(r, t)
    BY <1>4 DEF Worker, Boot, BootRow, EmitStarted, Enter, ResumeWithAnswer,
       ResumeAtCheckpoint, ResumeWithoutCheckpoint, UseTool, Interrupt, Finish, Raise,
       EmitConflict, Ask, AskRow, EmitAsk, AskMessage, TakeAnswer, Clear, ClearRow, Continue,
       Say, SayMessage, Complete, Fail, Deactivate, EndRecord, EndRow, EndEvent, recordVars
  <2>2. StatusesAtStep(r, t)
    BY <2>1 DEF RecordInvariant
  <2>3. ASSUME NEW step \in PC \ {"idle"}, Goto(r, t, step),
               pc'[r][t] = step => StatusesAtStep(r, t)'
        PROVE  RecordInvariant(r)'
    BY <1>1, <1>2, <2>1, <2>3, ActiveStep
  <2>4. ASSUME NEW status \in Status, NEW q \in Asks, WriteRecord(r, status, q)
        PROVE  mem'[r].status = status
    BY <2>1, <2>4 DEF WriteRecord, TypeOK
  <2>5. ASSUME NEW status \in Status, NEW q \in Asks, WriteRow(r, status, q)
        PROVE  row'[r].status = status
    BY <2>5 DEF WriteRow, TypeOK
  \* Steps of the graph: neither the record nor the row changes.
  <2>6. ASSUME UNCHANGED <<mem, row>>, pc[r][t] \in {"started", "enter", "resume", "graph",
                   "ask", "answer", "say", "sayMsg", "done"},
               NEW step \in {"enter", "graph", "ask", "say", "sayMsg", "done", "fail"},
               Goto(r, t, step)
        PROVE  RecordInvariant(r)'
    BY <2>2, <2>3, <2>6 DEF StatusesAtStep, BothSay, RecordSays, PC, Emitting
  <2>7. CASE EmitStarted(r, t) \/ Enter(r, t) \/ ResumeWithAnswer(r, t)
             \/ ResumeWithoutCheckpoint(r, t) \/ Interrupt(r, t) \/ Finish(r, t)
             \/ Raise(r, t) \/ Continue(r, t) \/ Say(r, t) \/ SayMessage(r, t)
    BY <2>6, <2>7 DEF EmitStarted, Enter, ResumeWithAnswer, ResumeWithoutCheckpoint, Interrupt,
       Finish, Raise, Continue, Say, SayMessage, dbVars, recordVars
  <2>8. CASE ResumeAtCheckpoint(r, t)
    <3>1. ckpt[r].at \in {"running", "asked", "finished"}
      BY <2>8 DEF ResumeAtCheckpoint, CheckpointExists, TypeOK, Checkpoint
    <3>2. QED
      BY <2>6, <2>8, <3>1 DEF ResumeAtCheckpoint, dbVars, recordVars
  <2>9. CASE UseTool(r, t)
    BY <2>2, <2>9, <1>1, <1>2, <2>1 DEF UseTool, recordVars, threadVars, RecordInvariant,
       StatusesAtStep, BothSay, RecordSays, NoThreadOf, Starting
  <2>10. CASE EmitConflict(r, t)
    BY <2>1, <2>10 DEF EmitConflict
  <2>11. CASE Boot(r, t)
    <3>1. mem'[r].status = "running"
      BY <2>1, <2>11 DEF Boot, TypeOK, Entry
    <3>2. QED
      BY <2>3, <2>11, <3>1 DEF Boot, StatusesAtStep, RecordSays, PC, Emitting
  <2>12. CASE BootRow(r, t)
    <3>1. row'[r].status = "running" /\ mem'[r].status = "running"
      BY <2>2, <2>12 DEF BootRow, TypeOK, Entry, StatusesAtStep, RecordSays, recordVars
    <3>2. QED
      BY <2>3, <2>12, <3>1 DEF BootRow, StatusesAtStep, BothSay, PC, Emitting
  <2>13. CASE Ask(r, t)
    <3>1. mem'[r].status = "waiting"
      BY <2>4, <2>13 DEF Ask, TypeOK, Checkpoint, Status
    <3>2. QED
      BY <2>3, <2>13, <3>1 DEF Ask, StatusesAtStep, RecordSays, PC, Emitting
  <2>14. CASE AskRow(r, t)
    <3>1. row'[r].status = "waiting" /\ mem'[r].status = "waiting"
      BY <2>2, <2>5, <2>14 DEF AskRow, TypeOK, Checkpoint, Status, StatusesAtStep, RecordSays,
         recordVars
    <3>2. QED
      BY <2>3, <2>14, <3>1 DEF AskRow, StatusesAtStep, BothSay, PC, Emitting
  <2>15. CASE EmitAsk(r, t) \/ AskMessage(r, t) \/ TakeAnswer(r, t)
    <3>1. mem'[r].status = "waiting" /\ row'[r].status = "waiting"
      BY <2>2, <2>15 DEF EmitAsk, AskMessage, TakeAnswer, StatusesAtStep, BothSay, dbVars,
         recordVars
    <3>2. QED
      BY <2>3, <2>15, <3>1 DEF EmitAsk, AskMessage, TakeAnswer, StatusesAtStep, BothSay, PC,
         Emitting
  <2>16. CASE Clear(r, t)
    BY <2>3, <2>4, <2>16, Literals DEF Clear, StatusesAtStep, RecordSays, PC, Emitting, Open
  <2>17. CASE ClearRow(r, t)
    <3>1. row'[r].status = "running" /\ mem'[r].status = "running"
      BY <2>2, <2>5, <2>17, Literals DEF ClearRow, StatusesAtStep, RecordSays, recordVars, Open
    <3>2. QED
      BY <2>3, <2>17, <3>1 DEF ClearRow, StatusesAtStep, BothSay, PC, Emitting
  <2>18. ASSUME NEW from \in PC, NEW status \in Terminal,
                NEW step \in {"doneRow", "failRow"}, EndRecord(r, t, from, status, step),
                step = "doneRow" <=> status = "completed"
         PROVE  RecordInvariant(r)'
    <3>1. mem'[r].status = status
      BY <2>4, <2>18, Literals DEF EndRecord
    <3>2. QED
      BY <2>3, <2>18, <3>1 DEF EndRecord, StatusesAtStep, RecordSays, PC, Emitting, Terminal
  <2>19. ASSUME NEW status \in Terminal, NEW step \in {"doneEmit", "failEmit"},
                EndRow(r, t, IF status = "completed" THEN "doneRow" ELSE "failRow", status, step),
                step = "doneEmit" <=> status = "completed"
         PROVE  RecordInvariant(r)'
    <3>1. row'[r].status = status /\ mem'[r].status = status
      BY <2>2, <2>5, <2>19, Literals DEF EndRow, StatusesAtStep, RecordSays, recordVars, Terminal
    <3>2. QED
      BY <2>3, <2>19, <3>1 DEF EndRow, StatusesAtStep, BothSay, PC, Emitting, Terminal
  <2>20. CASE EndEvent(r, t, "doneEmit", "run_completed", "doneOff")
              \/ EndEvent(r, t, "failEmit", "run_failed", "failOff")
    BY <2>2, <2>3, <2>20 DEF EndEvent, StatusesAtStep, BothSay, recordVars, PC, Emitting
  <2>21. CASE Complete(r, t) \/ Fail(r, t)
    BY <2>18, <2>19, <2>20, <2>21 DEF Complete, Fail, Terminal, PC, Emitting
  <2>22. QED
    BY <2>1, <2>7, <2>8, <2>9, <2>10, <2>11, <2>12, <2>13, <2>14, <2>15, <2>16, <2>17, <2>21
    DEF Worker
<1>5. QED
  BY <1>3, <1>4

LEMMA SpawnedRecord ==
    ASSUME TypeOK, NEW r \in Runs, NEW b, NEW a, Spawn(r, b, a), NoThreadOf(r),
           request' = NoRequest, mem'[r].status = "queued", row'[r].status = "queued"
    PROVE  RecordInvariant(r)'
<1>1. PICK t \in Threads : Goto(r, t, "boot")
  BY DEF Spawn
<1>2. pc'[r][t] = "boot" /\ \A u \in Threads \ {t} : pc'[r][u] = "idle"
  BY <1>1 DEF Goto, TypeOK, NoThreadOf
<1>3. \A u \in Threads : StatusesAtStep(r, u)'
  BY <1>2 DEF StatusesAtStep, BothSay
<1>4. QED
  BY <1>2, <1>3 DEF RecordInvariant, NoThreadOf, Starting, NoRequest

LEMMA RequestKeepsRecord ==
    ASSUME TypeOK, NEW r \in Runs, CreateRun(r) \/ Clarify(r) \/ Handler(r), RecordInvariant(r),
           UNCHANGED lost
    PROVE  RecordInvariant(r)'
<1>1. CASE CreateRun(r)
  <2>1. /\ row'[r].status = "queued" /\ request'.pc = "spawn"
        /\ UNCHANGED <<pc, active>>
    BY <1>1 DEF CreateRun, WriteRow, NoRequest, TypeOK, recordVars, threadVars
  <2>2. NoThreadOf(r)' /\ r \notin active'
    BY <1>1, <2>1 DEF CreateRun, RecordInvariant, NoThreadOf
  <2>3. QED
    BY <2>1, <2>2 DEF RecordInvariant
<1>2. CASE StartRun(r)
  <2>1. NoThreadOf(r) /\ row[r].status = "queued"
    BY <1>2 DEF StartRun, RecordInvariant
  <2>2. mem'[r].status = "queued" /\ row'[r].status = "queued" /\ request' = NoRequest
    BY <1>2, <2>1 DEF StartRun, TypeOK, dbVars
  <2>3. QED
    BY <1>2, <2>1, <2>2, SpawnedRecord DEF StartRun
\* A thread that resumes serves a run that is not active.
<1>3. CASE Respawn(r)
  <2>1. r \notin active /\ row[r].status # "absent"
    BY <1>3 DEF Respawn, RecordInvariant, Starting
  <2>2. QED
    BY <1>3, <2>1, InactiveStep DEF Respawn, NoRequest, dbVars, recordVars
<1>4. CASE RouteInactive(r)
  <2>1. row'[r].status = "running" /\ request'.pc = "respawn" /\ r \notin active'
    BY <1>4 DEF RouteInactive, WriteRow, TypeOK, Request, recordVars
  <2>2. QED
    BY <2>1, InactiveStep
<1>5. CASE Clarify(r) \/ StoreAnswer(r) \/ HandAnswer(r)
  <2>1. request'.pc \in {"none", "store", "route"} /\ UNCHANGED <<row, mem, pc, active>>
    BY <1>5 DEF Clarify, StoreAnswer, HandAnswer, NoRequest, TypeOK, Request, dbVars, recordVars,
       threadVars
  <2>2. QED
    BY <2>1 DEF RecordInvariant, StatusesAtStep, BothSay, RecordSays, NoThreadOf, Starting
<1>6. QED
  BY <1>1, <1>2, <1>3, <1>4, <1>5 DEF Handler

\* A step that does not concern the run.
LEMMA SameRecord ==
    ASSUME NEW s \in Runs, RecordInvariant(s), pc'[s] = pc[s], row'[s] = row[s],
           mem'[s] = mem[s], s \in active' <=> s \in active, s \in lost => s \in lost',
           \/ request' = request
           \/ ElsewhereOrNone(request', s)
    PROVE  RecordInvariant(s)'
BY DEF RecordInvariant, StatusesAtStep, BothSay, RecordSays, NoThreadOf, Starting,
   ElsewhereOrNone

LEMMA FaultKeepsRecord ==
    ASSUME TypeOK, Fault, NEW s \in Runs, RecordInvariant(s)
    PROVE  RecordInvariant(s)'
<1>1. ASSUME NEW r \in Runs, HandlerRaises(r) PROVE RecordInvariant(s)'
  BY <1>1, SameRecord DEF HandlerRaises, ElsewhereOrNone, NoRequest, dbVars, recordVars, threadVars
<1>2. ASSUME NEW r \in Runs, NEW t \in Threads, ThreadRaises(r, t) \/ FailRaises(r, t)
      PROVE  RecordInvariant(s)'
  <2>1. /\ pc[r][t] # "idle"
        /\ UNCHANGED <<row, mem, active, request>> /\ lost \subseteq lost'
    BY <1>2 DEF ThreadRaises, FailRaises, UsesDatabase, Writing, Reading, dbVars, recordVars
  <2>2. CASE s # r
    <3>1. pc'[s] = pc[s]
      BY <1>2, <2>2 DEF ThreadRaises, FailRaises, Goto, TypeOK
    <3>2. QED
      BY <2>1, <3>1, SameRecord
  <2>3. CASE s = r /\ r \notin active
    BY <2>1, <2>3, BusyRun, InactiveStep
  <2>4. CASE s = r /\ r \in active /\ ThreadRaises(r, t)
    <3>1. row'[r].status # "absent"
      BY <2>1, <2>4, BusyRun
    <3>2. QED
      BY <2>1, <2>4, <3>1, ActiveStep DEF ThreadRaises, StatusesAtStep, PC
  <2>5. CASE s = r /\ r \in active /\ FailRaises(r, t)
    <3>1. \A u \in Threads : pc'[r][u] = "idle"
      BY <2>1, <2>5 DEF FailRaises, Goto, TypeOK, RecordInvariant
    <3>2. r \in lost' /\ ~Starting(r)' /\ row'[r].status # "absent"
          /\ ~(request.run = r /\ request.pc = "spawn")'
      BY <2>1, <2>5, BusyRun DEF FailRaises, RecordInvariant, Starting
    <3>3. QED
      BY <2>5, <3>1, <3>2 DEF RecordInvariant, StatusesAtStep
  <2>6. QED
    BY <1>2, <2>2, <2>3, <2>4, <2>5
<1>3. QED
  BY <1>1, <1>2 DEF Fault

LEMMA FaultKeepsDown == ASSUME TypeOK, Fault, DownIsEmpty PROVE DownIsEmpty'
<1>1. ASSUME ~up PROVE FALSE
  <2>1. pc = NoThreads /\ request = NoRequest
    BY <1>1 DEF DownIsEmpty
  <2>2. QED
    BY <2>1 DEF Fault, HandlerRaises, ThreadRaises, FailRaises, UsesDatabase, Writing, Reading,
       NoThreads, NoRequest
<1>2. UNCHANGED up
  BY DEF Fault, HandlerRaises, ThreadRaises, FailRaises
<1>3. QED
  BY <1>1, <1>2 DEF DownIsEmpty

LEMMA NextKeepsRecord ==
    ASSUME TypeOK, TypeOK', DownIsEmpty, NoFault, NEW s \in Runs, RecordInvariant(s)
    PROVE  RecordInvariant(s)'
<1>0. up' => lost' = lost
  BY DEF NoFault
<1>1. ASSUME NEW r \in Runs, NEW t \in Threads, Worker(r, t) PROVE RecordInvariant(s)'
  <2>1. DownIsEmpty'
    BY <1>1, DownStaysEmpty DEF Next
  <2>2. CASE up'
    BY <1>0, <1>1, <2>2, WorkerKeepsRecord, WorkerChangesOnlyItsRun, SameRecord
  <2>3. CASE ~up'
    <3>1. pc' = NoThreads /\ active' = {} /\ request' = NoRequest
      BY <2>1, <2>3 DEF DownIsEmpty
    <3>2. QED
      BY <3>1 DEF RecordInvariant, NoThreadOf, NoThreads, Starting, NoRequest
  <2>4. QED
    BY <2>2, <2>3
<1>2. ASSUME NEW r \in Runs, CreateRun(r) \/ Clarify(r) \/ Handler(r) PROVE RecordInvariant(s)'
  <2>1. DownIsEmpty'
    BY <1>2, DownStaysEmpty DEF Next
  <2>2. CASE up'
    BY <1>0, <1>2, <2>2, RequestKeepsRecord, RequestIsElsewhere, RequestChangesOnlyItsRun,
       SameRecord
  <2>3. CASE ~up'
    <3>1. pc' = NoThreads /\ active' = {} /\ request' = NoRequest
      BY <2>1, <2>3 DEF DownIsEmpty
    <3>2. QED
      BY <3>1 DEF RecordInvariant, NoThreadOf, NoThreads, Starting, NoRequest
  <2>4. QED
    BY <2>2, <2>3
<1>3. CASE Crash
  BY <1>3 DEF Crash, RecordInvariant, NoThreadOf, NoThreads, Starting, NoRequest
<1>4. CASE Restart
  <2>1. active' = {} /\ request' = NoRequest /\ row' = row
    BY <1>4 DEF Restart, DownIsEmpty, dbVars, recordVars
  <2>2. row[s].status = "absent" => NoThreadOf(s)'
    BY <1>4 DEF Restart, NoThreadOf, Open
  <2>3. QED
    BY <2>1, <2>2 DEF RecordInvariant, NoRequest, Starting
<1>5. QED
  BY <1>1, <1>2, <1>3, <1>4 DEF NoFault, Next

(***************************************************************************)
(* GET /runs/{id} and the list of runs agree about a run at rest, whatever *)
(* transactions failed on the way, whatever was replied and when.          *)
(***************************************************************************)
THEOREM RecordAndRowAgree == FaultsSafety => []StatusesAgreeAtRest
<1> DEFINE Inv == DownIsEmpty /\ RecordsInvariant
<1>1. FaultsInit => Inv
  BY DEF FaultsInit, Init, DownIsEmpty, RecordsInvariant, RecordInvariant, NoThreadOf, NoThreads,
     NoRequest, NoEntry, Starting
<1>2. TypeOK /\ TypeOK' /\ Inv /\ [NoFault \/ Fault]_faultVars => Inv'
  <2> SUFFICES ASSUME TypeOK, TypeOK', Inv, [NoFault \/ Fault]_faultVars PROVE Inv'
    OBVIOUS
  <2>1. CASE NoFault
    BY <2>1, NextKeepsRecord, DownStaysEmpty DEF NoFault, RecordsInvariant
  <2>2. CASE Fault
    BY <2>2, FaultKeepsRecord, FaultKeepsDown DEF RecordsInvariant
  <2>3. CASE UNCHANGED faultVars
    <3>1. UNCHANGED vars /\ lost' = lost
      BY <2>3 DEF faultVars
    <3>2. DownIsEmpty'
      BY <3>1, DownStaysEmpty
    <3>3. QED
      BY <3>1, <3>2, SameRecord DEF RecordsInvariant, vars, dbVars, recordVars, threadVars
  <2>4. QED
    BY <2>1, <2>2, <2>3
<1>3. Inv => StatusesAgreeAtRest
  BY DEF RecordsInvariant, RecordInvariant, StatusesAgreeAtRest, AtRest, View, NoThreadOf,
     StatusesAtStep, BothSay
<1>4. QED
  BY <1>1, <1>2, <1>3, FaultsTypeCorrect, PTL DEF FaultsSafety
-----------------------------------------------------------------------------
(* The chat client.  A failed transaction leaves the run with one driver, which   *)
(* goes to fail, or with none; a handler that raises gives the user its question  *)
(* back.                                                                          *)

LEMMA ThreadRaisesAt ==
    ASSUME TypeOK, NEW r \in Runs, NEW t \in Threads, ThreadRaises(r, t)
    PROVE  /\ Driving(r, t) /\ pc[r][t] \notin {"wait", "doneOff", "failOff"}
           /\ pc[r][t] = "boot" => r \notin active
           /\ pc'[r][t] = "fail" /\ \A u \in Threads \ {t} : pc'[r][u] = pc[r][u]
           /\ \A s \in Runs \ {r} : pc'[s] = pc[s]
           /\ Goto(r, t, "fail")
           /\ UNCHANGED <<row, log, ckpt, active, mem, queue, task, request, shown, replied, used>>
BY DEF ThreadRaises, UsesDatabase, Writing, Reading, Driving, Goto, TypeOK, dbVars, recordVars,
   auxVars

LEMMA FailRaisesAt ==
    ASSUME TypeOK, NEW r \in Runs, NEW t \in Threads, FailRaises(r, t)
    PROVE  /\ Driving(r, t) /\ pc[r][t] \notin {"wait", "boot"}
           /\ pc'[r][t] = "idle" /\ \A u \in Threads \ {t} : pc'[r][u] = pc[r][u]
           /\ \A s \in Runs \ {r} : pc'[s] = pc[s]
           /\ UNCHANGED <<row, log, ckpt, active, mem, queue, task, request, shown, replied, used>>
BY DEF FailRaises, InFail, Driving, Goto, TypeOK, dbVars, recordVars, auxVars

LEMMA ThreadRaisesKeeps ==
    ASSUME TypeOK, NEW r \in Runs, NEW t \in Threads, ThreadRaises(r, t), RunInvariant(r)
    PROVE  RunInvariant(r)'
<1>1. \A u \in Threads \ {t} : ~Driving(r, u)'
  BY ThreadRaisesAt, OnlyDriver DEF Driving
<1>2. ~Starting(r)' /\ ~Unanswered(r)' /\ ~Replying(r)' /\ ~Queued(r)'
  BY ThreadRaisesAt, OnlyDriver DEF Starting, Unanswered, Replying, Queued
<1>3. AloneInRun(r)' /\ OneReply(r)' /\ StartingRow(r)'
  BY <1>1, <1>2 DEF AloneInRun, OneReply, StartingRow, Starting
<1>4. Ownership(r)'
  BY <1>1, ThreadRaisesAt DEF RunInvariant, Ownership
<1>5. AbsentRow(r)' /\ RowAtStep(r, t)'
  BY ThreadRaisesAt DEF RunInvariant, AbsentRow, RowAtStep, MidRun, AtQuestion
<1>6. QED
  BY <1>1, <1>3, <1>4, <1>5 DEF RunInvariant

LEMMA FailRaisesKeeps ==
    ASSUME TypeOK, NEW r \in Runs, NEW t \in Threads, FailRaises(r, t), RunInvariant(r)
    PROVE  RunInvariant(r)'
<1>1. \A u \in Threads : ~Driving(r, u)'
  BY FailRaisesAt, OnlyDriver DEF Driving
<1>2. ~Starting(r)' /\ ~Unanswered(r)' /\ ~Replying(r)' /\ ~Queued(r)'
  BY FailRaisesAt, OnlyDriver DEF Starting, Unanswered, Replying, Queued
<1>3. AbsentRow(r)'
  BY <1>1, FailRaisesAt DEF RunInvariant, AbsentRow
<1>4. QED
  BY <1>1, <1>2, <1>3
  DEF RunInvariant, AloneInRun, OneReply, StartingRow, Starting, Ownership

LEMMA HandlerRaisesKeeps ==
    ASSUME TypeOK, NEW r \in Runs, HandlerRaises(r), RunInvariant(r)
    PROVE  RunInvariant(r)'
<1>1. /\ request' = NoRequest
      /\ UNCHANGED <<pc, task, row, active, queue, shown>>
  BY DEF HandlerRaises, dbVars, recordVars, threadVars
<1>2. Replying(r) /\ Quiet(r) /\ ~Queued(r) /\ shown[r] = replied[r]
  BY DEF HandlerRaises, Replying, RunInvariant, OneReply, Unanswered
<1>3. replied'[r] = replied[r] \/ replied'[r] + 1 = replied[r]
  BY DEF HandlerRaises, TypeOK
<1>4. Quiet(r)' /\ ~Queued(r)' /\ ~Replying(r)' /\ ~Starting(r)'
  BY <1>1, <1>2 DEF Quiet, Queued, Replying, Starting, Driving, NoRequest
<1>5. OneReply(r)'
  BY <1>1, <1>2, <1>3, <1>4 DEF OneReply, Unanswered
<1>6. AbsentRow(r)'
  BY <1>4 DEF AbsentRow, Quiet
<1>7. QED
  BY <1>1, <1>4, <1>5, <1>6 DEF RunInvariant, AloneInRun, Driving, RowAtStep, Ownership,
     StartingRow, NoRequest

\* A failed transaction of one run leaves the others alone.
LEMMA FaultElsewhere ==
    ASSUME TypeOK, NEW r \in Runs, NEW s \in Runs, s # r,
           HandlerRaises(r) \/ \E t \in Threads : ThreadRaises(r, t) \/ FailRaises(r, t)
    PROVE  /\ UNCHANGED <<row, log, ckpt, active, mem, queue, task, shown, used>>
           /\ pc'[s] = pc[s] /\ replied'[s] = replied[s]
           /\ \/ request' = request
              \/ ElsewhereOrNone(request, s) /\ ElsewhereOrNone(request', s)
<1>1. CASE HandlerRaises(r)
  BY <1>1 DEF HandlerRaises, TypeOK, ElsewhereOrNone, NoRequest, dbVars, recordVars, threadVars
<1>2. QED
  BY <1>1, ThreadRaisesAt, FailRaisesAt

LEMMA FaultKeepsRun ==
    ASSUME TypeOK, Fault, NEW s \in Runs, RunInvariant(s) PROVE RunInvariant(s)'
<1>1. PICK r \in Runs : HandlerRaises(r) \/ \E t \in Threads : ThreadRaises(r, t) \/ FailRaises(r, t)
  BY DEF Fault
<1>2. CASE s = r
  BY <1>1, <1>2, HandlerRaisesKeeps, ThreadRaisesKeeps, FailRaisesKeeps
<1>3. CASE s # r
  <2>1. task'[s] = task[s] /\ row'[s] = row[s] /\ queue'[s] = queue[s] /\ shown'[s] = shown[s]
        /\ (s \in active' <=> s \in active)
    BY <1>1, <1>3, FaultElsewhere
  <2>2. QED
    BY <1>1, <1>3, <2>1, FaultElsewhere, SameRun
<1>4. QED
  BY <1>2, <1>3

(***************************************************************************)
(* The invariant of the service holds with any number of failed            *)
(* transactions.                                                           *)
(***************************************************************************)
LEMMA ServiceHolds == ASSUME Client = "chat" PROVE FaultsSafety => []ServiceInvariant
<1>1. TypeOK /\ TypeOK' /\ ServiceInvariant /\ [NoFault \/ Fault]_faultVars => ServiceInvariant'
  <2> SUFFICES ASSUME TypeOK, TypeOK', ServiceInvariant, [NoFault \/ Fault]_faultVars
               PROVE  ServiceInvariant'
    OBVIOUS
  <2>1. CASE NoFault
    BY <2>1, ServiceStep DEF NoFault
  <2>2. CASE Fault
    BY <2>2, FaultKeepsRun, FaultKeepsDown DEF ServiceInvariant
  <2>3. CASE UNCHANGED faultVars
    BY <2>3, ServiceStep DEF faultVars
  <2>4. QED
    BY <2>1, <2>2, <2>3
<1>2. QED
  BY <1>1, InitInvariant, FaultsTypeCorrect, PTL DEF FaultsSafety, FaultsInit

(***************************************************************************)
(* No run ever has two drivers, whatever transactions fail.                *)
(***************************************************************************)
THEOREM OneDriverWithFaults == ASSUME Client = "chat" PROVE FaultsSafety => []SingleDriver
<1>1. ServiceInvariant => SingleDriver
  BY DEF ServiceInvariant, RunInvariant, AloneInRun, SingleDriver
<1>2. QED
  BY <1>1, ServiceHolds, PTL
(***************************************************************************)
(* A reply on the queue of a run is read: no failed transaction takes the  *)
(* thread away that waits for it.                                          *)
(***************************************************************************)
THEOREM QueuedAnswersAreReadWithFaults ==
    ASSUME Client = "chat" PROVE FaultsSafety => []QueuedAnswerHasReader
BY ServiceReads, ServiceHolds, PTL
-----------------------------------------------------------------------------
(* A run that is over. *)

EndKept(r) ==
    /\ row[r].status = "failed" => row'[r].status = "failed"
    /\ row[r].status = "completed" => row'[r].status \in Terminal

LEMMA WorkerKeepsEnd ==
    ASSUME TypeOK, NEW r \in Runs, NEW t \in Threads, Worker(r, t), RunInvariant(r)
    PROVE  EndKept(r)
<1>1. CASE UNCHANGED row
  BY <1>1 DEF EndKept, Terminal
\* The threads that write the row of a run know that it goes on, and fail ends it.
<1>2. RowAtStep(r, t)
  BY WorkerDrives DEF RunInvariant
<1>3. CASE BootRow(r, t) \/ AskRow(r, t) \/ ClearRow(r, t)
           \/ EndRow(r, t, "doneRow", "completed", "doneEmit")
  <2>1. row[r].status \notin Terminal
    BY <1>2, <1>3 DEF BootRow, AskRow, ClearRow, EndRow, RowAtStep, MidRun, AtQuestion, Terminal
  <2>2. QED
    BY <2>1 DEF EndKept, Terminal
<1>4. CASE EndRow(r, t, "failRow", "failed", "failEmit")
  <2>1. row'[r].status = "failed"
    BY <1>4 DEF EndRow, WriteRow, TypeOK
  <2>2. QED
    BY <2>1 DEF EndKept, Terminal
<1>5. QED
  BY <1>1, <1>3, <1>4 DEF Worker, Boot, EmitStarted, Enter, ResumeWithAnswer, ResumeAtCheckpoint,
     ResumeWithoutCheckpoint, UseTool, Interrupt, Finish, Raise, EmitConflict, Ask, EmitAsk,
     AskMessage, TakeAnswer, Clear, Continue, Say, SayMessage, Complete, Fail, Deactivate,
     EndRecord, EndEvent, dbVars

LEMMA RequestKeepsEnd ==
    ASSUME TypeOK, NEW r \in Runs, CreateRun(r) \/ Clarify(r) \/ Handler(r), RunInvariant(r)
    PROVE  EndKept(r)
<1>1. CASE UNCHANGED row
  BY <1>1 DEF EndKept, Terminal
<1>2. CASE CreateRun(r) \/ RouteInactive(r)
  <2>1. row[r].status \notin Terminal
    BY <1>2 DEF CreateRun, RouteInactive, RunInvariant, OneReply, Replying, Quiet, Terminal
  <2>2. QED
    BY <2>1 DEF EndKept, Terminal
<1>3. QED
  BY <1>1, <1>2 DEF Handler, Clarify, StartRun, StoreAnswer, HandAnswer, Respawn, dbVars

(***************************************************************************)
(* A run that is over is never shown as open again, whatever transactions  *)
(* fail and whenever the process restarts.                                 *)
(***************************************************************************)
THEOREM EndsLast == ASSUME Client = "chat" PROVE FaultsSafety => EndedStaysEnded
<1>1. TypeOK /\ ServiceInvariant /\ [NoFault \/ Fault]_faultVars
        => [\A r \in Runs : EndKept(r)]_faultVars
  <2> SUFFICES ASSUME TypeOK, ServiceInvariant, NoFault \/ Fault, NEW s \in Runs
               PROVE  EndKept(s)
    OBVIOUS
  <2>0. RunInvariant(s)
    BY DEF ServiceInvariant
  <2>1. ASSUME NEW r \in Runs, NEW t \in Threads, Worker(r, t) PROVE EndKept(s)
    <3>1. CASE s = r
      BY <2>0, <2>1, <3>1, WorkerKeepsEnd
    <3>2. CASE s # r
      BY <2>1, <3>2, WorkerChangesOnlyItsRun DEF EndKept, Terminal
    <3>3. QED
      BY <3>1, <3>2
  <2>2. ASSUME NEW r \in Runs, CreateRun(r) \/ Clarify(r) \/ Handler(r) PROVE EndKept(s)
    <3>1. CASE s = r
      BY <2>0, <2>2, <3>1, RequestKeepsEnd
    <3>2. CASE s # r
      BY <2>2, <3>2, RequestChangesOnlyItsRun DEF EndKept, Terminal
    <3>3. QED
      BY <3>1, <3>2
  <2>3. CASE Crash \/ Restart
    BY <2>3 DEF Crash, Restart, dbVars, EndKept, Terminal
  <2>4. CASE Fault
    BY <2>4 DEF Fault, HandlerRaises, ThreadRaises, FailRaises, dbVars, EndKept, Terminal
  <2>5. QED
    BY <2>1, <2>2, <2>3, <2>4 DEF NoFault, Next
<1>2. QED
  BY <1>1, ServiceHolds, FaultsTypeCorrect, PTL DEF FaultsSafety, EndedStaysEnded, EndKept
-----------------------------------------------------------------------------
(* The event log and the answers, whatever transactions fail. *)

LEMMA FaultKeepsLog ==
    ASSUME TypeOK, Fault, NEW s \in Runs, RunInvariant(s), LogInvariant(s)
    PROVE  LogInvariant(s)'
<1>1. PICK r \in Runs : HandlerRaises(r) \/ \E t \in Threads : ThreadRaises(r, t) \/ FailRaises(r, t)
  BY DEF Fault
<1>2. CASE HandlerRaises(r)
  BY <1>2, SameLog DEF HandlerRaises, dbVars, threadVars
<1>3. CASE s # r
  <2>1. row'[s] = row[s] /\ log'[s] = log[s] /\ pc'[s] = pc[s]
    BY <1>1, <1>3, FaultElsewhere
  <2>2. QED
    BY <2>1, SameLog
<1>4. ASSUME NEW t \in Threads, ThreadRaises(r, t), s = r PROVE LogInvariant(s)'
  BY <1>4, ThreadRaisesAt, FailedLog DEF Failing
<1>5. ASSUME NEW t \in Threads, FailRaises(r, t), s = r PROVE LogInvariant(s)'
  <2>1. UNCHANGED <<row, log>>
    BY <1>5, FailRaisesAt
  <2>2. \A u \in Threads : pc'[s][u] = pc[s][u] \/ pc'[s][u] = "idle"
    BY <1>5, FailRaisesAt
  <2>3. QED
    BY <2>1, <2>2, SameLog DEF Failing
<1>6. QED
  BY <1>1, <1>2, <1>3, <1>4, <1>5

\* The driver lets go of its answer and of the question.
LEMMA DropsQuestion ==
    ASSUME NEW r \in Runs, NEW t \in Threads, QuestionInvariant(r),
           pc'[r][t] \in {"fail", "idle"}, \A u \in Threads \ {t} : pc'[r][u] = pc[r][u],
           UNCHANGED <<row, ckpt, active, mem, queue, task, request, used>>
    PROVE  QuestionInvariant(r)'
<1>1. \A u \in Threads : InHand(r, u)' /\ (Driving(r, u)' => RecordShows(r, u)')
  BY DEF QuestionInvariant, InHand, RecordShows, Driving, Fits
<1>2. QED
  BY <1>1 DEF QuestionInvariant, Fits, Replying, Starting, Queued

LEMMA FaultKeepsQuestion ==
    ASSUME TypeOK, Fault, NEW s \in Runs, RunInvariant(s), QuestionInvariant(s)
    PROVE  QuestionInvariant(s)'
<1>1. PICK r \in Runs : HandlerRaises(r) \/ \E t \in Threads : ThreadRaises(r, t) \/ FailRaises(r, t)
  BY DEF Fault
<1>2. CASE HandlerRaises(r)
  <2>1. /\ request' = NoRequest
        /\ UNCHANGED <<pc, task, row, mem, active, queue, ckpt, used>>
    BY <1>2 DEF HandlerRaises, dbVars, recordVars, threadVars
  <2>2. QED
    BY <2>1, SameQuestion DEF ElsewhereOrNone, NoRequest
<1>3. CASE s # r
  <2>1. /\ UNCHANGED <<row, ckpt, active, mem, queue, task, used>>
        /\ pc'[s] = pc[s] /\ (request' = request \/ ElsewhereOrNone(request', s))
    BY <1>1, <1>3, FaultElsewhere
  <2>2. QED
    BY <2>1, SameQuestion
<1>4. ASSUME NEW t \in Threads, ThreadRaises(r, t) \/ FailRaises(r, t), s = r
      PROVE  QuestionInvariant(s)'
  BY <1>4, ThreadRaisesAt, FailRaisesAt, DropsQuestion
<1>5. QED
  BY <1>1, <1>2, <1>3, <1>4

LEMMA FaultyService ==
    ASSUME Client = "chat" PROVE FaultsSafety => [](LogsInvariant /\ QuestionsInvariant)
<1> DEFINE Inv == LogsInvariant /\ QuestionsInvariant
<1>1. TypeOK /\ ServiceInvariant /\ Inv /\ [NoFault \/ Fault]_faultVars => Inv'
  <2> SUFFICES ASSUME TypeOK, ServiceInvariant, Inv, [NoFault \/ Fault]_faultVars, NEW s \in Runs
               PROVE  LogInvariant(s)' /\ QuestionInvariant(s)'
    BY DEF LogsInvariant, QuestionsInvariant
  <2>1. CASE NoFault \/ UNCHANGED faultVars
    <3>1. [Next]_vars
      BY <2>1 DEF NoFault, faultVars
    <3>2. QED
      BY <3>1, LogStep, QuestionStep DEF LogsInvariant
  <2>2. CASE Fault
    BY <2>2, FaultKeepsLog, FaultKeepsQuestion
    DEF ServiceInvariant, LogsInvariant, QuestionsInvariant
  <2>3. QED
    BY <2>1, <2>2
<1>2. FaultsInit => Inv
  BY InitLogs, InitQuestions DEF FaultsInit
<1>3. QED
  BY <1>1, <1>2, ServiceHolds, FaultsTypeCorrect, PTL DEF FaultsSafety

(***************************************************************************)
(* The log of a run starts once and ends once, after a failed transaction  *)
(* and a restart too.                                                      *)
(***************************************************************************)
THEOREM LogsTellOneRunWithFaults ==
    ASSUME Client = "chat" PROVE FaultsSafety => []LogTellsOneRun
BY LogsTell, FaultyService, PTL

(***************************************************************************)
(* The terminal event of a run is written after its row: whoever reads it  *)
(* finds the row in that status, though the transaction of the row or of   *)
(* the event may fail.                                                     *)
(***************************************************************************)
THEOREM TerminalEventsAgreeWithFaults ==
    ASSUME Client = "chat" PROVE FaultsSafety => []TerminalEventAgreesWithRow
BY LogsTell, FaultyService, PTL

(***************************************************************************)
(* The graph is never resumed with the answer to another question, though  *)
(* a handler that raised lets the user answer a question twice.            *)
(***************************************************************************)
THEOREM AnswersMeetTheirQuestionsWithFaults ==
    ASSUME Client = "chat" PROVE FaultsSafety => []AnswersMatch
BY QuestionsMatch, FaultyService, PTL
=============================================================================
