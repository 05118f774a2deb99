------------------------- MODULE EventStreamProofs --------------------------
(***************************************************************************)
(* Proofs about EventStream, for every set of runs and of readers and any  *)
(* number of connections: what a reader has received is a prefix of the    *)
(* log, and it never sleeps over an event.  That a late reader gets the    *)
(* whole log is shown for users who reply once to each question.           *)
(***************************************************************************)
EXTENDS EventStream, AgentRunsProofs

(* Types. *)

NewEvents(len, next) == [n \in 1 .. len - next |-> next + n]

LEMMA NewEventsAre ==
    ASSUME NEW len \in Nat, NEW next \in Nat
    PROVE  /\ NewEvents(len, next) \in Seq(Nat)
           /\ next <= len => Len(NewEvents(len, next)) = len - next
           /\ NewEvents(len, next) = << >> <=> len <= next
           /\ NewEvents(len, next) # << >> =>
                NewEvents(len, next)[Len(NewEvents(len, next))] = len
<1>1. CASE len <= next
  <2>1. 1 .. len - next = {}
    BY <1>1
  <2>2. NewEvents(len, next) = << >>
    BY <2>1 DEF NewEvents
  <2>3. QED
    BY <1>1, <2>2
<1>2. CASE next < len
  <2>1. len - next \in Nat \ {0}
    BY <1>2
  <2>2. NewEvents(len, next) \in [1 .. len - next -> Nat]
    BY <2>1 DEF NewEvents
  <2>3. NewEvents(len, next) \in Seq(Nat) /\ Len(NewEvents(len, next)) = len - next
    BY <2>1, <2>2
  <2>4. NewEvents(len, next)[len - next] = len
    BY <2>1 DEF NewEvents
  <2>5. QED
    BY <1>2, <2>1, <2>3, <2>4
<1>3. QED
  BY <1>1, <1>2

ReaderOK == reader \in [Readers -> Reader]

LEMMA OffIsReader == Off \in Reader
BY DEF Off, Reader

LEMMA FieldsOfOne ==
    ASSUME NEW f \in [Readers -> Reader], NEW c \in Readers, NEW g, NEW n, NEW a
    PROVE  [f EXCEPT ![c].got = g, ![c].next = n, ![c].at = a]
             = [f EXCEPT ![c] = [f[c] EXCEPT !.got = g, !.next = n, !.at = a]]
BY DEF Reader

\* Records of a reader with some of their fields changed.
LEMMA ReaderRung ==
    ASSUME NEW old \in Reader
    PROVE  LET new == [old EXCEPT !.bell = @ + 1]
           IN  /\ new \in Reader /\ new.at = old.at /\ new.bell = old.bell + 1
               /\ new.run = old.run /\ new.got = old.got /\ new.next = old.next
               /\ new.own = old.own /\ new.late = old.late
<1>1. old.bell + 1 \in Nat
  BY DEF Reader
<1>2. QED
  BY <1>1 DEF Reader

OnRun(r, own, late) == [Off EXCEPT !.at = "list", !.run = r, !.own = own, !.late = late]

LEMMA ReaderConnected ==
    ASSUME NEW r \in Runs, NEW own \in BOOLEAN, NEW late \in BOOLEAN
    PROVE  LET new == OnRun(r, own, late)
           IN  /\ new \in Reader /\ new.at = "list" /\ new.run = r /\ new.got = << >>
               /\ new.next = 0 /\ new.late = late
<1>1. Off \in Reader /\ Off.got = << >> /\ Off.next = 0
  BY OffIsReader DEF Off
<1>2. QED
  BY <1>1 DEF Reader, OnRun

LEMMA ListedReader ==
    ASSUME TypeOK, ReaderOK, NEW c \in Readers, ListEvents(c), reader[c].run \in Runs
    PROVE  LET fresh == NewEvents(Len(log[reader[c].run]), reader[c].next)
           IN  /\ reader'[c].got = reader[c].got \o fresh
               /\ reader'[c].next = IF fresh = << >> THEN reader[c].next
                                                     ELSE Len(log[reader[c].run])
               /\ reader'[c].at = "check"
               /\ reader'[c].run = reader[c].run /\ reader'[c].late = reader[c].late
               /\ reader' \in [Readers -> Reader]
               /\ \A d \in Readers \ {c} : reader'[d] = reader[d]
<1> DEFINE len   == Len(log[reader[c].run])
           next  == reader[c].next
           fresh == NewEvents(len, next)
           last  == IF fresh = << >> THEN next ELSE fresh[Len(fresh)]
           new   == [reader[c] EXCEPT !.got = @ \o fresh, !.next = last, !.at = "check"]
<1>1. len \in Nat /\ next \in Nat /\ reader[c].got \in Seq(Nat) /\ reader[c] \in Reader
  BY DEF TypeOK, ReaderOK, Reader
<1>2. fresh \in Seq(Nat) /\ last \in Nat /\ last = IF fresh = << >> THEN next ELSE len
  BY <1>1, NewEventsAre
<1>3. reader' = [reader EXCEPT ![c] = new]
  <2>1. reader' = [reader EXCEPT ![c].got = reader[c].got \o fresh, ![c].next = last,
                                 ![c].at = "check"]
    BY Zenon DEF ListEvents, NewEvents
  <2>2. reader \in [Readers -> Reader]
    BY DEF ReaderOK
  <2> DEFINE got == reader[c].got \o fresh
  <2>3. new = [reader[c] EXCEPT !.got = got, !.next = last, !.at = "check"]
    OBVIOUS
  <2>4. reader' = [reader EXCEPT ![c].got = got, ![c].next = last, ![c].at = "check"]
    BY <2>1
  <2> HIDE DEF fresh, last, got, new
  <2>5. reader' = [reader EXCEPT ![c] = [reader[c] EXCEPT !.got = got, !.next = last, !.at = "check"]]
    <3>1. \A g, n, a : [reader EXCEPT ![c].got = g, ![c].next = n, ![c].at = a]
                        = [reader EXCEPT ![c] = [reader[c] EXCEPT !.got = g, !.next = n, !.at = a]]
      BY <2>2, FieldsOfOne
    <3>2. QED
      BY <2>4, <3>1, Zenon
  <2>6. QED
    BY <2>3, <2>5
<1>4. reader[c].got \o fresh \in Seq(Nat)
  BY <1>1, <1>2
<1> HIDE DEF fresh, last
<1>5. /\ new.got = reader[c].got \o fresh /\ new.next = last /\ new.at = "check"
      /\ new.run = reader[c].run /\ new.late = reader[c].late /\ new \in Reader
  BY <1>1, <1>2, <1>4 DEF Reader
<1> HIDE DEF new
<1>6. reader'[c] = new /\ reader' \in [Readers -> Reader]
      /\ \A d \in Readers \ {c} : reader'[d] = reader[d]
  BY <1>3, <1>5 DEF ReaderOK
<1>7. QED
  BY <1>2, <1>5, <1>6 DEF fresh, len, next

\* The other steps of a reader change fields it has.
LEMMA SteppedReader ==
    ASSUME ReaderOK, NEW c \in Readers, CheckTerminal(c) \/ Wake(c) \/ Timeout(c)
    PROVE  /\ reader'[c].got = reader[c].got /\ reader'[c].next = reader[c].next
           /\ reader'[c].run = reader[c].run /\ reader'[c].late = reader[c].late
           /\ reader'[c].own = reader[c].own
           /\ reader' \in [Readers -> Reader]
           /\ \A d \in Readers \ {c} : reader'[d] = reader[d]
           /\ CheckTerminal(c) => /\ reader[c].at = "check" /\ reader'[c].bell = reader[c].bell
                                  /\ reader'[c].at \in {"closed", "wait"}
           /\ ~CheckTerminal(c) => reader[c].at = "wait" /\ reader'[c].at = "list"
<1>1. reader[c] \in Reader /\ reader \in [Readers -> Reader]
  BY DEF ReaderOK
<1>2. CASE CheckTerminal(c)
  <2> DEFINE next == IF row[reader[c].run].status \in Terminal THEN "closed" ELSE "wait"
             new  == [reader[c] EXCEPT !.at = next]
  <2>1. reader' = [reader EXCEPT ![c] = new] /\ reader[c].at = "check"
    <3>1. reader' = [reader EXCEPT ![c].at = next] /\ reader[c].at = "check"
      BY <1>2, Zenon DEF CheckTerminal
    <3> HIDE DEF next
    <3>2. QED
      BY <1>1, <3>1
  <2>2. next \in {"closed", "wait"}
    OBVIOUS
  <2> HIDE DEF next
  <2>3. /\ new.got = reader[c].got /\ new.next = reader[c].next /\ new.run = reader[c].run
        /\ new.late = reader[c].late /\ new.own = reader[c].own /\ new.bell = reader[c].bell
        /\ new.at = next /\ new \in Reader
    BY <1>1, <2>2 DEF Reader
  <2> HIDE DEF new
  <2>4. QED
    BY <1>1, <1>2, <2>1, <2>2, <2>3
<1>3. ASSUME NEW bell \in Nat, reader[c].at = "wait",
             reader' = [reader EXCEPT ![c] = [reader[c] EXCEPT !.at = "list", !.bell = bell]]
      PROVE  /\ reader'[c].got = reader[c].got /\ reader'[c].next = reader[c].next
             /\ reader'[c].run = reader[c].run /\ reader'[c].late = reader[c].late
             /\ reader'[c].own = reader[c].own /\ reader'[c].at = "list"
             /\ reader' \in [Readers -> Reader]
             /\ \A d \in Readers \ {c} : reader'[d] = reader[d]
             /\ ~CheckTerminal(c)
  <2> DEFINE new == [reader[c] EXCEPT !.at = "list", !.bell = bell]
  <2>1. /\ new.got = reader[c].got /\ new.next = reader[c].next /\ new.run = reader[c].run
        /\ new.late = reader[c].late /\ new.own = reader[c].own
        /\ new.at = "list" /\ new \in Reader
    BY <1>1, <1>3 DEF Reader
  <2>2. ~CheckTerminal(c)
    BY <1>3 DEF CheckTerminal
  <2>3. reader' = [reader EXCEPT ![c] = new]
    BY <1>3
  <2> HIDE DEF new
  <2>4. QED
    BY <1>1, <2>1, <2>2, <2>3
<1>4. CASE Wake(c)
  <2>1. reader' = [reader EXCEPT ![c].at = "list", ![c].bell = reader[c].bell - 1]
    BY <1>4, Zenon DEF Wake
  <2>2. reader[c].at = "wait" /\ reader[c].bell - 1 \in Nat
    BY <1>1, <1>4 DEF Wake, Reader
  <2> DEFINE left == reader[c].bell - 1
  <2> HIDE DEF left
  <2>3. reader' = [reader EXCEPT ![c].at = "list", ![c].bell = left] /\ left \in Nat
    BY <2>1, <2>2 DEF left
  <2>4. reader' = [reader EXCEPT ![c] = [reader[c] EXCEPT !.at = "list", !.bell = left]]
    BY <1>1, <2>3
  <2>5. QED
    BY <1>3, <1>4, <2>2, <2>3, <2>4
<1>5. CASE Timeout(c)
  <2>1. reader' = [reader EXCEPT ![c].at = "list"] /\ reader[c].at = "wait"
    BY <1>5, Zenon DEF Timeout
  <2>2. reader[c].bell \in Nat
    BY <1>1 DEF Reader
  <2>3. [reader[c] EXCEPT !.at = "list", !.bell = reader[c].bell] = [reader[c] EXCEPT !.at = "list"]
    BY <1>1 DEF Reader
  <2>4. reader' = [reader EXCEPT ![c] = [reader[c] EXCEPT !.at = "list", !.bell = reader[c].bell]]
    BY <1>1, <2>1, <2>3
  <2>5. QED
    BY <1>3, <1>5, <2>1, <2>2, <2>4
<1>6. QED
  BY <1>2, <1>4, <1>5

LEMMA ConnectedReader ==
    ASSUME ReaderOK, NEW c \in Readers, NEW r \in Runs, Connect(c, r)
    PROVE  /\ reader'[c].at = "list" /\ reader'[c].run = r /\ reader'[c].got = << >>
           /\ reader'[c].next = 0 /\ (reader'[c].late <=> HasEnded(r))
           /\ reader' \in [Readers -> Reader]
           /\ \A d \in Readers \ {c} : reader'[d] = reader[d]
<1> DEFINE isOwn  == r \in active
           isLate == HasEnded(r)
           new    == OnRun(r, isOwn, isLate)
<1>1. reader' = [reader EXCEPT ![c] = new]
  BY DEF Connect, OnRun
<1>2. isOwn \in BOOLEAN /\ isLate \in BOOLEAN
  BY DEF HasEnded
<1> HIDE DEF isOwn, isLate
<1>3. /\ new.at = "list" /\ new.run = r /\ new.got = << >> /\ new.next = 0
      /\ new.late = isLate /\ new \in Reader
  BY <1>2, ReaderConnected
<1> HIDE DEF new
<1>4. QED
  BY <1>1, <1>3 DEF ReaderOK, isLate

\* What a notification does.
LEMMA NotifiedReader ==
    ASSUME ReaderOK, NEW c \in Readers, Notify
    PROVE  /\ reader' \in [Readers -> Reader]
           /\ reader'[c].at # "off" =>
                /\ up' /\ reader'[c].at = reader[c].at /\ reader'[c].run = reader[c].run
                /\ reader'[c].got = reader[c].got /\ reader'[c].next = reader[c].next
                /\ reader'[c].own = reader[c].own /\ reader'[c].late = reader[c].late
                /\ reader'[c].bell \in {reader[c].bell, reader[c].bell + 1}
                /\ /\ reader[c].at \in {"list", "check", "wait"} /\ reader[c].own
                   /\ reader[c].run \in active /\ EmitEnds(reader[c].run)
                   => reader'[c].bell = reader[c].bell + 1
<1> DEFINE rung(d) == [reader[d] EXCEPT !.bell = @ + 1]
<1>1. ASSUME NEW d \in Readers
      PROVE  /\ rung(d) \in Reader
             /\ rung(d).at = reader[d].at /\ rung(d).run = reader[d].run
             /\ rung(d).got = reader[d].got /\ rung(d).next = reader[d].next
             /\ rung(d).own = reader[d].own /\ rung(d).late = reader[d].late
             /\ rung(d).bell = reader[d].bell + 1
  BY ReaderRung DEF ReaderOK
<1>2. reader' = [d \in Readers |->
                   IF ~up' THEN Off
                   ELSE IF /\ reader[d].at \in {"list", "check", "wait"} /\ reader[d].own
                           /\ reader[d].run \in active /\ EmitEnds(reader[d].run)
                        THEN rung(d) ELSE reader[d]]
  BY DEF Notify
<1> HIDE DEF rung
<1>3. reader' \in [Readers -> Reader]
  BY <1>1, <1>2, OffIsReader DEF ReaderOK
<1>4. Off.at = "off"
  BY DEF Off
<1>5. QED
  BY <1>1, <1>2, <1>3, <1>4

(* What a step of the run service does to the run of a reader. *)

Untold == {"askMsg", "sayMsg"}      \* the event is in the log, its message is not yet told
Telling(r) == \E t \in Threads : pc[r][t] \in Untold

LEMMA EventEndsEmit ==
    ASSUME TypeOK, NEW r \in Runs,
           NEW type \in EventTypes \ {"clarification_required", "assistant_message"},
           AppendEvent(r, type)
    PROVE  EmitEnds(r)
<1>1. Len(log[r]) \in Nat
  BY DEF TypeOK
<1>2. QED
  BY <1>1, EventAppended DEF EmitEnds, Grew, LastOf

LEMMA MessageEndsEmit ==
    ASSUME TypeOK, NEW r \in Runs, NEW kind \in {"question", "reply"}, InsertMessage(r, kind)
    PROVE  EmitEnds(r)
<1>1. chat[r] \in Seq({"prompt", "question", "answer", "reply"}) /\ chat'[r] = Append(chat[r], kind)
  BY DEF TypeOK, InsertMessage
<1>2. Len(chat'[r]) = Len(chat[r]) + 1 /\ LastOf(chat'[r]) = kind
  BY <1>1 DEF LastOf
<1>3. QED
  BY <1>1, <1>2 DEF EmitEnds, Grew

LEMMA WorkerTells ==
    ASSUME TypeOK, NEW r \in Runs, NEW t \in Threads, Worker(r, t)
    PROVE  /\ r \in active' => r \in active
           /\ Len(log'[r]) >= Len(log[r])
           /\ Len(log'[r]) # Len(log[r]) \/ Telling(r) => EmitEnds(r) \/ Telling(r)'
<1>1. Len(log[r]) \in Nat
  BY DEF TypeOK
<1>2. ASSUME NEW step \in PC, Goto(r, t, step)
      PROVE  pc'[r][t] = step /\ \A u \in Threads \ {t} : pc'[r][u] = pc[r][u]
  BY <1>2 DEF Goto, TypeOK
<1>3. ASSUME NEW step \in PC, Goto(r, t, step), UNCHANGED log, pc[r][t] \notin Untold,
             r \in active' => r \in active
      PROVE  /\ r \in active' => r \in active
             /\ Len(log'[r]) >= Len(log[r])
             /\ Len(log'[r]) # Len(log[r]) \/ Telling(r) => EmitEnds(r) \/ Telling(r)'
  BY <1>1, <1>2, <1>3 DEF Telling
<1>4. ASSUME NEW type \in EventTypes, AppendEvent(r, type), UNCHANGED active,
             type \in {"clarification_required", "assistant_message"} => pc'[r][t] \in Untold
      PROVE  /\ r \in active' => r \in active
             /\ Len(log'[r]) >= Len(log[r])
             /\ Len(log'[r]) # Len(log[r]) \/ Telling(r) => EmitEnds(r) \/ Telling(r)'
  <2>1. Len(log'[r]) = Len(log[r]) + 1
    BY <1>4, EventAppended
  <2>2. CASE type \in {"clarification_required", "assistant_message"}
    BY <1>1, <1>4, <2>1, <2>2 DEF Telling
  <2>3. CASE type \notin {"clarification_required", "assistant_message"}
    BY <1>1, <1>4, <2>1, <2>3, EventEndsEmit
  <2>4. QED
    BY <2>2, <2>3
<1>5. CASE \/ Boot(r, t) \/ BootRow(r, t) \/ Enter(r, t) \/ ResumeWithAnswer(r, t)
           \/ ResumeWithoutCheckpoint(r, t) \/ Interrupt(r, t) \/ Finish(r, t) \/ Raise(r, t)
           \/ Ask(r, t) \/ AskRow(r, t) \/ TakeAnswer(r, t)
           \/ Clear(r, t) \/ ClearRow(r, t) \/ Continue(r, t)
           \/ Deactivate(r, t)
  <2>1. UNCHANGED log /\ pc[r][t] \notin Untold /\ (r \in active' => r \in active)
    BY <1>5 DEF Boot, BootRow, Enter, ResumeWithAnswer, ResumeWithoutCheckpoint, Interrupt,
       Finish, Raise, Ask, AskRow, TakeAnswer, Clear, ClearRow, Continue, Deactivate, Untold,
       dbVars, recordVars
  <2>2. PICK step \in PC : Goto(r, t, step)
    BY <1>5 DEF Boot, BootRow, Enter, ResumeWithAnswer, ResumeWithoutCheckpoint, Interrupt,
       Finish, Raise, Ask, AskRow, TakeAnswer, Clear, ClearRow, Continue, Deactivate, PC, Emitting
  <2>3. QED
    BY <1>3, <2>1, <2>2
<1>6. CASE ResumeAtCheckpoint(r, t)
  <2>1. ckpt[r].at \in {"running", "asked", "finished"}
    BY <1>6 DEF ResumeAtCheckpoint, CheckpointExists, TypeOK, Checkpoint
  <2>2. QED
    BY <1>3, <1>6, <2>1 DEF ResumeAtCheckpoint, dbVars, recordVars, PC, Emitting, Untold
<1>7. CASE EmitConflict(r, t)
  BY <1>3, <1>7 DEF EmitConflict, dbVars, recordVars, PC, Emitting, Untold
<1>8. CASE EmitStarted(r, t) \/ UseTool(r, t)
  BY <1>4, <1>8 DEF EmitStarted, UseTool, recordVars, EventTypes
<1>9. CASE EmitAsk(r, t)
  BY <1>2, <1>4, <1>9 DEF EmitAsk, recordVars, EventTypes, PC, Untold
<1>10. CASE AskMessage(r, t) \/ SayMessage(r, t)
  BY <1>1, <1>10, MessageEndsEmit DEF AskMessage, SayMessage, recordVars
<1>11. CASE Say(r, t)
  <2>1. CASE AppendEvent(r, "assistant_message") /\ Goto(r, t, "sayMsg")
    BY <1>2, <1>4, <1>11, <2>1 DEF Say, recordVars, EventTypes, PC, Untold
  <2>2. CASE UNCHANGED log /\ Goto(r, t, "done")
    BY <1>3, <1>11, <2>2 DEF Say, recordVars, PC, Untold
  <2>3. QED
    BY <1>11, <2>1, <2>2 DEF Say
<1>12. CASE Complete(r, t) \/ Fail(r, t)
  <2>1. ASSUME NEW from \in PC \ Untold, NEW to \in PC, NEW status \in Status,
               EndRecord(r, t, from, status, to) \/ EndRow(r, t, from, status, to)
        PROVE  /\ r \in active' => r \in active
               /\ Len(log'[r]) >= Len(log[r])
               /\ Len(log'[r]) # Len(log[r]) \/ Telling(r) => EmitEnds(r) \/ Telling(r)'
    BY <1>3, <2>1 DEF EndRecord, EndRow, dbVars, recordVars
  <2>2. CASE EndEvent(r, t, "doneEmit", "run_completed", "doneOff")
             \/ EndEvent(r, t, "failEmit", "run_failed", "failOff")
    BY <1>4, <2>2 DEF EndEvent, recordVars, EventTypes
  <2>3. QED
    BY <1>12, <2>1, <2>2 DEF Complete, Fail, PC, Untold, Status, Terminal, Emitting
<1>13. QED
  BY <1>5, <1>6, <1>7, <1>8, <1>9, <1>10, <1>11, <1>12 DEF Worker

LEMMA NextOnRun ==
    ASSUME TypeOK, DownIsEmpty, Next, up', NEW r \in Runs, row[r].status # "absent",
           ~(request.run = r /\ request.pc = "spawn")
    PROVE  /\ row'[r].status # "absent"
           /\ ~(request'.run = r /\ request'.pc = "spawn")
           /\ r \in active' => r \in active
           /\ Len(log'[r]) >= Len(log[r])
           /\ Len(log'[r]) # Len(log[r]) \/ Telling(r) => EmitEnds(r) \/ Telling(r)'
<1>1. Len(log[r]) \in Nat
  BY DEF TypeOK
<1>2. ASSUME NEW t \in Threads, Worker(r, t)
      PROVE  row'[r].status # "absent" /\ request' = request
  <2>1. UNCHANGED request
    BY <1>2 DEF Worker, Boot, BootRow, EmitStarted, Enter, ResumeWithAnswer,
       ResumeAtCheckpoint, ResumeWithoutCheckpoint, UseTool, Interrupt, Finish, Raise,
       EmitConflict, Ask, AskRow, EmitAsk, AskMessage, TakeAnswer, Clear, ClearRow, Continue,
       Say, SayMessage, Complete, Fail, Deactivate, EndRecord, EndRow, EndEvent
  <2>2. QED
    BY <1>2, <2>1, RowStaysPresent
<1>3. CASE \E t \in Threads : Worker(r, t)
  BY <1>2, <1>3, WorkerTells
<1>4. ASSUME NEW s \in Runs \ {r}, NEW t \in Threads, Worker(s, t)
      PROVE  /\ row'[r] = row[r] /\ request' = request /\ log'[r] = log[r] /\ pc'[r] = pc[r]
             /\ (r \in active' <=> r \in active)
  BY <1>4, WorkerChangesOnlyItsRun, OtherLogs
<1>5. CASE CreateRun(r) \/ Clarify(r) \/ Handler(r)
  <2>1. ~CreateRun(r) /\ ~StartRun(r)
    BY DEF CreateRun, StartRun
  <2>2. CASE Clarify(r) \/ StoreAnswer(r) \/ HandAnswer(r)
    <3>1. UNCHANGED <<row, log, active, pc>>
      BY <2>2 DEF Clarify, StoreAnswer, HandAnswer, dbVars, recordVars, threadVars
    <3>2. row'[r].status # "absent" /\ Len(log'[r]) = Len(log[r]) /\ (Telling(r) => Telling(r)')
          /\ (r \in active' => r \in active)
      BY <3>1 DEF Telling
    <3>3. Clarify(r) \/ HandAnswer(r) => request'.pc # "spawn"
      <4>1. Clarify(r) => request' = [pc |-> "store", run |-> r, answer |-> View(r).ask]
        BY Zenon DEF Clarify
      <4>2. HandAnswer(r) => request' = NoRequest
        BY Zenon DEF HandAnswer
      <4>3. NoRequest.pc = "none"
        BY DEF NoRequest
      <4>4. QED
        BY <4>1, <4>2, <4>3
    <3>4. StoreAnswer(r) => request'.pc # "spawn"
      BY DEF StoreAnswer, TypeOK, Request
    <3>5. QED
      BY <1>1, <2>2, <3>2, <3>3, <3>4
  <2>3. CASE RouteInactive(r)
    <3>1. row'[r].status = "running" /\ request'.pc = "respawn"
      BY <2>3 DEF RouteInactive, WriteRow, TypeOK, Request
    <3>2. UNCHANGED <<log, active, pc>>
      BY <2>3 DEF RouteInactive, recordVars, threadVars
    <3>3. QED
      BY <1>1, <3>1, <3>2 DEF Telling
  <2>4. CASE Respawn(r)
    <3>1. UNCHANGED <<row, log, active>> /\ request'.pc # "spawn"
      BY <2>4 DEF Respawn, NoRequest, dbVars, recordVars
    <3>2. \A t \in Threads : pc'[r][t] = pc[r][t] \/ pc[r][t] = "idle"
      BY <2>4 DEF Respawn, Spawn, Goto, TypeOK
    <3>3. QED
      BY <1>1, <3>1, <3>2 DEF Telling, Untold
  <2>5. QED
    BY <1>5, <2>1, <2>2, <2>3, <2>4 DEF Handler
<1>6. ASSUME NEW s \in Runs \ {r}, CreateRun(s) \/ Clarify(s) \/ Handler(s)
      PROVE  /\ row'[r] = row[r] /\ log'[r] = log[r] /\ pc'[r] = pc[r]
             /\ (r \in active' <=> r \in active)
             /\ ~(request'.run = r /\ request'.pc = "spawn")
  <2>1. ElsewhereOrNone(request', r)
    BY <1>6, RequestIsElsewhere
  <2>2. QED
    BY <1>6, <2>1, RequestChangesOnlyItsRun, OtherLogs DEF ElsewhereOrNone
<1>7. CASE Restart
  <2>1. ~Telling(r)
    BY <1>7 DEF Restart, DownIsEmpty, NoThreads, Telling, Untold
  <2>2. UNCHANGED <<row, log, active, request>>
    BY <1>7 DEF Restart, dbVars, recordVars
  <2>3. QED
    BY <1>1, <2>1, <2>2
<1>8. ~Crash
  BY DEF Crash
<1>9. CASE /\ row'[r] = row[r] /\ log'[r] = log[r] /\ pc'[r] = pc[r]
           /\ (r \in active' <=> r \in active)
           /\ ~(request'.run = r /\ request'.pc = "spawn")
  BY <1>1, <1>9 DEF Telling
<1>10. QED
  BY <1>3, <1>4, <1>5, <1>6, <1>7, <1>8, <1>9 DEF Next

(* The readers. *)

\* The reader counts what it has received; it sleeps over a new event only while
\* the notification is in its queue or on its way.
ReaderInvariant(c) ==
    LET r == reader[c].run
    IN  reader[c].at # "off" =>
          /\ r \in Runs /\ row[r].status # "absent"
          /\ ~(request.run = r /\ request.pc = "spawn")
          /\ reader[c].next = Len(reader[c].got) /\ reader[c].next <= Len(log[r])
          /\ \A n \in 1 .. Len(reader[c].got) : reader[c].got[n] = n
          /\ /\ reader[c].at \in {"check", "wait"} /\ reader[c].own /\ r \in active
             /\ reader[c].next < Len(log[r])
             => reader[c].bell > 0 \/ Telling(r)

LEMMA SameReader ==
    ASSUME NEW d \in Readers, ReaderInvariant(d), reader'[d] = reader[d], UNCHANGED vars
    PROVE  ReaderInvariant(d)'
BY DEF ReaderInvariant, Telling, vars, dbVars, recordVars, threadVars

LEMMA Counted ==
    ASSUME NEW got \in Seq(Nat), NEW len \in Nat, Len(got) <= len,
           \A n \in 1 .. Len(got) : got[n] = n
    PROVE  LET all == got \o NewEvents(len, Len(got))
           IN  Len(all) = len /\ \A n \in 1 .. len : all[n] = n
<1>1. /\ NewEvents(len, Len(got)) \in Seq(Nat)
      /\ Len(NewEvents(len, Len(got))) = len - Len(got)
  <2>1. Len(got) \in Nat
    OBVIOUS
  <2>2. QED
    BY <2>1, NewEventsAre
<1>2. \A n \in 1 .. len - Len(got) : NewEvents(len, Len(got))[n] = Len(got) + n
  BY DEF NewEvents
<1> DEFINE fresh == NewEvents(len, Len(got))
<1> HIDE DEF fresh
<1>3. /\ fresh \in Seq(Nat) /\ Len(fresh) = len - Len(got)
      /\ \A n \in 1 .. len - Len(got) : fresh[n] = Len(got) + n
  BY <1>1, <1>2 DEF fresh
<1>4. Len(got \o fresh) = len
  BY <1>3
<1>5. ASSUME NEW n \in 1 .. len PROVE (got \o fresh)[n] = n
  <2>1. CASE n <= Len(got)
    BY <1>3, <2>1
  <2>2. CASE n > Len(got)
    <3>1. (got \o fresh)[n] = fresh[n - Len(got)] /\ n - Len(got) \in 1 .. len - Len(got)
      BY <1>3, <2>2
    <3>2. QED
      BY <1>3, <3>1
  <2>3. Len(got) \in Nat
    OBVIOUS
  <2>4. n <= Len(got) \/ n > Len(got)
    BY <1>5, <2>3
  <2>5. QED
    BY <2>1, <2>2, <2>4, Zenon
<1>6. QED
  BY <1>4, <1>5 DEF fresh

LEMMA ListKeeps ==
    ASSUME TypeOK, ReaderOK, NEW c \in Readers, ReaderInvariant(c), ListEvents(c),
           UNCHANGED vars
    PROVE  ReaderInvariant(c)'
<1> DEFINE r     == reader[c].run
           len   == Len(log[r])
           fresh == NewEvents(len, reader[c].next)
<1>1. reader[c].at = "list"
  BY DEF ListEvents
<1>2. /\ r \in Runs /\ row[r].status # "absent"
      /\ ~(request.run = r /\ request.pc = "spawn")
      /\ reader[c].next = Len(reader[c].got) /\ reader[c].next <= len
      /\ \A n \in 1 .. Len(reader[c].got) : reader[c].got[n] = n
  BY <1>1 DEF ReaderInvariant
<1>3. /\ reader'[c].got = reader[c].got \o fresh
      /\ reader'[c].next = IF fresh = << >> THEN reader[c].next ELSE len
      /\ reader'[c].at = "check" /\ reader'[c].run = r
  BY <1>2, ListedReader
<1>4. len \in Nat /\ reader[c].got \in Seq(Nat) /\ reader[c].next \in Nat
  BY <1>2 DEF TypeOK, ReaderOK, Reader
<1>5. fresh = NewEvents(len, Len(reader[c].got)) /\ (fresh = << >> <=> len <= reader[c].next)
  BY <1>2, <1>4, NewEventsAre
<1> HIDE DEF fresh
<1>6. Len(reader'[c].got) = len /\ \A n \in 1 .. len : reader'[c].got[n] = n
  <2> DEFINE got == reader[c].got
  <2>1. got \in Seq(Nat) /\ len \in Nat /\ Len(got) <= len /\ \A n \in 1 .. Len(got) : got[n] = n
    BY <1>2, <1>4
  <2>2. reader'[c].got = got \o NewEvents(len, Len(got))
    BY <1>3, <1>5
  <2> HIDE DEF got, len
  <2>3. QED
    BY <2>1, <2>2, Counted
<1>7. reader'[c].next = len
  BY <1>2, <1>3, <1>4, <1>5
<1>8. UNCHANGED <<row, log, request>>
  BY DEF vars, dbVars
<1>9. QED
  BY <1>2, <1>3, <1>4, <1>6, <1>7, <1>8 DEF ReaderInvariant

LEMMA StepKeeps ==
    ASSUME ReaderOK, NEW c \in Readers, ReaderInvariant(c),
           CheckTerminal(c) \/ Wake(c) \/ Timeout(c), UNCHANGED vars
    PROVE  ReaderInvariant(c)'
<1>1. UNCHANGED <<row, log, request, active, pc>>
  BY DEF vars, dbVars, recordVars, threadVars
<1>2. QED
  BY <1>1, SteppedReader DEF ReaderInvariant, Telling

LEMMA ConnectKeeps ==
    ASSUME TypeOK, ReaderOK, NEW c \in Readers, NEW r \in Runs, Connect(c, r), UNCHANGED vars
    PROVE  ReaderInvariant(c)'
<1>1. row[r].status # "absent" /\ ~(request.run = r /\ request.pc = "spawn")
  BY DEF Connect
<1>2. UNCHANGED <<row, log, request>> /\ Len(log[r]) \in Nat
  BY DEF vars, dbVars, TypeOK
<1>3. QED
  BY <1>1, <1>2, ConnectedReader DEF ReaderInvariant

LEMMA ServiceKeeps ==
    ASSUME TypeOK, TypeOK', DownIsEmpty, ReaderOK, NEW c \in Readers, ReaderInvariant(c),
           Next, Notify
    PROVE  ReaderInvariant(c)'
<1> SUFFICES ASSUME reader'[c].at # "off" PROVE ReaderInvariant(c)'
  BY DEF ReaderInvariant
<1> DEFINE r == reader[c].run
<1>1. /\ up' /\ reader'[c].at = reader[c].at /\ reader'[c].run = r
      /\ reader'[c].got = reader[c].got /\ reader'[c].next = reader[c].next
      /\ reader'[c].own = reader[c].own
      /\ reader'[c].bell \in {reader[c].bell, reader[c].bell + 1}
      /\ /\ reader[c].at \in {"list", "check", "wait"} /\ reader[c].own
         /\ r \in active /\ EmitEnds(r)
         => reader'[c].bell = reader[c].bell + 1
  BY NotifiedReader
<1>2. /\ r \in Runs /\ row[r].status # "absent"
      /\ ~(request.run = r /\ request.pc = "spawn")
      /\ reader[c].next = Len(reader[c].got) /\ reader[c].next <= Len(log[r])
      /\ \A n \in 1 .. Len(reader[c].got) : reader[c].got[n] = n
      /\ /\ reader[c].at \in {"check", "wait"} /\ reader[c].own /\ r \in active
         /\ reader[c].next < Len(log[r])
         => reader[c].bell > 0 \/ Telling(r)
  BY <1>1 DEF ReaderInvariant
<1>3. /\ row'[r].status # "absent"
      /\ ~(request'.run = r /\ request'.pc = "spawn")
      /\ r \in active' => r \in active
      /\ Len(log'[r]) >= Len(log[r])
      /\ Len(log'[r]) # Len(log[r]) \/ Telling(r) => EmitEnds(r) \/ Telling(r)'
  BY <1>1, <1>2, NextOnRun
<1>4. Len(log[r]) \in Nat /\ Len(log'[r]) \in Nat /\ reader[c].bell \in Nat /\ reader[c].next \in Nat
  BY <1>2 DEF TypeOK, ReaderOK, Reader
<1>5. ASSUME reader[c].at \in {"check", "wait"}, reader[c].own, r \in active',
             reader[c].next < Len(log'[r])
      PROVE  reader'[c].bell > 0 \/ Telling(r)'
  BY <1>1, <1>2, <1>3, <1>4, <1>5
<1>6. QED
  BY <1>1, <1>2, <1>3, <1>4, <1>5 DEF ReaderInvariant

LEMMA ReadersStep ==
    ASSUME TypeOK, TypeOK', DownIsEmpty, ReaderOK, \A c \in Readers : ReaderInvariant(c),
           [StreamNext]_allVars, NEW d \in Readers
    PROVE  reader' \in [Readers -> Reader] /\ ReaderInvariant(d)'
<1>1. ReaderInvariant(d)
  OBVIOUS
<1>2. CASE Next /\ Notify
  BY <1>1, <1>2, NotifiedReader, ServiceKeeps
<1>3. ASSUME NEW c \in Readers, ListEvents(c), UNCHANGED vars
      PROVE  reader' \in [Readers -> Reader] /\ ReaderInvariant(d)'
  <2>1. ReaderInvariant(c) /\ reader[c].run \in Runs
    BY <1>3 DEF ReaderInvariant, ListEvents
  <2>2. reader' \in [Readers -> Reader] /\ \A e \in Readers \ {c} : reader'[e] = reader[e]
    BY <1>3, <2>1, ListedReader
  <2>3. QED
    BY <1>1, <1>3, <2>1, <2>2, ListKeeps, SameReader
<1>4. ASSUME NEW c \in Readers, CheckTerminal(c) \/ Wake(c) \/ Timeout(c), UNCHANGED vars
      PROVE  reader' \in [Readers -> Reader] /\ ReaderInvariant(d)'
  <2>1. reader' \in [Readers -> Reader] /\ \A e \in Readers \ {c} : reader'[e] = reader[e]
    BY <1>4, SteppedReader
  <2>2. QED
    BY <1>1, <1>4, <2>1, StepKeeps, SameReader
<1>5. ASSUME NEW c \in Readers, NEW r \in Runs, Connect(c, r), UNCHANGED vars
      PROVE  reader' \in [Readers -> Reader] /\ ReaderInvariant(d)'
  <2>1. reader' \in [Readers -> Reader] /\ \A e \in Readers \ {c} : reader'[e] = reader[e]
    BY <1>5, ConnectedReader
  <2>2. QED
    BY <1>1, <1>5, <2>1, ConnectKeeps, SameReader
<1>6. ASSUME NEW c \in Readers, Disconnect(c), UNCHANGED vars
      PROVE  reader' \in [Readers -> Reader] /\ ReaderInvariant(d)'
  <2>1. reader' = [reader EXCEPT ![c] = Off]
    BY <1>6 DEF Disconnect
  <2>2. reader' \in [Readers -> Reader] /\ reader'[c].at = "off"
        /\ \A e \in Readers \ {c} : reader'[e] = reader[e]
    <3>1. Off.at = "off"
      BY DEF Off
    <3>2. QED
      BY <2>1, <3>1, OffIsReader DEF ReaderOK
  <2>3. QED
    BY <1>1, <1>6, <2>2, SameReader DEF ReaderInvariant
<1>7. CASE UNCHANGED allVars
  BY <1>1, <1>7, SameReader DEF allVars, streamVars, ReaderOK
<1>8. QED
  BY <1>2, <1>3, <1>4, <1>5, <1>6, <1>7 DEF StreamNext, ReaderStep

\* The run service keeps its own invariants under the streams.
LEMMA ServiceUnderStreams == StreamSafety => Safety
<1>1. StreamInit => Init
  BY DEF StreamInit
<1>2. [StreamNext]_allVars => [Next]_vars
  BY DEF StreamNext, allVars
<1>3. QED
  BY <1>1, <1>2, PTL DEF StreamSafety, Safety

LEMMA DownHolds == Safety => []DownIsEmpty
<1>1. Init => DownIsEmpty
  BY DEF Init, DownIsEmpty
<1>2. QED
  BY <1>1, DownStaysEmpty, TypeCorrect, PTL DEF Safety

ReadersHold == reader \in [Readers -> Reader] /\ \A c \in Readers : ReaderInvariant(c)

LEMMA ReadersInvariant == StreamSafety => []ReadersHold
<1>1. StreamInit => ReadersHold
  <2>1. Off.at = "off"
    BY DEF Off
  <2>2. QED
    BY <2>1, OffIsReader DEF StreamInit, ReadersHold, ReaderInvariant
<1>2. TypeOK /\ TypeOK' /\ DownIsEmpty /\ ReadersHold /\ [StreamNext]_allVars => ReadersHold'
  <2> SUFFICES ASSUME TypeOK, TypeOK', DownIsEmpty, ReadersHold, [StreamNext]_allVars
               PROVE  ReadersHold'
    OBVIOUS
  <2>1. ReaderOK /\ \A c \in Readers : ReaderInvariant(c)
    BY DEF ReaderOK, ReadersHold
  <2>2. \A d \in Readers : ReaderInvariant(d)'
    BY <2>1, ReadersStep
  <2>3. reader' \in [Readers -> Reader]
    <3>1. CASE Readers = {}
      BY <2>1, <3>1 DEF StreamNext, Notify, allVars, streamVars, ReaderOK
    <3>2. CASE Readers # {}
      BY <2>1, <3>2, ReadersStep
    <3>3. QED
      BY <3>1, <3>2
  <2>4. QED
    BY <2>2, <2>3 DEF ReadersHold
<1>3. QED
  BY <1>1, <1>2, ServiceUnderStreams, TypeCorrect, DownHolds, PTL DEF StreamSafety

(***************************************************************************)
(* What a client of the event stream has received is the log of the run    *)
(* from its first event on, whoever writes the log.                        *)
(***************************************************************************)
THEOREM StreamsArePrefixes == StreamSafety => []StreamIsPrefixOfLog
<1>1. ReadersHold => StreamIsPrefixOfLog
  BY DEF ReadersHold, ReaderInvariant, StreamIsPrefixOfLog
<1>2. QED
  BY <1>1, ReadersInvariant, PTL

(***************************************************************************)
(* A reader never sleeps over an event: whatever is appended between the   *)
(* list of events and the wait has put a notification into its queue, or   *)
(* the emit that does has not ended.                                       *)
(***************************************************************************)
THEOREM NoWakeupIsMissed == StreamSafety => []NoMissedWakeup
<1>1. ReadersHold => NoMissedWakeup
  BY DEF ReadersHold, ReaderInvariant, NoMissedWakeup, Telling, Untold
<1>2. QED
  BY <1>1, ReadersInvariant, PTL

(* The log of a run that has ended does not grow, so a late reader misses nothing. *)

LEMMA LogKeepsEvents ==
    ASSUME TypeOK, Next, NEW s \in Runs
    PROVE  Len(log'[s]) >= Len(log[s]) /\ \A n \in 1 .. Len(log[s]) : log'[s][n] = log[s][n]
<1>1. Len(log[s]) \in Nat
  BY DEF TypeOK
<1>2. ASSUME NEW r \in Runs, NEW type \in EventTypes, AppendEvent(r, type)
      PROVE  Len(log'[s]) >= Len(log[s]) /\ \A n \in 1 .. Len(log[s]) : log'[s][n] = log[s][n]
  <2>1. CASE s = r
    BY <1>1, <1>2, <2>1, EventAppended
  <2>2. CASE s # r
    BY <1>1, <1>2, <2>2 DEF AppendEvent, TypeOK
  <2>3. QED
    BY <2>1, <2>2
<1>3. CASE UNCHANGED log
  BY <1>1, <1>3
<1>4. ASSUME NEW r \in Runs, NEW t \in Threads, Worker(r, t)
      PROVE  UNCHANGED log \/ \E type \in EventTypes : AppendEvent(r, type)
  BY <1>4 DEF Worker, Boot, BootRow, EmitStarted, Enter, ResumeWithAnswer,
     ResumeAtCheckpoint, ResumeWithoutCheckpoint, UseTool, Interrupt, Finish, Raise,
     EmitConflict, Ask, AskRow, EmitAsk, AskMessage, TakeAnswer, Clear, ClearRow, Continue,
     Say, SayMessage, Complete, Fail, Deactivate, EndRecord, EndRow, EndEvent, EventTypes, dbVars
<1>5. ASSUME NEW r \in Runs, CreateRun(r) \/ Clarify(r) \/ Handler(r) PROVE UNCHANGED log
  BY <1>5 DEF CreateRun, Clarify, Handler, StartRun, StoreAnswer, HandAnswer, RouteInactive,
     Respawn, dbVars
<1>6. Crash \/ Restart => UNCHANGED log
  BY DEF Crash, Restart, dbVars
<1>7. QED
  BY <1>2, <1>3, <1>4, <1>5, <1>6 DEF Next

LEMMA EndedLogStays ==
    ASSUME TypeOK, TypeOK', Next, NEW s \in Runs, LogInvariant(s)', HasEnded(s)
    PROVE  Len(log'[s]) = Len(log[s]) /\ HasEnded(s)'
<1>1. PICK n \in 1 .. Len(log[s]) : log[s][n] \in EndEvents
  BY DEF HasEnded, EndEvents
<1>2. Len(log[s]) \in Nat /\ Len(log'[s]) \in Nat
  BY DEF TypeOK
<1>3. n \in 1 .. Len(log'[s]) /\ log'[s][n] \in EndEvents
  BY <1>1, <1>2, LogKeepsEvents
<1>4. n = Len(log'[s])
  BY <1>3 DEF LogInvariant
<1>5. QED
  BY <1>1, <1>2, <1>3, <1>4, LogKeepsEvents DEF HasEnded, EndEvents

LateInvariant(c) ==
    reader[c].at # "off" /\ reader[c].late =>
        /\ HasEnded(reader[c].run)
        /\ reader[c].at # "list" => reader[c].next = Len(log[reader[c].run])

LEMMA SameLate ==
    ASSUME NEW d \in Readers, LateInvariant(d), reader'[d] = reader[d], UNCHANGED vars
    PROVE  LateInvariant(d)'
BY DEF LateInvariant, HasEnded, vars, dbVars

LEMMA LateStep ==
    ASSUME TypeOK, TypeOK', ReaderOK, \A r \in Runs : LogInvariant(r)',
           \A c \in Readers : ReaderInvariant(c) /\ LateInvariant(c),
           [StreamNext]_allVars, NEW d \in Readers
    PROVE  LateInvariant(d)'
<1>1. LateInvariant(d) /\ ReaderInvariant(d)
  OBVIOUS
<1>2. CASE Next /\ Notify
  <2> SUFFICES ASSUME reader'[d].at # "off", reader'[d].late PROVE LateInvariant(d)'
    BY DEF LateInvariant
  <2>1. /\ reader'[d].at = reader[d].at /\ reader'[d].run = reader[d].run
        /\ reader'[d].next = reader[d].next /\ reader'[d].late = reader[d].late
    BY <1>2, NotifiedReader
  <2>2. reader[d].run \in Runs /\ HasEnded(reader[d].run)
    BY <1>1, <2>1 DEF LateInvariant, ReaderInvariant
  <2>3. Len(log'[reader[d].run]) = Len(log[reader[d].run]) /\ HasEnded(reader[d].run)'
    <3> DEFINE s == reader[d].run
    <3>1. s \in Runs /\ HasEnded(s) /\ LogInvariant(s)'
      BY <2>2, <2>1
    <3>2. QED
      BY <1>2, <2>1, <3>1, EndedLogStays
  <2>4. QED
    BY <1>1, <2>1, <2>3 DEF LateInvariant
<1>3. ASSUME NEW c \in Readers, ListEvents(c), UNCHANGED vars PROVE LateInvariant(d)'
  <2>1. ReaderInvariant(c) /\ LateInvariant(c) /\ reader[c].at = "list"
    BY <1>3 DEF ListEvents
  <2>2. reader[c].run \in Runs /\ reader[c].next <= Len(log[reader[c].run])
    BY <2>1 DEF ReaderInvariant
  <2>3. Len(log[reader[c].run]) \in Nat /\ reader[c].next \in Nat
    BY <2>2 DEF TypeOK, ReaderOK, Reader
  <2> DEFINE len   == Len(log[reader[c].run])
             fresh == NewEvents(len, reader[c].next)
  <2>4. /\ reader'[c].next = IF fresh = << >> THEN reader[c].next ELSE len
        /\ reader'[c].run = reader[c].run /\ reader'[c].late = reader[c].late
        /\ \A e \in Readers \ {c} : reader'[e] = reader[e]
    BY <1>3, <2>2, ListedReader
  <2>5. fresh = << >> <=> len <= reader[c].next
    BY <2>3, NewEventsAre
  <2> HIDE DEF fresh
  <2>6. reader'[c].next = len
    BY <2>2, <2>3, <2>4, <2>5
  <2>7. UNCHANGED log
    BY <1>3 DEF vars, dbVars
  <2>8. LateInvariant(c)'
    BY <2>1, <2>4, <2>6, <2>7 DEF LateInvariant, HasEnded
  <2>9. QED
    BY <1>1, <1>3, <2>4, <2>8, SameLate
<1>4. ASSUME NEW c \in Readers, CheckTerminal(c) \/ Wake(c) \/ Timeout(c), UNCHANGED vars
      PROVE  LateInvariant(d)'
  <2>1. UNCHANGED log /\ LateInvariant(c)
    BY <1>4 DEF vars, dbVars
  <2>2. LateInvariant(c)'
    BY <1>4, <2>1, SteppedReader DEF LateInvariant, HasEnded
  <2>3. QED
    BY <1>1, <1>4, <2>2, SteppedReader, SameLate
<1>5. ASSUME NEW c \in Readers, NEW r \in Runs, Connect(c, r), UNCHANGED vars
      PROVE  LateInvariant(d)'
  <2>1. UNCHANGED log
    BY <1>5 DEF vars, dbVars
  <2>2. LateInvariant(c)'
    BY <1>5, <2>1, ConnectedReader DEF LateInvariant, HasEnded
  <2>3. QED
    BY <1>1, <1>5, <2>2, ConnectedReader, SameLate
<1>6. ASSUME NEW c \in Readers, Disconnect(c), UNCHANGED vars PROVE LateInvariant(d)'
  <2>1. reader' = [reader EXCEPT ![c] = Off] /\ Off.at = "off"
    BY <1>6 DEF Disconnect, Off
  <2>2. reader'[c].at = "off" /\ \A e \in Readers \ {c} : reader'[e] = reader[e]
    BY <2>1 DEF ReaderOK
  <2>3. QED
    BY <1>1, <1>6, <2>2, SameLate DEF LateInvariant
<1>7. CASE UNCHANGED allVars
  BY <1>1, <1>7, SameLate DEF allVars, streamVars
<1>8. QED
  BY <1>2, <1>3, <1>4, <1>5, <1>6, <1>7 DEF StreamNext, ReaderStep

LateHold == \A c \in Readers : LateInvariant(c)

(***************************************************************************)
(* A client that connects after the run has ended, to see the page of a    *)
(* finished run, gets every event before its stream is closed.             *)
(***************************************************************************)
THEOREM LateReadersGetTheLog ==
    ASSUME Client = "chat" PROVE StreamSafety => []LateReaderGetsWholeLog
<1>1. StreamInit => LateHold
  <2>1. Off.at = "off"
    BY DEF Off
  <2>2. QED
    BY <2>1 DEF StreamInit, LateHold, LateInvariant
<1>2. TypeOK /\ TypeOK' /\ ReadersHold /\ LogsInvariant' /\ LateHold /\ [StreamNext]_allVars => LateHold'
  BY LateStep DEF ReadersHold, ReaderOK, LogsInvariant, LateHold
<1>3. ReadersHold /\ LateHold => LateReaderGetsWholeLog
  BY DEF ReadersHold, ReaderInvariant, LateHold, LateInvariant, LateReaderGetsWholeLog
<1>4. QED
  BY <1>1, <1>2, <1>3, LogsHold, ReadersInvariant, ServiceUnderStreams, TypeCorrect, PTL
  DEF StreamSafety
=============================================================================
