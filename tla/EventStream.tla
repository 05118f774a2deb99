---------------------------- MODULE EventStream -----------------------------
(***************************************************************************)
(* PersistentRunStore.stream composed with the run service: SSE readers    *)
(* that replay and then follow the event log of a run while the worker     *)
(* threads append to it.  A reader loops over three steps with an await    *)
(* between them: list the new events, ask whether the run has ended, wait  *)
(* for a notification for at most 15 seconds.                              *)
(***************************************************************************)
EXTENDS AgentRuns

CONSTANTS
    Readers,        \* connections of SSE clients
    MaxConnects     \* bound: connections made

ASSUME ReadersAssumption == MaxConnects \in Nat

VARIABLES
    reader,         \* reader[c]: the generator behind connection c
    connects        \* auxiliary: connections made so far

streamVars == <<reader, connects>>
allVars    == <<vars, streamVars>>

Reader == [at : {"off", "list", "check", "wait", "closed"},
           run : Runs \cup {"none"},
           got : Seq(Nat),          \* seq of the events sent, in order
           next : Nat,              \* next_index
           own : BOOLEAN,           \* its subscriber list is the active record's
           bell : Nat,              \* notifications in its queue
           late : BOOLEAN]          \* auxiliary: connected after the last event

Off == [at |-> "off", run |-> "none", got |-> << >>, next |-> 0,
        own |-> FALSE, bell |-> 0, late |-> FALSE]

StreamTypeOK ==
    /\ TypeOK
    /\ reader \in [Readers -> Reader]
    /\ connects \in 0 .. MaxConnects

HasEnded(r) == \E n \in 1 .. Len(log[r]) : log[r][n] \in {"run_completed", "run_failed"}

\* Faulty: the first look at the log is left out.
ConnectWithoutReplay(c, r) ==
    /\ up
    /\ connects < MaxConnects
    /\ reader[c].at = "off"
    /\ row[r].status # "absent"
    /\ request.run # r \/ request.pc # "spawn"
    /\ reader' = [reader EXCEPT ![c] =
                    [Off EXCEPT !.at = "check", !.run = r,
                                !.own = r \in active, !.late = HasEnded(r)]]
    /\ connects' = connects + 1

\* stream_events: require, and subscribe under the record's lock.
Connect(c, r) ==
    /\ up
    /\ connects < MaxConnects
    /\ reader[c].at = "off"
    /\ row[r].status # "absent"
    /\ request.run # r \/ request.pc # "spawn"       \* the id is not known yet
    /\ reader' = [reader EXCEPT ![c] =
                    [Off EXCEPT !.at = "list", !.run = r,
                                !.own = r \in active, !.late = HasEnded(r)]]
    /\ connects' = connects + 1

\* Faulty: seq >= after_seq, so the last event sent is sent again.
ListEventsAgain(c) ==
    LET first == IF reader[c].next = 0 THEN 1 ELSE reader[c].next
        fresh == [n \in 1 .. Len(log[reader[c].run]) - first + 1 |-> first + n - 1]
    IN  /\ reader[c].at = "list"
        /\ reader' = [reader EXCEPT
                        ![c].got = @ \o fresh,
                        ![c].next = IF fresh = << >> THEN @ ELSE fresh[Len(fresh)],
                        ![c].at = "check"]
        /\ UNCHANGED connects

\* list_events(after_seq = next_index), and one SSE message for each event.
ListEvents(c) ==
    LET fresh == [n \in 1 .. Len(log[reader[c].run]) - reader[c].next |-> reader[c].next + n]
    IN  /\ reader[c].at = "list"
        /\ reader' = [reader EXCEPT
                        ![c].got = @ \o fresh,
                        ![c].next = IF fresh = << >> THEN @ ELSE fresh[Len(fresh)],
                        ![c].at = "check"]
        /\ UNCHANGED connects

\* is_terminal(request_id), from the database.
CheckTerminal(c) ==
    /\ reader[c].at = "check"
    /\ reader' = [reader EXCEPT ![c].at =
                    IF row[reader[c].run].status \in Terminal THEN "closed" ELSE "wait"]
    /\ UNCHANGED connects

Wake(c) ==                          \* subscriber.get() returns
    /\ reader[c].at = "wait"
    /\ reader[c].bell > 0
    /\ reader' = [reader EXCEPT ![c].at = "list", ![c].bell = @ - 1]
    /\ UNCHANGED connects

\* Faulty: after the heartbeat the reader waits again.
TimeoutAndWait(c) ==
    /\ reader[c].at = "wait"
    /\ reader[c].bell = 0
    /\ UNCHANGED streamVars

Timeout(c) ==                       \* 15 seconds pass: a heartbeat, not stored
    /\ reader[c].at = "wait"
    /\ reader[c].bell = 0
    /\ reader' = [reader EXCEPT ![c].at = "list"]
    /\ UNCHANGED connects

Disconnect(c) ==                    \* the client leaves; finally: unsubscribe
    /\ reader[c].at # "off"
    /\ reader' = [reader EXCEPT ![c] = Off]
    /\ UNCHANGED connects

ReaderStep(c) == ListEvents(c) \/ CheckTerminal(c) \/ Wake(c) \/ Timeout(c)

Grew(before, after) == Len(after) # Len(before)
LastOf(s) == s[Len(s)]

\* The step ends an emit: events with a chat message notify after the message.
EmitEnds(r) ==
    \/ /\ Grew(log[r], log'[r])
       /\ LastOf(log'[r]) \notin {"clarification_required", "assistant_message"}
    \/ /\ Grew(chat[r], chat'[r])
       /\ LastOf(chat'[r]) \in {"question", "reply"}

\* Faulty: only the readers that sleep are notified.
NotifySleepers ==
    reader' = [c \in Readers |->
                 IF ~up' THEN Off
                 ELSE IF /\ reader[c].at = "wait"
                         /\ reader[c].own
                         /\ reader[c].run \in active
                         /\ EmitEnds(reader[c].run)
                      THEN [reader[c] EXCEPT !.bell = @ + 1]
                      ELSE reader[c]]

\* emit notifies the subscribers of require(r): those of the active record.
Notify ==
    reader' = [c \in Readers |->
                 IF ~up' THEN Off
                 ELSE IF /\ reader[c].at \in {"list", "check", "wait"}
                         /\ reader[c].own
                         /\ reader[c].run \in active
                         /\ EmitEnds(reader[c].run)
                      THEN [reader[c] EXCEPT !.bell = @ + 1]
                      ELSE reader[c]]
-----------------------------------------------------------------------------
StreamInit == Init /\ reader = [c \in Readers |-> Off] /\ connects = 0

StreamNext ==
    \/ Next /\ Notify /\ UNCHANGED connects
    \/ /\ UNCHANGED vars
       /\ \E c \in Readers :
            ReaderStep(c) \/ Disconnect(c) \/ \E r \in Runs : Connect(c, r)

StreamFairness ==
    /\ \A r \in Runs : WF_allVars(Handler(r) /\ Notify /\ UNCHANGED connects)
    /\ \A r \in Runs, t \in Threads :
         WF_allVars(Worker(r, t) /\ Notify /\ UNCHANGED connects)
    /\ WF_allVars(Restart /\ Notify /\ UNCHANGED connects)
    /\ \A c \in Readers : WF_allVars(ReaderStep(c) /\ UNCHANGED vars)

StreamSafety == StreamInit /\ [][StreamNext]_allVars
StreamSpec   == StreamSafety /\ StreamFairness
-----------------------------------------------------------------------------
Connected(c) == reader[c].at \in {"list", "check", "wait"}

(***************************************************************************)
(* A reader has received the log of its run from the first event on, in    *)
(* order, without a gap and without a repetition, and nothing more.        *)
(***************************************************************************)
StreamIsPrefixOfLog ==
    \A c \in Readers :
        reader[c].at # "off" =>
            /\ Len(reader[c].got) <= Len(log[reader[c].run])
            /\ \A n \in 1 .. Len(reader[c].got) : reader[c].got[n] = n

(***************************************************************************)
(* No lost wake-up: while a reader of an active run sleeps and the log has *)
(* an event it has not seen, a notification is in its queue or the emit of *)
(* that event has not finished.                                            *)
(***************************************************************************)
NoMissedWakeup ==
    \A c \in Readers :
        /\ reader[c].at = "wait"
        /\ reader[c].own
        /\ reader[c].run \in active
        /\ reader[c].next < Len(log[reader[c].run])
        => \/ reader[c].bell > 0
           \/ \E t \in Threads : pc[reader[c].run][t] \in {"askMsg", "sayMsg"}

(***************************************************************************)
(* A stream opened after the run's terminal event, the reconnect of        *)
(* test_api_events_keep_tool_call_descriptions_after_reconnect, is closed  *)
(* only when it has replayed the whole log.                                *)
(***************************************************************************)
LateReaderGetsWholeLog ==
    \A c \in Readers :
        reader[c].at = "closed" /\ reader[c].late =>
            Len(reader[c].got) = Len(log[reader[c].run])

(***************************************************************************)
(* The stream of a run that has ended ends the response with the terminal  *)
(* event: the last event the client receives is run_completed (run_failed) *)
(* as tests/test_api.py expects of events[-1].                             *)
(***************************************************************************)
ClosedStreamEndsWithTerminalEvent ==
    \A c \in Readers :
        reader[c].at = "closed" =>
            /\ reader[c].got # << >>
            /\ log[reader[c].run][LastOf(reader[c].got)] \in {"run_completed", "run_failed"}

(***************************************************************************)
(* Every stored event reaches a reader that stays, or its stream is closed.*)
(***************************************************************************)
EventsReachReaders ==
    \A c \in Readers, r \in Runs : \A n \in 1 .. MaxLog + 4 :
        Connected(c) /\ reader[c].run = r /\ Len(log[r]) >= n
            ~> Len(reader[c].got) >= n \/ ~Connected(c)

(***************************************************************************)
(* The stream of a run that ends is closed: no reader waits forever for a  *)
(* run that is over.                                                       *)
(***************************************************************************)
StreamsOfEndedRunsClose ==
    \A c \in Readers, r \in Runs :
        Connected(c) /\ reader[c].run = r /\ row[r].status \in Terminal
            ~> ~Connected(c)
=============================================================================
