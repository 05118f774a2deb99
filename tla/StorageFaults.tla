---------------------------- MODULE StorageFaults ---------------------------
(***************************************************************************)
(* The run service with a database that may refuse any transaction: a lock *)
(* that is not granted in time, a lost connection.  The transaction is     *)
(* rolled back and the call raises.  In a worker thread the except clause  *)
(* of run_agent_request then runs fail; when fail raises as well the       *)
(* thread is gone.  In a handler the client gets a 500.                    *)
(*                                                                         *)
(* What a thread changed in memory before the call stays changed: that is  *)
(* what makes the record, the row and the log disagree.                    *)
(***************************************************************************)
EXTENDS AgentRuns

CONSTANT MaxFaults      \* bound: transactions that fail

ASSUME FaultsAssumption == MaxFaults \in Nat

VARIABLES
    faults,     \* auxiliary: transactions that have failed
    lost        \* auxiliary: runs whose fail raised in this process lifetime

faultVars == <<vars, faults, lost>>

\* Steps of a thread that are a transaction, and those that begin with require,
\* which reads the row of a run that is not active.
Writing == {"bootRow", "started", "askRow", "askEmit", "askMsg", "clearRow", "say",
            "sayMsg", "doneRow", "doneEmit", "failRow", "failEmit"}
Reading == {"boot", "ask", "clear", "done", "fail"}

InFail == {"fail", "failRow", "failEmit"}

UsesDatabase(r, t) ==
    \/ pc[r][t] \in Writing
    \/ pc[r][t] \in Reading /\ r \notin active

Refuse ==
    /\ faults < MaxFaults
    /\ faults' = faults + 1

\* Faulty: no except clause.
ThreadDies(r, t) ==
    /\ UsesDatabase(r, t)
    /\ pc[r][t] \notin InFail
    /\ Refuse
    /\ Goto(r, t, "idle")
    /\ UNCHANGED <<dbVars, ckpt, recordVars, task, request, up, auxVars, lost>>

\* The exception reaches the except clause of run_agent_request.
ThreadRaises(r, t) ==
    /\ UsesDatabase(r, t)
    /\ pc[r][t] \notin InFail
    /\ Refuse
    /\ Goto(r, t, "fail")
    /\ UNCHANGED <<dbVars, ckpt, recordVars, task, request, up, auxVars, lost>>

\* fail itself raises: the thread ends, the record stays where it is.
FailRaises(r, t) ==
    /\ UsesDatabase(r, t)
    /\ pc[r][t] \in InFail
    /\ Refuse
    /\ Goto(r, t, "idle")
    /\ lost' = lost \cup {r}
    /\ UNCHANGED <<dbVars, ckpt, recordVars, task, request, up, auxVars>>

\* create rolls back both inserts: nothing is left of the request.  In clarify_run
\* storing the answer fails, or clearing the question of an inactive run does; the
\* client is told and has its question unanswered again.
HandlerRaises(r) ==
    /\ request.run = r
    /\ \/ request.pc = "store"
       \/ request.pc = "route" /\ r \notin active
    /\ Refuse
    /\ request' = NoRequest
    /\ replied' = [replied EXCEPT ![r] = IF @ = 0 THEN 0 ELSE @ - 1]
    /\ UNCHANGED <<dbVars, ckpt, recordVars, threadVars, up, shown, used, crashes, lost>>

Fault ==
    \E r \in Runs : HandlerRaises(r) \/ \E t \in Threads : ThreadRaises(r, t) \/ FailRaises(r, t)

\* What is lost is lost until the process dies.
NoFault == Next /\ UNCHANGED faults /\ lost' = IF up' THEN lost ELSE {}

FaultsInit == Init /\ faults = 0 /\ lost = {}

\* As Fairness of AgentRuns; nothing obliges the database to fail.
FaultsFairness ==
    /\ \A r \in Runs : WF_faultVars(Handler(r) /\ UNCHANGED <<faults, lost>>)
    /\ \A r \in Runs, t \in Threads : WF_faultVars(Worker(r, t) /\ UNCHANGED <<faults, lost>>)
    /\ WF_faultVars(Restart /\ UNCHANGED <<faults, lost>>)

FaultsSafety == FaultsInit /\ [][NoFault \/ Fault]_faultVars
FaultsSpec   == FaultsSafety /\ FaultsFairness
-----------------------------------------------------------------------------
(***************************************************************************)
(* Only a run whose fail raised is left open with nobody to end it: any    *)
(* other exception, at whatever step, is turned into an ended run.         *)
(***************************************************************************)
OpenRunIsDrivenOrLost ==
    \A r \in Runs :
        up /\ row[r].status \in Open /\ r \notin lost =>
            Starting(r) \/ \E t \in Threads : Driving(r, t)

AtRest(r) ==
    /\ up
    /\ request.run # r
    /\ \A t \in Threads : pc[r][t] \in {"idle", "wait"}

(***************************************************************************)
(* GET /runs/{id} serves the record, the list of active runs the row: once *)
(* the threads of a run have come to rest both tell the same status, for   *)
(* all the transactions that failed in between.                            *)
(***************************************************************************)
StatusesAgreeAtRest ==
    \A r \in Runs : AtRest(r) /\ r \notin lost => View(r).status = row[r].status

(***************************************************************************)
(* The reason for StatusesAgreeAtRest: a run that is active has one thread *)
(* until that is lost, and at each step of it the record and the row say   *)
(* what complete, fail and the two writes of a question left there.        *)
(***************************************************************************)
BothSay(r, status)   == mem[r].status = status /\ row[r].status = status
RecordSays(r, status) == mem[r].status = status

StatusesAtStep(r, t) ==
    /\ pc[r][t] = "boot" => BothSay(r, "queued")
    /\ pc[r][t] \in {"started", "enter", "resume", "graph", "ask", "answer", "say", "sayMsg",
                     "done"} => BothSay(r, "running")
    /\ pc[r][t] \in {"askEmit", "askMsg", "wait", "clear"} => BothSay(r, "waiting")
    /\ pc[r][t] \in {"doneEmit", "doneOff"} => BothSay(r, "completed")
    /\ pc[r][t] \in {"failEmit", "failOff"} => BothSay(r, "failed")
    /\ pc[r][t] \in {"bootRow", "clearRow"} => RecordSays(r, "running")
    /\ pc[r][t] = "askRow"  => RecordSays(r, "waiting")
    /\ pc[r][t] = "doneRow" => RecordSays(r, "completed")
    /\ pc[r][t] = "failRow" => RecordSays(r, "failed")

NoThreadOf(r) == \A t \in Threads : pc[r][t] = "idle"

RecordInvariant(r) ==
    /\ r \in active =>
         /\ \A t, u \in Threads : pc[r][t] # "idle" /\ pc[r][u] # "idle" => t = u
         /\ \A t \in Threads : StatusesAtStep(r, t)
         /\ NoThreadOf(r) => r \in lost
         /\ ~Starting(r)
    /\ request.run = r /\ request.pc = "spawn" =>
         NoThreadOf(r) /\ r \notin active /\ row[r].status = "queued"
    /\ row[r].status = "absent" => NoThreadOf(r) /\ r \notin active /\ ~Starting(r)

RecordsInvariant == \A r \in Runs : RecordInvariant(r)

(***************************************************************************)
(* A run that is over is never shown as open again, and one that failed    *)
(* stays failed: complete may be followed by fail, and nothing else.       *)
(***************************************************************************)
EndedStaysEnded ==
    [][\A r \in Runs :
          /\ row[r].status = "failed" => row'[r].status = "failed"
          /\ row[r].status = "completed" => row'[r].status \in Terminal]_faultVars

(***************************************************************************)
(* An open run comes to wait for its user or ends, or it is lost.          *)
(***************************************************************************)
OpenRunsProgressOrAreLost ==
    \A r \in Runs : row[r].status \in Open ~> row[r].status \notin Open \/ r \in lost

(***************************************************************************)
(* A restart mends what was lost: with the database back, every run that   *)
(* was open when the process died comes to wait for its user or ends.      *)
(***************************************************************************)
RestartMends ==
    \A r \in Runs :
        ~up /\ row[r].status \in Open /\ faults = MaxFaults ~> row[r].status \notin Open
=============================================================================
