--------------------------- MODULE CheckLifecycle ---------------------------
(***************************************************************************)
(* The life of SOP quality checks: the start_check requests that create or *)
(* join them (app/services/sop_quality.py), the background runners that    *)
(* execute them (app/services/sop_quality_runner.py), the startup hook     *)
(* that interrupts what a dead process left behind (app/main.py), and the  *)
(* tables they share (app/repositories/sop_quality_checks.py).             *)
(*                                                                         *)
(* The variables of the tables hold COMMITTED rows.  What a transaction    *)
(* has written and not committed is known to its actor only; an actor that *)
(* dies loses it.  A row lock is held from the statement that takes it     *)
(* (SELECT ... FOR UPDATE, or the flushed UPDATE) to the commit, so a      *)
(* transaction is a step that takes the lock and a step that commits.      *)
(***************************************************************************)
EXTENDS Naturals, Sequences

CONSTANTS
    Procs,      \* service processes, each with its own lifespan hook
    Requests,   \* start_check calls
    Checks,     \* check ids (uuid4), each with its runtime session
    Subjects,   \* pairs (sop_id, env_key) of configured environments
    None,       \* no check, no process, no subject
    Faults,     \* the failures the environment may produce
    NodeCount,  \* nodes of the graph; graph.py chains four of them
    MaxCrashes  \* bound on the number of process crashes

ASSUME NoneAssumption  == None \notin Checks /\ None \notin Procs
ASSUME FaultAssumption == Faults \subseteq {"open", "close", "graph", "db"}
ASSUME NodeAssumption  == NodeCount \in Nat \ {0}
ASSUME CrashAssumption == MaxCrashes \in Nat

VARIABLES
    status,     \* sop_quality_checks.status, "absent" while no row is committed
    subject,    \* sop_quality_checks.(sop_id, env_key)
    session,    \* sessions.status of the check's runtime session
    events,     \* sop_quality_events of the check in commit order
    msgs,       \* number of step messages of the session
    req,        \* local state of each start_check call
    runner,     \* local state of the background task of each check
    proc,       \* state of each process
    todo,       \* checks a starting process has selected to interrupt
    bootSeq,    \* event sequence it computed for a check whose row it locked
    crashes     \* crashes so far

tables == <<status, subject, session, events, msgs>>
boot   == <<proc, todo, bootSeq, crashes>>
vars   == <<tables, req, runner, boot>>

-----------------------------------------------------------------------------
(* Data *)

ActiveStatuses   == {"pending", "running"}
TerminalStatuses == {"succeeded", "failed", "interrupted"}
Statuses         == {"absent"} \cup ActiveStatuses \cup TerminalStatuses
SessionStatuses  == {"absent", "active", "completed", "failed"}
TerminalEvents   == {"completed", "failed", "interrupted"}
EventTypes       == {"created", "started", "checkpoint"} \cup TerminalEvents
Event            == [seq : Nat, type : EventTypes]

ReqPcs == {"idle", "creating", "inserting", "inserted", "conflict",
           "committed", "created", "joined", "error"}

ReqState == [pc : ReqPcs, proc : Procs, subj : Subjects, check : Checks \cup {None}]

\* A request that has answered, or failed.
ReqDone == {"created", "joined", "error"}

\* "none": not scheduled; "killed": lost with its process; "dead": ended by a
\* database error that _mark_failed could not record.
RunPcs == {"none", "scheduled", "opened", "starting", "graph", "checkpoint",
           "checkpointing", "finishing", "failing", "deciding", "finalizing",
           "closing", "done", "killed", "dead"}

\* A task that takes no more steps.
RunDone == {"done", "killed", "dead"}

\* The runner holds the lock on its check's row in these states.
LockedPcs == {"starting", "checkpointing", "finalizing"}

Outcomes == {"succeeded", "failed"}
Handlers == {"inner", "outer"}

\* proc: the process that runs the task; seq: the event sequence computed under
\* the row lock; seen: the status mark_terminal has read; outcome: the status it
\* is to write; handler: the try block that is left next, run_sop_quality_check's
\* own or the one around the checkpointer's context.
RunState == [pc : RunPcs, proc : Procs \cup {None}, seen : Statuses,
             outcome : Outcomes, seq : Nat, handler : Handlers]

NewRunner == [pc |-> "none", proc |-> None, seen |-> "absent",
              outcome |-> "failed", seq |-> 0, handler |-> "inner"]

Active(c) == status[c] \in ActiveStatuses

\* get_active_check: the committed active rows of a subject.
ActiveFor(s) == {c \in Checks : Active(c) /\ subject[c] = s}

\* No transaction holds the lock on the row of c.
RowFree(c) == /\ runner[c].pc \notin LockedPcs
              /\ \A p \in Procs : bootSeq[p][c] = 0

\* _next_sequence reads the maximum once the row is locked.
NextSequence(c) == Len(events[c]) + 1

\* Mutant: the status is used as the name of the event.
TerminalEventIsStatus(outcome) == outcome

TerminalEvent(outcome) == IF outcome = "succeeded" THEN "completed" ELSE "failed"

\* Mutant: _mark_failed forgets the session.
SessionStatusKept(outcome) == IF outcome = "succeeded" THEN "completed" ELSE "active"

SessionStatus(outcome) == IF outcome = "succeeded" THEN "completed" ELSE "failed"

Init ==
    /\ status  = [c \in Checks |-> "absent"]
    /\ subject = [c \in Checks |-> None]
    /\ session = [c \in Checks |-> "absent"]
    /\ events  = [c \in Checks |-> <<>>]
    /\ msgs    = [c \in Checks |-> 0]
    /\ req \in [Requests -> [pc : {"idle"}, proc : Procs, subj : Subjects,
                             check : {None}]]
    /\ runner  = [c \in Checks |-> NewRunner]
    /\ proc    = [p \in Procs |-> "down"]
    /\ todo    = [p \in Procs |-> {}]
    /\ bootSeq = [p \in Procs |-> [c \in Checks |-> 0]]
    /\ crashes = 0

-----------------------------------------------------------------------------
(* start_check: join the active check of the subject or create one *)

ReqStep(r, from, to, c) ==
    /\ req[r].pc = from
    /\ req' = [req EXCEPT ![r].pc = to, ![r].check = c]

\* get_active_check has found a check: answer with it, created = FALSE.  The
\* session row that may have been flushed is rolled back with the request.
JoinOrGoOn(r, from, to) ==
    \/ \E c \in ActiveFor(req[r].subj) : ReqStep(r, from, "joined", c)
    \/ ActiveFor(req[r].subj) = {} /\ ReqStep(r, from, to, None)

Lookup(r) ==
    /\ proc[req[r].proc] = "up"
    /\ JoinOrGoOn(r, "idle", "creating")
    /\ UNCHANGED <<tables, runner, boot>>

\* create_session, then create_check looks for an active check once more.
Recheck(r) ==
    /\ JoinOrGoOn(r, "creating", "inserting")
    /\ UNCHANGED <<tables, runner, boot>>

\* The flushed INSERT of another request for the subject, not committed yet:
\* the partial unique index makes a second INSERT wait for its outcome.
InsertInFlight(s) ==
    \E q \in Requests : req[q].pc = "inserted" /\ req[q].subj = s

\* A uuid4 no row and no uncommitted INSERT has.
Fresh(c) == /\ status[c] = "absent"
            /\ \A q \in Requests : req[q].check # c

\* Mutant: the index does not wait for an uncommitted INSERT.
InsertCheckUnindexed(r) ==
    /\ ActiveFor(req[r].subj) = {}
    /\ \E c \in Checks : Fresh(c) /\ ReqStep(r, "inserting", "inserted", c)
    /\ UNCHANGED <<tables, runner, boot>>

InsertCheck(r) ==
    /\ ~InsertInFlight(req[r].subj)
    /\ ActiveFor(req[r].subj) = {}
    /\ \E c \in Checks : Fresh(c) /\ ReqStep(r, "inserting", "inserted", c)
    /\ UNCHANGED <<tables, runner, boot>>

\* IntegrityError on the partial unique index; the session rolls back.
InsertConflict(r) ==
    /\ ~InsertInFlight(req[r].subj)
    /\ ActiveFor(req[r].subj) # {}
    /\ ReqStep(r, "inserting", "conflict", None)
    /\ UNCHANGED <<tables, runner, boot>>

\* Mutant: keep looking for the check that won.
ResolveConflictRetries(r) ==
    /\ JoinOrGoOn(r, "conflict", "conflict")
    /\ UNCHANGED <<tables, runner, boot>>

\* After the rollback: join the check that won, or re-raise when it has
\* already finished.
ResolveConflict(r) ==
    /\ JoinOrGoOn(r, "conflict", "error")
    /\ UNCHANGED <<tables, runner, boot>>

\* append_event "created" and commit, with the row of the session.
CommitCheck(r) ==
    LET c == req[r].check IN
    /\ ReqStep(r, "inserted", "committed", c)
    /\ status'  = [status  EXCEPT ![c] = "pending"]
    /\ subject' = [subject EXCEPT ![c] = req[r].subj]
    /\ session' = [session EXCEPT ![c] = "active"]
    /\ events'  = [events  EXCEPT ![c] = <<[seq |-> 1, type |-> "created"]>>]
    /\ runner'  = [runner  EXCEPT ![c].proc = req[r].proc]
    /\ UNCHANGED <<msgs, boot>>

\* background_tasks.add_task: the task starts once the response is sent.
Schedule(r) ==
    LET c == req[r].check IN
    /\ ReqStep(r, "committed", "created", c)
    /\ runner' = [runner EXCEPT ![c].pc = "scheduled"]
    /\ UNCHANGED <<tables, boot>>

\* A statement of the request fails: nothing is committed, HTTP 500.
RequestDbError(r) ==
    /\ "db" \in Faults
    /\ req[r].pc \in {"creating", "inserting", "inserted", "conflict"}
    /\ req' = [req EXCEPT ![r].pc = "error", ![r].check = None]
    /\ UNCHANGED <<tables, runner, boot>>

-----------------------------------------------------------------------------
(* run_sop_quality_check_with_new_session *)

RunStep(c, from, to) ==
    /\ runner[c].pc = from
    /\ runner' = [runner EXCEPT ![c].pc = to]

\* Mutant: SELECT without FOR UPDATE.
LockStepUnlocked(c, from, to) ==
    /\ runner[c].pc = from
    /\ runner' = [runner EXCEPT ![c].pc = to, ![c].seq = NextSequence(c)]

\* A step that takes the row lock and computes the next event sequence.
LockStep(c, from, to) ==
    /\ runner[c].pc = from
    /\ RowFree(c)
    /\ runner' = [runner EXCEPT ![c].pc = to, ![c].seq = NextSequence(c)]

AppendEvent(c, n, type) ==
    events' = [events EXCEPT ![c] = Append(@, [seq |-> n, type |-> type])]

OpenCheckpointer(c) ==
    /\ RunStep(c, "scheduled", "opened")
    /\ UNCHANGED <<tables, req, boot>>

\* open_postgres_checkpointer raises: the outer handler marks the check.
OpenFails(c) ==
    /\ "open" \in Faults
    /\ runner[c].pc = "scheduled"
    /\ runner' = [runner EXCEPT ![c].pc = "failing", ![c].handler = "outer"]
    /\ UNCHANGED <<tables, req, boot>>

\* Mutant: mark_running does not look at the status.
LockToStartAnyway(c) ==
    /\ LockStep(c, "opened", "starting")
    /\ UNCHANGED <<tables, req, boot>>

\* mark_running: lock, refresh, and skip unless the check is still pending.  A
\* skipped row stays locked until the session closes, which only delays others:
\* it has ended, and nobody is to change it any more.
LockToStart(c) ==
    /\ \/ status[c] = "pending" /\ LockStep(c, "opened", "starting")
       \/ status[c] # "pending" /\ RowFree(c) /\ RunStep(c, "opened", "closing")
    /\ UNCHANGED <<tables, req, boot>>

CommitStarted(c) ==
    /\ RunStep(c, "starting", "graph")
    /\ status' = [status EXCEPT ![c] = "running"]
    /\ AppendEvent(c, runner[c].seq, "started")
    /\ UNCHANGED <<subject, session, msgs, req, boot>>

\* A node of the graph persists and commits its step message.
NodeCompletes(c) ==
    /\ RunStep(c, "graph", IF msgs[c] + 1 = NodeCount THEN "checkpoint" ELSE "graph")
    /\ msgs' = [msgs EXCEPT ![c] = @ + 1]
    /\ UNCHANGED <<status, subject, session, events, req, boot>>

\* Mutant: the exception is swallowed.
GraphFailsSilently(c) ==
    /\ "graph" \in Faults
    /\ runner[c].pc \in {"graph", "checkpoint"}
    /\ runner' = [runner EXCEPT ![c].pc = "finishing"]
    /\ UNCHANGED <<tables, req, boot>>

\* A node raises, or the checkpoint cannot be read.
GraphFails(c) ==
    /\ "graph" \in Faults
    /\ runner[c].pc \in {"graph", "checkpoint"}
    /\ runner' = [runner EXCEPT ![c].pc = "failing"]
    /\ UNCHANGED <<tables, req, boot>>

\* set_current_checkpoint flushes an UPDATE, whatever the status of the row.
LockToCheckpoint(c) ==
    /\ LockStep(c, "checkpoint", "checkpointing")
    /\ UNCHANGED <<tables, req, boot>>

CommitCheckpoint(c) ==
    /\ RunStep(c, "checkpointing", "finishing")
    /\ AppendEvent(c, runner[c].seq, "checkpoint")
    /\ UNCHANGED <<status, subject, session, msgs, req, boot>>

\* mark_terminal refreshes the row WITHOUT a lock and decides on what it read.
ReadBeforeTerminal(c) ==
    /\ runner[c].pc \in {"finishing", "failing"}
    /\ runner' = [runner EXCEPT
           ![c].pc = "deciding",
           ![c].seen = status[c],
           ![c].outcome = IF runner[c].pc = "finishing" THEN "succeeded" ELSE "failed"]
    /\ UNCHANGED <<tables, req, boot>>

LockToFinish(c) ==
    /\ LockStep(c, "deciding", "finalizing")
    /\ UNCHANGED <<tables, req, boot>>

\* The end of mark_terminal, of the session and of the transaction.
CommitTerminalIf(c, write) ==
    LET me == runner[c] IN
    /\ RunStep(c, "finalizing", IF me.handler = "outer" THEN "done" ELSE "closing")
    /\ status'  = [status  EXCEPT ![c] = IF write THEN me.outcome ELSE @]
    /\ session' = [session EXCEPT ![c] = SessionStatus(me.outcome)]
    /\ AppendEvent(c, me.seq, TerminalEvent(me.outcome))
    /\ UNCHANGED <<subject, msgs, req, boot>>

\* Mutant: mark_terminal ends running checks only.
CommitTerminalRunning(c) == CommitTerminalIf(c, runner[c].seen = "running")

\* The status is written only if the row was active when it was read; the
\* session and the event are written in either case.
CommitTerminal(c) == CommitTerminalIf(c, runner[c].seen \in ActiveStatuses)

CloseCheckpointer(c) ==
    /\ RunStep(c, "closing", "done")
    /\ UNCHANGED <<tables, req, boot>>

\* Leaving the checkpointer's context raises: the outer handler runs
\* _mark_failed although the check has already been finished.
CloseFails(c) ==
    /\ "close" \in Faults
    /\ runner[c].pc = "closing"
    /\ runner' = [runner EXCEPT ![c].pc = "failing", ![c].handler = "outer"]
    /\ UNCHANGED <<tables, req, boot>>

\* A statement of the runner's session fails.  Nobody rolls the session back,
\* so both calls of _mark_failed raise as well and the task ends.
RunnerDbError(c) ==
    /\ "db" \in Faults
    /\ runner[c].pc \notin RunDone \cup {"none", "scheduled", "closing"}
    /\ runner' = [runner EXCEPT ![c].pc = "dead"]
    /\ UNCHANGED <<tables, req, boot>>

-----------------------------------------------------------------------------
(* The process: its lifespan hook and its end *)

\* Mutant: the startup hook selects the running checks only.
BootReadRunning(p) ==
    /\ proc[p] = "down"
    /\ proc' = [proc EXCEPT ![p] = "starting"]
    /\ todo' = [todo EXCEPT ![p] = {c \in Checks : status[c] = "running"}]
    /\ UNCHANGED <<tables, req, runner, bootSeq, crashes>>

\* interrupt_active_checks_on_startup selects the active rows, unlocked.
BootRead(p) ==
    /\ proc[p] = "down"
    /\ proc' = [proc EXCEPT ![p] = "starting"]
    /\ todo' = [todo EXCEPT ![p] = {c \in Checks : Active(c)}]
    /\ UNCHANGED <<tables, req, runner, bootSeq, crashes>>

\* The autoflushed UPDATE of one of them, and its event's sequence.
BootLock(p, c) ==
    /\ proc[p] = "starting"
    /\ c \in todo[p]
    /\ RowFree(c)
    /\ bootSeq' = [bootSeq EXCEPT ![p][c] = NextSequence(c)]
    /\ UNCHANGED <<tables, req, runner, proc, todo, crashes>>

\* Mutant: the startup hook writes no event.
BootCommitSilent(p) ==
    /\ proc[p] = "starting"
    /\ \A c \in todo[p] : bootSeq[p][c] # 0
    /\ status' = [c \in Checks |-> IF c \in todo[p] THEN "interrupted" ELSE status[c]]
    /\ proc' = [proc EXCEPT ![p] = "up"]
    /\ todo' = [todo EXCEPT ![p] = {}]
    /\ bootSeq' = [bootSeq EXCEPT ![p] = [c \in Checks |-> 0]]
    /\ UNCHANGED <<subject, session, events, msgs, req, runner, crashes>>

\* One commit for all of them; the sessions are left as they are.
BootCommit(p) ==
    /\ proc[p] = "starting"
    /\ \A c \in todo[p] : bootSeq[p][c] # 0
    /\ status' = [c \in Checks |-> IF c \in todo[p] THEN "interrupted" ELSE status[c]]
    /\ events' = [c \in Checks |->
                    IF c \in todo[p]
                    THEN Append(events[c], [seq |-> bootSeq[p][c], type |-> "interrupted"])
                    ELSE events[c]]
    /\ proc' = [proc EXCEPT ![p] = "up"]
    /\ todo' = [todo EXCEPT ![p] = {}]
    /\ bootSeq' = [bootSeq EXCEPT ![p] = [c \in Checks |-> 0]]
    /\ UNCHANGED <<subject, session, msgs, req, runner, crashes>>

\* p and q each wait for a row the other has locked: PostgreSQL aborts p's
\* transaction and the process does not come up.
BootDeadlock(p) ==
    /\ proc[p] = "starting"
    /\ \E q \in Procs : \E c \in todo[p], d \in todo[q] :
         bootSeq[p][d] # 0 /\ bootSeq[q][c] # 0 /\ bootSeq[p][c] = 0 /\ bootSeq[q][d] = 0
    /\ proc' = [proc EXCEPT ![p] = "down"]
    /\ todo' = [todo EXCEPT ![p] = {}]
    /\ bootSeq' = [bootSeq EXCEPT ![p] = [c \in Checks |-> 0]]
    /\ UNCHANGED <<tables, req, runner, crashes>>

\* The process dies, or is shut down with its tasks cancelled
\* (CancelledError is no Exception): its transactions roll back.
Crash(p) ==
    /\ crashes < MaxCrashes
    /\ proc[p] # "down"
    /\ proc' = [proc EXCEPT ![p] = "down"]
    /\ todo' = [todo EXCEPT ![p] = {}]
    /\ bootSeq' = [bootSeq EXCEPT ![p] = [c \in Checks |-> 0]]
    /\ req' = [r \in Requests |->
                 IF req[r].proc = p /\ req[r].pc \notin ReqDone \cup {"idle"}
                 THEN [req[r] EXCEPT !.pc = "error", !.check = None] ELSE req[r]]
    /\ runner' = [c \in Checks |->
                 IF runner[c].proc = p /\ runner[c].pc \notin RunDone
                 THEN [runner[c] EXCEPT !.pc = "killed"] ELSE runner[c]]
    /\ crashes' = crashes + 1
    /\ UNCHANGED tables

-----------------------------------------------------------------------------

RequestStep(r) ==
    \/ Lookup(r) \/ Recheck(r) \/ InsertCheck(r) \/ InsertConflict(r)
    \/ ResolveConflict(r) \/ CommitCheck(r) \/ Schedule(r)

RunnerStep(c) ==
    \/ OpenCheckpointer(c) \/ LockToStart(c) \/ CommitStarted(c)
    \/ NodeCompletes(c) \/ LockToCheckpoint(c) \/ CommitCheckpoint(c)
    \/ ReadBeforeTerminal(c) \/ LockToFinish(c) \/ CommitTerminal(c)
    \/ CloseCheckpointer(c)

RunnerFault(c) ==
    OpenFails(c) \/ GraphFails(c) \/ CloseFails(c) \/ RunnerDbError(c)

BootStep(p) ==
    \/ BootRead(p) \/ BootCommit(p) \/ BootDeadlock(p)
    \/ \E c \in Checks : BootLock(p, c)

Next ==
    \/ \E r \in Requests : RequestStep(r) \/ RequestDbError(r)
    \/ \E c \in Checks : RunnerStep(c) \/ RunnerFault(c)
    \/ \E p \in Procs : BootStep(p) \/ Crash(p)

Spec == Init /\ [][Next]_vars

\* Requests and tasks are coroutines of an event loop that never stops
\* scheduling a ready one; a graph node ends or raises; PostgreSQL grants a
\* free row; an operator starts a process that is down.
Fairness ==
    /\ \A r \in Requests : WF_vars(RequestStep(r))
    /\ \A c \in Checks : WF_vars(RunnerStep(c))
    /\ \A p \in Procs : WF_vars(BootStep(p))

FairSpec == Spec /\ Fairness

-----------------------------------------------------------------------------
(* Properties *)

\* The shape of the variables.
TypeOK ==
    /\ status  \in [Checks -> Statuses]
    /\ subject \in [Checks -> Subjects \cup {None}]
    /\ session \in [Checks -> SessionStatuses]
    /\ events  \in [Checks -> Seq(Event)]
    /\ msgs    \in [Checks -> Nat]
    /\ req     \in [Requests -> ReqState]
    /\ runner  \in [Checks -> RunState]
    /\ proc    \in [Procs -> {"down", "starting", "up"}]
    /\ todo    \in [Procs -> SUBSET Checks]
    /\ bootSeq \in [Procs -> [Checks -> Nat]]
    /\ crashes \in 0..MaxCrashes

\* "The database enforces at most one active SOP quality check per sop_id and
\* env_key": whatever requests, runners and restarts of several processes do,
\* two active checks never have the same subject.
OneActivePerSubject ==
    \A c, d \in Checks :
        Active(c) /\ Active(d) /\ subject[c] = subject[d] => c = d

\* The events of a check are numbered 1, 2, 3, ... in commit order, so the
\* unique index on (check_id, sequence) never rejects one and a reader that
\* asks for sequence > n never misses a lower number committed later.
EventsNumbered ==
    \A c \in Checks : \A i \in 1..Len(events[c]) : events[c][i].seq = i

\* An active check is never forgotten while its process serves: a task that
\* will still run works on it, or the request that created it is about to
\* schedule one.  The exceptions are a task that a database error has ended
\* and a process that is down or still interrupting its leftovers.
ActiveIsOwned ==
    \A c \in Checks : Active(c) =>
        \/ runner[c].pc \notin RunDone \cup {"none"}
        \/ \E r \in Requests : req[r].pc = "committed" /\ req[r].check = c
        \/ runner[c].pc = "dead"
        \/ proc[runner[c].proc] # "up"

\* "If a delayed or duplicate runner sees a check that is already terminal or
\* interrupted, it skips execution instead of reviving the check": with several
\* processes the outcome may be overwritten, but never by an active status.
NeverRevived ==
    [][\A c \in Checks : status[c] \in TerminalStatuses => ~Active(c)']_vars

EventOf(s) == IF s = "succeeded" THEN "completed" ELSE s

\* The positions of the terminal events of a check.
Ends(c) == {i \in 1..Len(events[c]) : events[c][i].type \in TerminalEvents}

\* An active check has no terminal event, and the first one of a check that has
\* ended tells its outcome. All that may follow is the failure of a runner that
\* could not leave the checkpointer.
LogTellsOutcome ==
    \A c \in Checks :
        /\ (Ends(c) # {}) <=> status[c] \in TerminalStatuses
        /\ \A i \in 1..Len(events[c]) :
             CASE \A j \in Ends(c) : i < j  -> TRUE
               [] i \in Ends(c) /\ \A j \in Ends(c) : i <= j
                    -> events[c][i].type = EventOf(status[c])
               [] OTHER -> events[c][i].type = "failed" /\ i = Len(events[c])

\* The session is closed by the transactions that close its check, with the same
\* outcome, and never otherwise: it has failed if and only if the log says so,
\* which after a success is the failure to leave the checkpointer.
SessionFollowsCheck ==
    \A c \in Checks :
        LET failed == \E i \in Ends(c) : events[c][i].type = "failed" IN
        /\ session[c] = "completed" <=> status[c] = "succeeded" /\ ~failed
        /\ session[c] = "failed" <=> failed

\* A check succeeds only after the whole graph has run and its checkpoint has
\* been recorded.
SuccessIsComplete ==
    \A c \in Checks : status[c] = "succeeded" =>
        /\ msgs[c] = NodeCount
        /\ \E i \in 1..Len(events[c]) : events[c][i].type = "checkpoint"

\* A stream stops at the first terminal event.
Told(c) == {i \in 1..Len(events[c]) : \A j \in Ends(c) : i <= j}

\* The tables implement what CheckSpec promises, for those who read the log as
\* far as a stream sends it.
CS == INSTANCE CheckSpec WITH
        log <- [c \in Checks |-> [i \in Told(c) |-> events[c][i].type]]

ImplementsCheckSpec == CS!Spec

\* Every active check ends: by its runner, or by the interruption at the next
\* start of the process that lost it.  Only a task ended by a database error
\* leaves its check behind.
ActiveChecksEnd ==
    \A c \in Checks : Active(c) ~> (~Active(c) \/ runner[c].pc = "dead")

\* Every start_check call is answered.
RequestsAreAnswered ==
    \A r \in Requests : req[r].pc = "creating" ~> req[r].pc \in ReqDone

-----------------------------------------------------------------------------
(* The inductive invariant behind the safety properties *)

\* The uncommitted INSERTs: of a new id each, for subjects that have neither
\* an active check nor another uncommitted INSERT.
InsertInv ==
    \A r \in Requests : req[r].pc = "inserted" =>
        /\ req[r].check \in Checks
        /\ status[req[r].check] = "absent"
        /\ ActiveFor(req[r].subj) = {}
        /\ \A q \in Requests : req[q].pc = "inserted" /\ q # r =>
              req[q].check # req[r].check /\ req[q].subj # req[r].subj

\* What exists before the row of a check is committed, and what after.
RowInv ==
    /\ \A c \in Checks : runner[c].pc # "none" \/ runner[c].proc # None =>
          status[c] # "absent"
    /\ \A r \in Requests : req[r].pc = "committed" =>
          req[r].check \in Checks /\ status[req[r].check] # "absent"
    /\ \A p \in Procs : \A c \in todo[p] : status[c] # "absent"
    /\ \A p \in Procs : \A c \in Checks : bootSeq[p][c] # 0 =>
          c \in todo[p] /\ proc[p] = "starting"

\* A row lock has one holder, and the sequence number its holder computed is
\* still the next one.
LockInv ==
    /\ \A c \in Checks : runner[c].pc \in LockedPcs =>
          /\ runner[c].seq = NextSequence(c)
          /\ \A p \in Procs : bootSeq[p][c] = 0
    /\ \A p \in Procs : \A c \in Checks : bootSeq[p][c] # 0 =>
          /\ bootSeq[p][c] = NextSequence(c)
          /\ \A q \in Procs : q # p => bootSeq[q][c] = 0

\* What mark_running has read stays true until it commits.
StartInv == \A c \in Checks : runner[c].pc = "starting" => status[c] = "pending"

SafetyInv == /\ TypeOK /\ InsertInv /\ RowInv /\ LockInv /\ StartInv
             /\ EventsNumbered /\ OneActivePerSubject

\* Where a process and the tasks and requests it runs stand to each other.
ProcInv ==
    /\ \A r \in Requests : req[r].pc \notin ReqDone \cup {"idle"} =>
          proc[req[r].proc] = "up"
    /\ \A r \in Requests : req[r].pc = "committed" =>
          /\ runner[req[r].check].proc = req[r].proc
          /\ runner[req[r].check].pc = "none"
          /\ \A q \in Requests : req[q].pc = "committed" /\ q # r =>
                req[q].check # req[r].check
    /\ \A c \in Checks : runner[c].pc \notin RunDone \cup {"none"} =>
          runner[c].proc \in Procs /\ proc[runner[c].proc] = "up"
    /\ \A c \in Checks : Active(c) =>
          /\ runner[c].proc \in Procs
          /\ proc[runner[c].proc] = "starting" => c \in todo[runner[c].proc]

\* What a task knows of the status of its check.
TaskInv ==
    \A c \in Checks :
        /\ runner[c].pc \in {"none", "scheduled", "opened"} => status[c] # "running"
        /\ runner[c].pc \in {"deciding", "finalizing"} /\ runner[c].seen \notin ActiveStatuses
             => ~Active(c)
        /\ runner[c].pc \in {"closing", "done"} => ~Active(c)
        /\ status[c] = "absent" => runner[c] = NewRunner

OwnedInv == SafetyInv /\ ProcInv /\ TaskInv /\ ActiveIsOwned

\* The checkpoint of c has been recorded.
Recorded(c) == \E i \in 1..Len(events[c]) : events[c][i].type = "checkpoint"

\* What the graph of a check has produced, by how far its task has come: a
\* task that is to report a success has seen every node and the checkpoint, and
\* one that has reported it does not run the graph again.
WorkInv ==
    \A c \in Checks :
        LET pc == runner[c].pc
            whole == msgs[c] = NodeCount
        IN
        /\ pc \in {"none", "scheduled", "opened", "starting"} => msgs[c] = 0
        /\ pc = "graph" => msgs[c] < NodeCount
        /\ pc \in {"checkpoint", "checkpointing", "finishing"} => whole
        /\ pc = "finishing" => Recorded(c)
        /\ pc \in {"deciding", "finalizing"} /\ runner[c].outcome = "succeeded" =>
              whole /\ Recorded(c)
        /\ status[c] = "succeeded" =>
              /\ whole /\ Recorded(c)
              /\ pc \in {"failing", "deciding", "finalizing", "closing"} \cup RunDone

\* A service with one process, as it is deployed: nobody else writes the row of
\* a check whose task runs.
OneProcess == \A p, q \in Procs : p = q

\* The status of a check by how far its task has come, in such a service.
StatusInv ==
    /\ \A p \in Procs : proc[p] = "starting" => todo[p] = {c \in Checks : Active(c)}
    /\ \A c \in Checks :
         LET pc == runner[c].pc IN
         /\ pc \notin RunDone /\ status[c] # "absent" =>
               runner[c].proc \in Procs /\ proc[runner[c].proc] = "up"
         /\ pc = "none" => status[c] \in {"absent", "pending"}
         /\ pc \in {"scheduled", "opened", "starting"} => status[c] = "pending"
         /\ pc \in {"graph", "checkpoint", "checkpointing", "finishing"} =>
               status[c] = "running"
         /\ pc = "closing" => status[c] \in Outcomes
         /\ pc \in {"failing", "deciding", "finalizing"} =>
               status[c] \in ActiveStatuses \cup Outcomes
         /\ pc \in {"failing", "deciding", "finalizing"} /\ ~Active(c) =>
               runner[c].handler = "outer"
         /\ pc \in {"deciding", "finalizing"} => runner[c].seen = status[c]
         /\ pc \in {"deciding", "finalizing"} /\ runner[c].outcome = "succeeded" =>
               status[c] = "running"

\* The log of a check has one terminal event, its last, which tells the
\* outcome; after that nothing but a failure on leaving the checkpointer.
EndsOnce(c) ==
    LET n == Len(events[c]) IN
    /\ Ends(c) = {n} /\ events[c][n].type = EventOf(status[c])
    /\ session[c] = IF status[c] = "interrupted" THEN "active" ELSE SessionStatus(status[c])

EndsTwice(c) ==
    LET n == Len(events[c]) IN
    /\ Ends(c) = {n - 1, n} /\ events[c][n - 1].type = EventOf(status[c])
    /\ events[c][n].type = "failed" /\ session[c] = "failed"
    /\ runner[c].pc \in RunDone

StoryInv ==
    \A c \in Checks :
        /\ status[c] = "absent" => events[c] = <<>> /\ session[c] = "absent"
        /\ Active(c) => Ends(c) = {} /\ session[c] = "active"
        /\ status[c] \in TerminalStatuses => EndsOnce(c) \/ EndsTwice(c)

=============================================================================
