----------------------------- MODULE McpRuntime -----------------------------
(***************************************************************************)
(* The MCP servers of one process: the manager that starts, stops, checks  *)
(* and restarts them (McpRuntimeManager), the worker task that owns each   *)
(* MCP session (TaskOwnedMcpProbe, both app/services/mcp_runtime.py), the  *)
(* service that creates, updates and deletes them                          *)
(* (app/services/mcp_servers.py), and the lifespan of the process.         *)
(*                                                                         *)
(* An operation works in a transaction of its own and holds the server's   *)
(* asyncio lock, so its reads and its writes of the row take effect with   *)
(* its commit; "starting" and "stopping" are flushed, never committed, and *)
(* no other transaction sees them.                                         *)
(***************************************************************************)
EXTENDS Naturals, Sequences

CONSTANTS
    Servers,    \* server ids (uuid4)
    Calls,      \* calls of the management API
    Life,       \* the lifespan task of the process
    None,
    Kinds,      \* the operations the calls of an instance may ask for
    Faults,     \* subset of {"stop", "die", "db"}
    MaxDowns    \* bound on the number of times the process ends

AllKinds == {"create", "update", "delete", "start", "stop", "restart", "check"}

ASSUME NamesAssumption  == Life \notin Calls /\ None \notin Servers \cup Calls \cup {Life}
ASSUME KindsAssumption  == Kinds \subseteq AllKinds
ASSUME FaultsAssumption == Faults \subseteq {"stop", "die", "db"}
ASSUME DownsAssumption  == MaxDowns \in Nat

Ops == Calls \cup {Life}

VARIABLES
    row,        \* the committed rows of mcp_servers, with their tool snapshots
    handle,     \* _handles: the operation that started the server's worker, or None
    lock,       \* _locks: the operation that holds the server's lock, or None
    op,         \* each operation's progress
    worker,     \* worker[s][o]: the task that operation o created for server s
    phase,      \* of the process
    todo,       \* servers the lifespan task has still to start or to stop
    confirmed,  \* single_instance_confirmed, a setting of the process
    downs

memory == <<handle, lock, worker>>
life   == <<phase, todo, confirmed, downs>>
vars   == <<row, memory, op, life>>

-----------------------------------------------------------------------------
(* Data *)

\* cfg names the operation that wrote the configuration; tools the
\* configuration of the session that listed the snapshot.
Configs == Ops \cup {None}

Row == [status : {"new", "unknown", "running", "stopped", "error", "deleted"},
        desired : {"running", "stopped"}, enabled : {"yes", "no"},
        cfg : Configs, tools : Configs]

Worker == [state : {"none", "starting", "alive", "exited", "dead"},
           cfg : Configs, queue : Seq(Ops \X {"list", "stop"})]

NoWorker == [state |-> "none", cfg |-> None, queue |-> <<>>]

Op == [kind : AllKinds \cup {"none", "shutdown"}, server : Servers \cup {None},
       pc : {"idle", "create", "lock", "start", "stop", "check", "update", "delete",
             "probe", "started", "startfailed", "list", "listed", "listfailed",
             "close", "closed", "closefailed", "cleanup", "discard", "saved",
             "unsaved",
             "broken", "done", "failed"}]

Idle == [kind |-> "none", server |-> None, pc |-> "idle"]

\* The operation has answered.
Ended == {"done", "failed"}

Exists(s) == row[s].status \notin {"new", "deleted"}

\* The worker that operation o talks to: its own, or the one behind the handle.
Target(o) == LET s == op[o].server IN
    IF handle[s] # None THEN handle[s] ELSE o

WorkerOf(o) == worker[op[o].server][Target(o)]

\* The worker runs, and no command to stop waits in its queue.
Serving(s, o) == /\ worker[s][o].state \in {"starting", "alive"}
                 /\ \A i \in DOMAIN worker[s][o].queue : worker[s][o].queue[i][2] # "stop"

Rows == [status : {"unknown", "running", "stopped", "error"}, desired : {"running", "stopped"},
         enabled : {"yes", "no"}, cfg : {None}, tools : {None}]

\* Servers that an earlier process has left behind, and ids not used yet.
Init ==
    /\ row \in [Servers -> Rows \cup {[status |-> "new", desired |-> "stopped",
                                       enabled |-> "no", cfg |-> None, tools |-> None]}]
    /\ handle = [s \in Servers |-> None]
    /\ lock   = [s \in Servers |-> None]
    /\ op     = [o \in Ops |-> Idle]
    /\ worker = [s \in Servers |-> [o \in Ops |-> NoWorker]]
    /\ phase  = "down"
    /\ todo   = {}
    /\ confirmed \in BOOLEAN
    /\ downs  = 0

-----------------------------------------------------------------------------
(* Steps of an operation *)

Goto(o, pc) == op' = [op EXCEPT ![o].pc = pc]

\* Mutant: an exception leaves the lock held.
EndKeepsLock(o, pc) ==
    /\ Goto(o, pc)
    /\ lock' = [s \in Servers |-> IF lock[s] = o /\ pc = "done" THEN None ELSE lock[s]]

\* The operation answers and leaves the server's lock.
End(o, pc) ==
    /\ Goto(o, pc)
    /\ lock' = [s \in Servers |-> IF lock[s] = o THEN None ELSE lock[s]]

Save(s, status, desired) ==
    row' = [row EXCEPT ![s].status = status, ![s].desired = desired]

SaveWithTools(s, status, desired, cfg) ==
    row' = [row EXCEPT ![s].status = status, ![s].desired = desired, ![s].tools = cfg]

\* A call of the API.  start, restart and check refuse at once a process that
\* is not confirmed to be the only one.
Call(o, s, k) ==
    /\ phase = "up" /\ op[o].pc = "idle"
    /\ k = "create" => row[s].status = "new"
    /\ k # "create" => row[s].status # "new"
    /\ op' = [op EXCEPT ![o] =
         [kind |-> k, server |-> s,
          pc |-> IF k = "create" THEN "create"
                 ELSE IF ~confirmed /\ k \in {"start", "restart", "check"} THEN "failed"
                 ELSE "lock"]]
    /\ UNCHANGED <<row, memory, life>>

\* async with self._lock_for(server_id): the lock is not reentrant.
Enter(o) ==
    LET s == op[o].server IN
    /\ op[o].pc = "lock"
    /\ lock[s] = None
    /\ lock' = [lock EXCEPT ![s] = o]
    /\ Goto(o, IF op[o].kind = "restart" THEN "stop" ELSE op[o].kind)
    /\ UNCHANGED <<row, handle, worker, life>>

\* require_server raises, or get_server finds nothing.
NotFound(o) ==
    /\ op[o].pc \in {"start", "stop", "check", "update", "delete"}
    /\ ~Exists(op[o].server)
    /\ End(o, "failed")
    /\ UNCHANGED <<row, handle, worker, life>>

\* Start after a save: self._runtime.start takes the server's lock itself.
ThenStart(o, enabled, desired) ==
    IF enabled = "yes" /\ desired = "running"
    THEN IF confirmed THEN /\ op' = [op EXCEPT ![o].pc = "lock", ![o].kind = "start"]
                           /\ UNCHANGED lock
                      ELSE End(o, "failed")
    ELSE End(o, "done")

CreateServer(o) ==
    /\ op[o].pc = "create"
    /\ row[op[o].server].status = "new"
    /\ \E enabled \in {"yes", "no"}, desired \in {"running", "stopped"} :
         /\ row' = [row EXCEPT ![op[o].server] =
                      [status |-> "unknown", desired |-> desired, enabled |-> enabled,
                       cfg |-> o, tools |-> None]]
         /\ ThenStart(o, enabled, desired)
    /\ UNCHANGED <<handle, worker, life>>

\* IntegrityError on the server's name.
CreateConflict(o) ==
    /\ op[o].pc = "create"
    /\ End(o, "failed")
    /\ UNCHANGED <<row, handle, worker, life>>

\* Mutant: the update looks at the status of the row only.
UpdateServerOfHandle(o) ==
    LET s == op[o].server IN
    /\ op[o].pc = "update" /\ Exists(s)
    /\ row[s].status # "running"
    /\ \E enabled \in {"yes", "no"}, desired \in {"running", "stopped"} :
         /\ row' = [row EXCEPT ![s].desired = desired, ![s].enabled = enabled, ![s].cfg = o]
         /\ ThenStart(o, enabled, desired)
    /\ UNCHANGED <<handle, worker, life>>

UpdateServer(o) ==
    LET s == op[o].server IN
    /\ op[o].pc = "update" /\ Exists(s)
    /\ row[s].status # "running" /\ handle[s] = None
    /\ \E enabled \in {"yes", "no"}, desired \in {"running", "stopped"} :
         /\ row' = [row EXCEPT ![s].desired = desired, ![s].enabled = enabled, ![s].cfg = o]
         /\ ThenStart(o, enabled, desired)
    /\ UNCHANGED <<handle, worker, life>>

\* The server runs (409), the merged configuration is invalid (422), or the
\* name is taken (409).
UpdateRejected(o) ==
    /\ op[o].pc = "update" /\ Exists(op[o].server)
    /\ End(o, "failed")
    /\ UNCHANGED <<row, handle, worker, life>>

\* A server that runs is stopped first, in a transaction of its own.
DeleteServer(o) ==
    LET s == op[o].server IN
    /\ op[o].pc = "delete" /\ Exists(s)
    /\ IF row[s].status = "running" \/ handle[s] # None
       THEN Goto(o, "stop") /\ UNCHANGED <<row, lock>>
       ELSE row' = [row EXCEPT ![s].status = "deleted"] /\ End(o, "done")
    /\ UNCHANGED <<handle, worker, life>>

-----------------------------------------------------------------------------
(* _start_locked and _check_locked *)

\* The server has a handle already.
StartWithHandle(o) ==
    LET s == op[o].server IN
    /\ op[o].pc = "start" /\ Exists(s)
    /\ handle[s] # None
    /\ Save(s, "running", "running")
    /\ End(o, "done")
    /\ UNCHANGED <<handle, worker, life>>

\* Mutant: start does not look for a handle.
ProbeAnyway(o) ==
    LET s == op[o].server IN
    /\ op[o].pc \in {"start", "check"} /\ Exists(s)
    /\ worker' = [worker EXCEPT ![s][o] =
                    [state |-> "starting", cfg |-> row[s].cfg, queue |-> <<>>]]
    /\ Goto(o, "probe")
    /\ UNCHANGED <<row, handle, lock, life>>

\* self._probe.start creates the worker, which opens the session.
Probe(o) ==
    LET s == op[o].server IN
    /\ op[o].pc \in {"start", "check"} /\ Exists(s)
    /\ handle[s] = None
    /\ worker' = [worker EXCEPT ![s][o] =
                    [state |-> "starting", cfg |-> row[s].cfg, queue |-> <<>>]]
    /\ Goto(o, "probe")
    /\ UNCHANGED <<row, handle, lock, life>>

ProbeOk(o) ==
    /\ op[o].pc = "probe"
    /\ worker' = [worker EXCEPT ![op[o].server][o].state = "alive"]
    /\ Goto(o, "started")
    /\ UNCHANGED <<row, handle, lock, life>>

\* The probe raises or times out; the worker is cancelled and closes what it
\* has opened.
ProbeFails(o) ==
    /\ op[o].pc = "probe"
    /\ worker' = [worker EXCEPT ![op[o].server][o].state = "exited"]
    /\ Goto(o, "startfailed")
    /\ UNCHANGED <<row, handle, lock, life>>

\* A command of o joins the queue of the worker, unless the task has ended:
\* normally, which is a RuntimeError, or by a BaseException, which goes through
\* every handler of the operation.
Send(o, command, await, refused) ==
    LET s == op[o].server IN
    CASE WorkerOf(o).state = "alive" ->
           /\ worker' = [worker EXCEPT ![s][Target(o)].queue = Append(@, <<o, command>>)]
           /\ Goto(o, await)
      [] WorkerOf(o).state = "exited" -> Goto(o, refused) /\ UNCHANGED worker
      [] OTHER -> Goto(o, "broken") /\ UNCHANGED worker

\* start: the tools and the status are saved and the handle is kept.
StartSaves(o) ==
    LET s == op[o].server IN
    /\ op[o].pc = "started" /\ op[o].kind # "check"
    /\ SaveWithTools(s, "running", "running", worker[s][o].cfg)
    /\ handle' = [handle EXCEPT ![s] = o]
    /\ End(o, "done")
    /\ UNCHANGED <<worker, life>>

\* The commit of start fails with the handle already kept, or that of stop and
\* shutdown with the handle already dropped.
CommitFails(o) ==
    /\ "db" \in Faults
    /\ \/ op[o].pc = "started" /\ op[o].kind # "check"
       \/ op[o].pc = "closed"
    /\ handle' = [handle EXCEPT ![op[o].server] = IF op[o].pc = "closed" THEN None ELSE o]
    /\ End(o, "failed")
    /\ UNCHANGED <<row, worker, life>>

\* Any other statement fails: the transaction is lost.
StatementFails(o) ==
    /\ "db" \in Faults
    /\ op[o].pc \in {"create", "start", "stop", "check", "update", "delete", "startfailed",
                     "listed", "listfailed", "closefailed"}
    /\ End(o, "failed")
    /\ UNCHANGED <<row, handle, worker, life>>

\* Mutant: the exception leaves the new session open.
SaveFailsLeavesSession(o) ==
    /\ "db" \in Faults
    /\ op[o].pc = "started"
    /\ End(o, "failed")
    /\ UNCHANGED <<row, handle, worker, life>>

\* A flush fails: start and check close the session they have opened, and
\* nothing of the transaction is kept, no error status either.
SaveFails(o) ==
    /\ "db" \in Faults
    /\ op[o].pc = "started"
    /\ Send(o, "stop", "discard", "unsaved")
    /\ UNCHANGED <<row, handle, lock, life>>

\* check without a handle: saved as stopped, then the session is closed.
CheckSaves(o) ==
    LET s == op[o].server IN
    /\ op[o].pc = "started" /\ op[o].kind = "check"
    /\ SaveWithTools(s, "stopped", row[s].desired, worker[s][o].cfg)
    /\ Send(o, "stop", "cleanup", "unsaved")
    /\ UNCHANGED <<handle, lock, life>>

\* The answer after the temporary session is closed, or is not.
CleanedUp(o) ==
    /\ op[o].pc \in {"saved", "unsaved"}
    /\ End(o, IF op[o].pc = "saved" THEN "done" ELSE "failed")
    /\ UNCHANGED <<row, handle, worker, life>>

\* check with a handle asks its worker for the tools.
CheckLive(o) ==
    /\ op[o].pc = "check" /\ Exists(op[o].server)
    /\ handle[op[o].server] # None
    /\ Send(o, "list", "list", "listfailed")
    /\ UNCHANGED <<row, handle, lock, life>>

CheckLiveSaves(o) ==
    LET s == op[o].server IN
    /\ op[o].pc = "listed"
    /\ SaveWithTools(s, "running", row[s].desired, WorkerOf(o).cfg)
    /\ End(o, "done")
    /\ UNCHANGED <<handle, worker, life>>

\* The status "error" is saved and the exception raised again; the snapshot of
\* the tools stays.
SaveError(o) ==
    LET s == op[o].server IN
    /\ op[o].pc \in {"startfailed", "listfailed"}
    /\ Save(s, "error", IF op[o].kind = "check" THEN row[s].desired ELSE "running")
    /\ End(o, "failed")
    /\ UNCHANGED <<handle, worker, life>>

-----------------------------------------------------------------------------
(* _stop_locked and shutdown *)

\* What follows a stop: restart starts, delete deletes.
AfterStop(o) ==
    CASE op[o].kind = "restart" -> Goto(o, "start") /\ UNCHANGED lock
      [] op[o].kind = "delete"  -> Goto(o, "delete") /\ UNCHANGED lock
      [] OTHER                  -> End(o, "done")

DesiredOnStop(o) ==
    IF op[o].kind = "shutdown" THEN row[op[o].server].desired ELSE "stopped"

StopWithoutHandle(o) ==
    LET s == op[o].server IN
    /\ op[o].pc = "stop" /\ Exists(s)
    /\ handle[s] = None
    /\ Save(s, "stopped", "stopped")
    /\ AfterStop(o)
    /\ UNCHANGED <<handle, worker, life>>

StopWorker(o) ==
    /\ op[o].pc = "stop" /\ Exists(op[o].server)
    /\ handle[op[o].server] # None
    /\ Send(o, "stop", "close", "closefailed")
    /\ UNCHANGED <<row, handle, lock, life>>

\* Mutant: the handle stays in the map.
StopSavesWithHandle(o) ==
    /\ op[o].pc = "closed"
    /\ Save(op[o].server, "stopped", DesiredOnStop(o))
    /\ AfterStop(o)
    /\ UNCHANGED <<handle, worker, life>>

StopSaves(o) ==
    LET s == op[o].server IN
    /\ op[o].pc = "closed"
    /\ handle' = [handle EXCEPT ![s] = None]
    /\ Save(s, "stopped", DesiredOnStop(o))
    /\ AfterStop(o)
    /\ UNCHANGED <<worker, life>>

\* The handle is kept for another attempt; shutdown goes on with the next.
StopFails(o) ==
    /\ op[o].pc = "closefailed"
    /\ Save(op[o].server, "error", DesiredOnStop(o))
    /\ End(o, IF op[o].kind = "shutdown" THEN "done" ELSE "failed")
    /\ UNCHANGED <<handle, worker, life>>

\* A BaseException of the worker ends the operation; its transaction is lost.
Broken(o) ==
    /\ op[o].pc = "broken"
    /\ End(o, "failed")
    /\ UNCHANGED <<row, handle, worker, life>>

Answer(pc)  == CASE pc = "list" -> "listed" [] pc = "close" -> "closed"
                 [] pc = "cleanup" -> "saved" [] OTHER -> "unsaved"
Failure(pc) == CASE pc = "list" -> "listfailed" [] pc = "close" -> "closefailed"
                 [] OTHER -> "unsaved"

\* The operation waits for a worker's answer.
Awaiting == {"list", "close", "cleanup", "discard"}

\* wait_for gives up; the command stays with the worker.
TimesOut(o) ==
    /\ op[o].pc \in Awaiting
    /\ Goto(o, Failure(op[o].pc))
    /\ UNCHANGED <<row, memory, life>>

-----------------------------------------------------------------------------
(* The worker task *)

\* Operation o waits for the answer of worker w of server s.
Awaits(o, s, w) == op[o].pc \in Awaiting /\ op[o].server = s /\ Target(o) = w

\* The answer to a command of which nobody waits for the answer is dropped.
Reply(s, w, o, pc) == op' = [op EXCEPT ![o].pc = IF Awaits(o, s, w) THEN pc ELSE @]

WorkerLists(s, w) ==
    LET command == Head(worker[s][w].queue) IN
    /\ worker[s][w].state = "alive" /\ worker[s][w].queue # <<>>
    /\ command[2] = "list"
    /\ worker' = [worker EXCEPT ![s][w].queue = Tail(@)]
    /\ \/ Reply(s, w, command[1], "listed")
       \/ Reply(s, w, command[1], "listfailed")
    /\ UNCHANGED <<row, handle, lock, life>>

\* The session is closed and the task returns, whatever is left in the queue.
WorkerStops(s, w) ==
    LET command == Head(worker[s][w].queue) IN
    /\ worker[s][w].state = "alive" /\ worker[s][w].queue # <<>>
    /\ command[2] = "stop"
    /\ worker' = [worker EXCEPT ![s][w].queue = Tail(@), ![s][w].state = "exited"]
    /\ Reply(s, w, command[1], Answer(op[command[1]].pc))
    /\ UNCHANGED <<row, handle, lock, life>>

\* Closing raises an Exception: the task goes on.
WorkerStopFails(s, w) ==
    LET command == Head(worker[s][w].queue) IN
    /\ "stop" \in Faults
    /\ worker[s][w].state = "alive" /\ worker[s][w].queue # <<>>
    /\ command[2] = "stop"
    /\ worker' = [worker EXCEPT ![s][w].queue = Tail(@)]
    /\ Reply(s, w, command[1], Failure(op[command[1]].pc))
    /\ UNCHANGED <<row, handle, lock, life>>

\* A command raises a BaseException, which ends the task too.
WorkerDies(s, w) ==
    LET command == Head(worker[s][w].queue) IN
    /\ "die" \in Faults
    /\ worker[s][w].state = "alive" /\ worker[s][w].queue # <<>>
    /\ worker' = [worker EXCEPT ![s][w].queue = Tail(@), ![s][w].state = "dead"]
    /\ Reply(s, w, command[1], "broken")
    /\ UNCHANGED <<row, handle, lock, life>>

-----------------------------------------------------------------------------
(* The lifespan of the process *)

\* Mutant: servers that seem to run already are passed over.
BootSkipsRunning ==
    /\ phase = "down"
    /\ phase' = "boot"
    /\ todo'  = {s \in Servers : /\ row[s].status \in {"unknown", "stopped", "error"}
                                 /\ row[s].enabled = "yes" /\ row[s].desired = "running"}
    /\ UNCHANGED <<row, memory, op, confirmed, downs>>

\* list_startup_servers.
Boot ==
    /\ phase = "down"
    /\ phase' = "boot"
    /\ todo'  = {s \in Servers : Exists(s) /\ row[s].enabled = "yes"
                                           /\ row[s].desired = "running"}
    /\ UNCHANGED <<row, memory, op, confirmed, downs>>

\* The lifespan task takes the next server: it calls start, or shutdown's
\* loop body, which takes no lock.
LifeTakes(s) ==
    /\ phase \in {"boot", "closing"} /\ confirmed
    /\ s \in todo
    /\ op[Life].pc = "idle"
    /\ op' = [op EXCEPT ![Life] = IF phase = "boot"
                THEN [kind |-> "start", server |-> s, pc |-> "lock"]
                ELSE [kind |-> "shutdown", server |-> s, pc |-> "stop"]]
    /\ UNCHANGED <<row, memory, life>>

\* start_enabled_servers logs a failure and sees to it that the row says so; an
\* exception out of shutdown leaves the other servers as they are.
LifeGoesOn ==
    LET s == op[Life].server IN
    /\ op[Life].pc \in Ended
    /\ op' = [op EXCEPT ![Life] = Idle]
    /\ todo' = IF phase = "closing" /\ op[Life].pc = "failed" THEN {} ELSE todo \ {s}
    /\ row' = IF phase = "boot" /\ op[Life].pc = "failed"
              THEN [row EXCEPT ![s].status = "error"] ELSE row
    /\ UNCHANGED <<memory, phase, confirmed, downs>>

\* A process that is not confirmed starts no server.
BootRefused(s) ==
    /\ phase = "boot" /\ ~confirmed
    /\ s \in todo
    /\ row'  = [row EXCEPT ![s].status = "error"]
    /\ todo' = todo \ {s}
    /\ UNCHANGED <<memory, op, phase, confirmed, downs>>

Up ==
    /\ phase = "boot" /\ todo = {} /\ op[Life].pc = "idle"
    /\ phase' = "up"
    /\ UNCHANGED <<row, memory, op, todo, confirmed, downs>>

\* The HTTP server has drained its requests.
Shutdown ==
    /\ phase = "up" /\ downs < MaxDowns
    /\ \A o \in Calls : op[o].pc \in Ended \cup {"idle"}
    /\ phase' = "closing"
    /\ todo'  = {s \in Servers : handle[s] # None}
    /\ UNCHANGED <<row, memory, op, confirmed, downs>>

\* The memory of the process is gone, and so are the sessions it owned.
Down ==
    /\ phase' = "down"
    /\ downs' = downs + 1
    /\ todo'  = {}
    /\ handle' = [s \in Servers |-> None]
    /\ lock'   = [s \in Servers |-> None]
    /\ worker' = [s \in Servers |-> [o \in Ops |-> NoWorker]]
    /\ UNCHANGED <<row, confirmed>>

ShutdownEnds ==
    /\ phase = "closing" /\ todo = {} /\ op[Life].pc = "idle"
    /\ Down
    /\ UNCHANGED op

Crash ==
    /\ phase # "down" /\ downs < MaxDowns
    /\ Down
    /\ op' = [o \in Ops |-> IF o = Life THEN Idle
                            ELSE IF op[o].pc = "idle" THEN op[o]
                            ELSE [op[o] EXCEPT !.pc = IF @ = "done" THEN @ ELSE "failed"]]

-----------------------------------------------------------------------------

\* What an operation does by itself.
OpStep(o) ==
    \/ Enter(o) \/ NotFound(o) \/ CreateServer(o) \/ CreateConflict(o)
    \/ UpdateServer(o) \/ UpdateRejected(o) \/ DeleteServer(o)
    \/ StartWithHandle(o) \/ Probe(o) \/ ProbeOk(o) \/ ProbeFails(o)
    \/ StartSaves(o) \/ CheckSaves(o) \/ CleanedUp(o) \/ CheckLive(o)
    \/ CheckLiveSaves(o) \/ SaveError(o) \/ StopWithoutHandle(o) \/ StopWorker(o)
    \/ StopSaves(o) \/ StopFails(o) \/ Broken(o) \/ TimesOut(o)

OpFault(o) == CommitFails(o) \/ SaveFails(o) \/ StatementFails(o)

WorkerStep(s, w) ==
    WorkerLists(s, w) \/ WorkerStops(s, w) \/ WorkerStopFails(s, w) \/ WorkerDies(s, w)

LifeStep ==
    \/ Boot \/ Up \/ LifeGoesOn \/ ShutdownEnds
    \/ \E s \in Servers : LifeTakes(s) \/ BootRefused(s)

Next ==
    \/ \E o \in Calls, s \in Servers, k \in Kinds : Call(o, s, k)
    \/ \E o \in Ops : OpStep(o) \/ OpFault(o)
    \/ \E s \in Servers, w \in Ops : WorkerStep(s, w)
    \/ LifeStep \/ Shutdown \/ Crash

Spec == Init /\ [][Next]_vars

\* The event loop schedules every coroutine that can go on, and wait_for fires
\* when a probe or a worker does not answer.  Workers may never answer.
Fairness == /\ \A o \in Ops : WF_vars(OpStep(o))
            /\ WF_vars(LifeStep)

FairSpec == Spec /\ Fairness

-----------------------------------------------------------------------------
(* Properties *)

\* The shape of the variables.
TypeOK ==
    /\ row    \in [Servers -> Row]
    /\ handle \in [Servers -> Ops \cup {None}]
    /\ lock   \in [Servers -> Ops \cup {None}]
    /\ op     \in [Ops -> Op]
    /\ worker \in [Servers -> [Ops -> Worker]]
    /\ phase  \in {"down", "boot", "up", "closing"}
    /\ todo   \in SUBSET Servers
    /\ confirmed \in BOOLEAN
    /\ downs  \in Nat

\* "test_concurrent_start_only_starts_one_handle": whatever start, restart and
\* check are called at once, a server has at most one session that is not
\* about to be closed.
OneSession ==
    \A s \in Servers : \A v, w \in Ops : Serving(s, v) /\ Serving(s, w) => v = w

\* No configuration changes under a session: a session that is kept was started
\* with the configuration of its row.
SessionHasConfig ==
    \A s \in Servers : handle[s] # None => worker[s][handle[s]].cfg = row[s].cfg

\* While a session is kept and nobody works on the server, the snapshot of its
\* tools comes from its present configuration, and its status does not say that
\* it is stopped.
KeptSessionIsShown ==
    \A s \in Servers : handle[s] # None /\ lock[s] = None /\ phase = "up" =>
        row[s].tools = row[s].cfg /\ row[s].status \in {"running", "error"}

\* No subprocess is left behind: a session that is not kept belongs to an operation
\* that has not ended, and a server that has been deleted has neither a session nor
\* a handle, whose server shutdown would not find.
SessionsAreOwned ==
    \A s \in Servers :
        /\ \A w \in Ops : Serving(s, w) =>
              /\ row[s].status # "deleted"
              /\ handle[s] = w \/ (op[w].server = s /\ op[w].pc \notin Ended)
        /\ row[s].status = "deleted" => handle[s] = None

\* Once the process serves, a row that says "running" without a session is one
\* that the startup does not restore.
RunningIsRestored ==
    \A s \in Servers : phase = "up" /\ lock[s] = None /\ row[s].status = "running" =>
        handle[s] # None \/ row[s].enabled = "no" \/ row[s].desired = "stopped"

\* An update has come back for the lock that it holds itself.
Hangs(o) == op[o].pc = "lock" /\ lock[op[o].server] = o

\* Every operation that waits for a server ends, however its session behaves and
\* whatever fails: only an update that waits for itself keeps the lock.
OperationsEnd ==
    \A o \in Calls : op[o].pc = "lock" ~> op[o].pc \in Ended \/ \E u \in Calls : Hangs(u)

\* docs/mcp-crud.md: PATCH "updates the configuration", or answers 409 for a
\* server that runs; tests/test_mcp_api.py, "test_update_waits_for_mcp_lifecycle_
\* lock", expects 200: an update that has the server's lock is answered.
UpdatesAreAnswered ==
    \A o \in Calls : op[o].pc = "update" ~> op[o].pc \in Ended

-----------------------------------------------------------------------------
(* The inductive invariants behind the safety properties *)

\* The operation is inside the lock of its server, or is shutdown's loop body.
Inside == {"start", "stop", "check", "update", "delete", "probe", "started", "startfailed",
           "list", "listed", "listfailed", "close", "closed", "closefailed", "cleanup",
           "discard", "saved", "unsaved", "broken"}

\* The lock of a server is held by the operation that is inside, and by an
\* update that waits for itself; shutdown holds none.
LockInv ==
    /\ \A s \in Servers : lock[s] # None =>
          LET o == lock[s] IN
          /\ op[o].server = s /\ op[o].kind # "shutdown"
          /\ op[o].pc \in Inside \cup {"lock"}
    /\ \A o \in Ops : op[o].pc \in Inside /\ op[o].kind # "shutdown" =>
          lock[op[o].server] = o
    /\ \A o \in Ops : op[o].pc \in Inside \cup {"lock", "create"} => op[o].server \in Servers
    /\ \A o \in Ops : op[o].pc = "lock" => op[o].kind \in AllKinds \ {"create"}
    /\ \A o \in Ops : op[o].pc = "check" => op[o].kind = "check"

\* Where start_enabled_servers and shutdown can be with a server.
StartPcs == {"lock", "start", "probe", "started", "startfailed", "discard", "unsaved",
             "broken"} \cup Ended
StopPcs  == {"stop", "close", "closed", "closefailed", "broken"} \cup Ended

\* Calls run only while the process serves, and the lifespan task only before
\* and after that.
LifeInv ==
    /\ phase # "up" => \A o \in Calls : op[o].pc \in Ended \cup {"idle"}
    /\ \A o \in Calls : op[o].kind # "shutdown"
    /\ \/ op[Life] = Idle
       \/ /\ op[Life].kind = "start" /\ op[Life].pc \in StartPcs
          /\ phase = "boot" /\ confirmed /\ op[Life].server \in todo
       \/ op[Life].kind = "shutdown" /\ op[Life].pc \in StopPcs /\ phase = "closing"

\* An id that no row has is known to the calls that are to create it at most.
NewInv ==
    \A s \in Servers : row[s].status = "new" =>
        /\ handle[s] = None /\ s \notin todo
        /\ \A o \in Ops : op[o].server = s => o \in Calls /\ op[o].pc \in {"create", "failed"}

\* A session that is being started, too, has the configuration of its row, and
\* no other is kept meanwhile.
ConfigInv ==
    /\ SessionHasConfig
    /\ \A s \in Servers : handle[s] # None => Exists(s)
    /\ \A o \in Ops : op[o].pc \in {"probe", "started"} =>
          LET s == op[o].server IN
          handle[s] = None /\ Exists(s) /\ worker[s][o].cfg = row[s].cfg

\* Where a check that has asked for the tools can be.
ListPcs == {"list", "listed", "listfailed", "broken"} \cup Ended

\* Only a check asks for the tools, of a session that is kept.
ListInv ==
    /\ \A s \in Servers, w \in Ops : \A i \in DOMAIN worker[s][w].queue :
          worker[s][w].queue[i][2] = "list" =>
             LET o == worker[s][w].queue[i][1] IN op[o].kind = "check" /\ op[o].pc \in ListPcs
    /\ \A o \in Ops : op[o].pc \in {"list", "listed"} => handle[op[o].server] # None

RuntimeInv == TypeOK /\ LockInv /\ LifeInv /\ NewInv /\ ConfigInv /\ ListInv

\* Where the sessions are, unless a session may refuse to close.
ServeInv ==
    /\ \A s \in Servers, w \in Ops : Serving(s, w) =>
          handle[s] = w \/ (op[w].server = s /\ op[w].pc \in {"probe", "started"})
    /\ \A o \in Ops : op[o].pc \in {"probe", "started"} =>
          worker[op[o].server][o].queue = <<>>
    /\ \A o \in Ops : op[o].pc = "started" => worker[op[o].server][o].state = "alive"
    /\ \A o \in Ops : op[o].pc = "closed" /\ handle[op[o].server] # None =>
          ~Serving(op[o].server, handle[op[o].server])

\* What the row says of a session that is kept, unless a commit may fail.
ShownInv ==
    \A s \in Servers : handle[s] # None =>
        row[s].tools = row[s].cfg /\ row[s].status \in {"running", "error"}

\* What is still to be restored.
Lost(s) == /\ row[s].status = "running" /\ row[s].enabled = "yes"
           /\ row[s].desired = "running" /\ handle[s] = None

RestoreInv ==
    /\ phase = "boot" => \A s \in Servers : Lost(s) => s \in todo
    /\ phase = "boot" /\ op[Life].pc = "done" => handle[op[Life].server] # None
    /\ phase = "up" => \A s \in Servers : ~Lost(s)

=============================================================================
