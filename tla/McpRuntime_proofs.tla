-------------------------- MODULE McpRuntime_proofs --------------------------
(***************************************************************************)
(* Proofs about McpRuntime, for any number of servers and calls.  An       *)
(* operation inside a server's lock is the only one that moves the row,    *)
(* the handle and the sessions of that server; the proofs first say what   *)
(* each step does to the state of its own server (the move lemmas) and     *)
(* then derive the invariants from these moves.                            *)
(***************************************************************************)
EXTENDS McpRuntime, TLAPS

-----------------------------------------------------------------------------
(* What a step of an operation does to the state of its own server *)

\* Everything that belongs to other operations and other servers stays.
OpFrame(o) ==
    LET s == op[o].server IN
    /\ s \in Servers /\ op[o].pc \in Inside \cup {"lock", "create"}
    /\ phase' = phase /\ todo' = todo /\ confirmed' = confirmed /\ downs' = downs
    /\ op'[o].server = s
    /\ \A p \in Ops : p # o => op'[p] = op[p]
    /\ \A x \in Servers : x # s => /\ row'[x] = row[x] /\ handle'[x] = handle[x]
                                   /\ lock'[x] = lock[x] /\ worker'[x] = worker[x]

\* The operation takes the lock, goes on with or without it, leaves it, or
\* goes for it (again) after a save.
OpControl(o) ==
    LET s == op[o].server IN
    /\ \/ /\ op[o].pc = "lock" /\ lock[s] = None /\ lock'[s] = o
          /\ op'[o].pc = (IF op[o].kind = "restart" THEN "stop" ELSE op[o].kind)
          /\ op'[o].kind = op[o].kind
       \/ /\ op[o].pc \in Inside /\ op'[o].pc \in Inside
          /\ lock'[s] = lock[s] /\ op'[o].kind = op[o].kind
       \/ /\ op[o].pc \in Inside \cup {"create"} /\ op'[o].pc \in Ended
          /\ lock'[s] = (IF lock[s] = o THEN None ELSE lock[s]) /\ op'[o].kind = op[o].kind
       \/ /\ op[o].pc \in {"create", "update"} /\ op'[o].pc = "lock"
          /\ lock'[s] = lock[s] /\ op'[o].kind = "start"
    /\ op[o].kind = "start" /\ op[o].pc \in StartPcs =>
          op'[o].kind = "start" /\ op'[o].pc \in StartPcs
    /\ op[o].kind = "shutdown" /\ op[o].pc \in StopPcs =>
          op'[o].kind = "shutdown" /\ op'[o].pc \in StopPcs
    /\ op[o].kind = "check" /\ op[o].pc \in ListPcs =>
          op'[o].kind = "check" /\ op'[o].pc \in ListPcs
    /\ op'[o].pc = "check" => op'[o].kind = "check"

\* Neither the row nor the sessions of the server change.
Keeps(o) ==
    LET s == op[o].server IN
    /\ row'[s] = row[s] /\ handle'[s] = handle[s] /\ worker'[s] = worker[s]
    /\ op'[o].pc \notin {"create", "probe", "started", "list", "listed", "closed"}
    /\ op[o].pc = "create" => op'[o].pc = "failed"
    /\ op[o].pc = "started" => worker[s][Target(o)].state # "alive"
    /\ op[o].pc # "probe"
    /\ op'[o].pc = "done" => op[o].pc = "saved"

\* The configuration of the row is written: by create, or by an update that has
\* found no session.
Writes(o) ==
    LET s == op[o].server IN
    /\ handle'[s] = handle[s] /\ worker'[s] = worker[s]
    /\ op'[o].pc \in {"lock"} \cup Ended
    /\ \/ /\ op[o].pc = "create" /\ row[s].status = "new" /\ row'[s].status = "unknown"
       \/ /\ op[o].pc = "update" /\ handle[s] = None
          /\ Exists(s) /\ row'[s].status = row[s].status /\ row[s].status # "running"
       \/ /\ op[o].pc = "delete" /\ handle[s] = None
          /\ Exists(s) /\ row'[s].status = "deleted"

\* A worker is created, or its probe ends.
Probes(o) ==
    LET s == op[o].server IN
    /\ row'[s] = row[s] /\ handle'[s] = handle[s]
    /\ \A w \in Ops : w # o => worker'[s][w] = worker[s][w]
    /\ \/ /\ op[o].pc \in {"start", "check"} /\ op'[o].pc = "probe"
          /\ Exists(s) /\ handle[s] = None
          /\ worker'[s][o] = [state |-> "starting", cfg |-> row[s].cfg, queue |-> <<>>]
       \/ /\ op[o].pc = "probe" /\ worker'[s][o].cfg = worker[s][o].cfg
          /\ worker'[s][o].queue = worker[s][o].queue
          /\ \/ op'[o].pc = "started" /\ worker'[s][o].state = "alive"
             \/ op'[o].pc = "startfailed" /\ worker'[s][o].state = "exited"

\* A command joins the queue of a worker that runs.
Sends(o, c) ==
    LET s == op[o].server
        t == Target(o) IN
    /\ handle'[s] = handle[s]
    /\ \A w \in Ops : w # t => worker'[s][w] = worker[s][w]
    /\ worker[s][t].state = "alive"
    /\ worker'[s][t].state = "alive" /\ worker'[s][t].cfg = worker[s][t].cfg
    /\ worker'[s][t].queue = Append(worker[s][t].queue, <<o, c>>)

\* The list command of check, and the stop command: to the session that is kept,
\* or to the one that start and check have opened.
Asks(o) ==
    LET s == op[o].server IN
    \/ /\ Sends(o, "list") /\ row'[s] = row[s] /\ handle[s] # None
       /\ op[o].pc = "check" /\ op[o].kind = "check" /\ op'[o].pc = "list"
    \/ /\ Sends(o, "stop") /\ row'[s] = row[s] /\ handle[s] # None
       /\ op[o].pc = "stop" /\ op'[o].pc = "close"
    \/ /\ Sends(o, "stop") /\ row'[s].cfg = row[s].cfg
       /\ row'[s] = row[s] \/ row'[s].status = "stopped"
       /\ op[o].pc = "started" /\ op'[o].pc \in {"discard", "cleanup"}

\* The row is saved and the sessions stay.
Saves(o) ==
    LET s == op[o].server IN
    /\ handle'[s] = handle[s] /\ worker'[s] = worker[s]
    /\ row'[s].cfg = row[s].cfg
    /\ \/ /\ op[o].pc = "start" /\ handle[s] # None /\ row'[s].status = "running"
          /\ row'[s].tools = row[s].tools /\ op'[o].pc = "done"
       \/ /\ op[o].pc = "listed" /\ row'[s].status = "running"
          /\ row'[s].tools = worker[s][Target(o)].cfg /\ op'[o].pc = "done"
       \/ /\ op[o].pc \in {"startfailed", "listfailed", "closefailed"}
          /\ row'[s].status = "error" /\ row'[s].tools = row[s].tools
          /\ op'[o].pc \in Ended /\ (op'[o].pc = "done" => op[o].pc = "closefailed")
       \/ /\ op[o].pc = "stop" /\ handle[s] = None
          /\ row'[s].status = "stopped" /\ op'[o].pc \in {"start", "delete", "done"}
       \/ /\ op[o].pc = "started" /\ worker[s][Target(o)].state # "alive"
          /\ row'[s].status = "stopped" /\ op'[o].pc \in {"unsaved", "broken"}

\* The handle is kept after a start, or dropped after a stop.
Handles(o) ==
    LET s == op[o].server IN
    /\ worker'[s] = worker[s] /\ row'[s].cfg = row[s].cfg
    /\ \/ /\ op[o].pc = "started" /\ handle'[s] = o
          /\ \/ "db" \in Faults /\ row'[s] = row[s] /\ op'[o].pc = "failed"
             \/ /\ row'[s].status = "running" /\ row'[s].tools = worker[s][o].cfg
                /\ op'[o].pc = "done"
       \/ /\ op[o].pc = "closed" /\ handle'[s] = None
          /\ \/ "db" \in Faults /\ row'[s] = row[s] /\ op'[o].pc = "failed"
             \/ row'[s].status = "stopped" /\ op'[o].pc \in {"start", "delete", "done"}

OpData(o) == Keeps(o) \/ Writes(o) \/ Probes(o) \/ Asks(o) \/ Saves(o) \/ Handles(o)

-----------------------------------------------------------------------------
(* The move lemmas *)

\* Goto moves the operation only, and leaves what it does and where.
LEMMA GotoMoves ==
  ASSUME TypeOK, NEW o \in Ops, NEW pc, Goto(o, pc)
  PROVE  /\ op'[o].pc = pc /\ op'[o].kind = op[o].kind /\ op'[o].server = op[o].server
         /\ \A p \in Ops : p # o => op'[p] = op[p]
BY DEF Goto, TypeOK, Op

\* End also gives back the lock, of no other server than its own.
LEMMA EndMoves ==
  ASSUME TypeOK, LockInv, NEW o \in Ops, NEW pc, End(o, pc)
  PROVE  /\ op'[o].pc = pc /\ op'[o].kind = op[o].kind /\ op'[o].server = op[o].server
         /\ \A p \in Ops : p # o => op'[p] = op[p]
         /\ \A s \in Servers : lock'[s] = IF lock[s] = o THEN None ELSE lock[s]
         /\ \A s \in Servers : s # op[o].server => lock'[s] = lock[s]
<1>1. Goto(o, pc) BY DEF End
<1>2. \A s \in Servers : lock'[s] = IF lock[s] = o THEN None ELSE lock[s] BY DEF End
<1>3. ASSUME NEW s \in Servers, s # op[o].server PROVE lock[s] # o
  BY <1>3, NamesAssumption DEF LockInv, Ops
<1> QED BY <1>1, <1>2, <1>3, GotoMoves

\* What ThenStart does: it goes for the lock, or ends.
LEMMA ThenStartMoves ==
  ASSUME TypeOK, LockInv, NEW o \in Ops, NEW enabled, NEW desired,
         ThenStart(o, enabled, desired)
  PROVE  /\ op'[o].server = op[o].server
         /\ \A p \in Ops : p # o => op'[p] = op[p]
         /\ \A s \in Servers : s # op[o].server => lock'[s] = lock[s]
         /\ \/ op'[o].pc = "lock" /\ op'[o].kind = "start" /\ lock' = lock
            \/ /\ op'[o].pc \in Ended /\ op'[o].kind = op[o].kind
               /\ \A s \in Servers : lock'[s] = IF lock[s] = o THEN None ELSE lock[s]
<1>1. CASE End(o, "failed") \/ End(o, "done") BY <1>1, EndMoves DEF Ended
<1>2. CASE /\ op' = [op EXCEPT ![o].pc = "lock", ![o].kind = "start"]
           /\ UNCHANGED lock
  BY <1>2 DEF TypeOK, Op
<1> QED BY <1>1, <1>2 DEF ThenStart

\* What AfterStop does: it goes on with the start or the deletion, or ends.
LEMMA AfterStopMoves ==
  ASSUME TypeOK, LockInv, NEW o \in Ops, AfterStop(o)
  PROVE  /\ op'[o].server = op[o].server /\ op'[o].kind = op[o].kind
         /\ \A p \in Ops : p # o => op'[p] = op[p]
         /\ \A s \in Servers : s # op[o].server => lock'[s] = lock[s]
         /\ \/ op'[o].pc = "start" /\ op[o].kind = "restart" /\ lock' = lock
            \/ op'[o].pc = "delete" /\ op[o].kind = "delete" /\ lock' = lock
            \/ /\ op'[o].pc = "done"
               /\ \A s \in Servers : lock'[s] = IF lock[s] = o THEN None ELSE lock[s]
<1>1. CASE op[o].kind = "restart" BY <1>1, GotoMoves DEF AfterStop
<1>2. CASE op[o].kind = "delete" BY <1>2, GotoMoves DEF AfterStop
<1>3. CASE op[o].kind \notin {"restart", "delete"} BY <1>3, EndMoves DEF AfterStop
<1> QED BY <1>1, <1>2, <1>3

\* What Send does: a worker that runs has the command, or the operation goes on
\* without it.
LEMMA SendMoves ==
  ASSUME TypeOK, NEW o \in Ops, op[o].server \in Servers, NEW c, NEW await, NEW refused,
         Send(o, c, await, refused)
  PROVE  /\ op'[o].server = op[o].server /\ op'[o].kind = op[o].kind
         /\ \A p \in Ops : p # o => op'[p] = op[p]
         /\ \A x \in Servers : x # op[o].server => worker'[x] = worker[x]
         /\ \/ /\ worker[op[o].server][Target(o)].state = "alive" /\ op'[o].pc = await
               /\ worker'[op[o].server][Target(o)].state = "alive"
               /\ worker'[op[o].server][Target(o)].cfg = worker[op[o].server][Target(o)].cfg
               /\ worker'[op[o].server][Target(o)].queue
                    = Append(worker[op[o].server][Target(o)].queue, <<o, c>>)
               /\ \A w \in Ops : w # Target(o) =>
                     worker'[op[o].server][w] = worker[op[o].server][w]
            \/ /\ worker[op[o].server][Target(o)].state # "alive"
               /\ op'[o].pc \in {refused, "broken"} /\ worker' = worker
<1>1. PICK s \in Servers : s = op[o].server OBVIOUS
<1>2. PICK t \in Ops : t = Target(o)
  BY <1>1 DEF Target, TypeOK
<1>3. worker \in [Servers -> [Ops -> Worker]] BY DEF TypeOK
<1>4. CASE worker[s][t].state = "alive"
  <2>1. /\ worker' = [worker EXCEPT ![s][t].queue = Append(@, <<o, c>>)]
        /\ Goto(o, await)
    BY <1>1, <1>2, <1>4 DEF Send, WorkerOf
  <2>2. /\ \A x \in Servers : x # s => worker'[x] = worker[x]
        /\ \A w \in Ops : w # t => worker'[s][w] = worker[s][w]
    BY <1>3, <2>1
  <2>3. worker'[s][t] = [worker[s][t] EXCEPT !.queue = Append(@, <<o, c>>)]
    BY <1>3, <2>1
  <2>4. /\ worker'[s][t].state = worker[s][t].state
        /\ worker'[s][t].cfg = worker[s][t].cfg
        /\ worker'[s][t].queue = Append(worker[s][t].queue, <<o, c>>)
    <3>1. worker[s][t] \in Worker BY <1>3
    <3> QED BY <2>3, <3>1 DEF Worker
  <2>5. /\ op'[o].pc = await /\ op'[o].kind = op[o].kind /\ op'[o].server = op[o].server
        /\ \A p \in Ops : p # o => op'[p] = op[p]
    BY <2>1, GotoMoves
  <2> QED BY <1>1, <1>2, <1>4, <2>2, <2>4, <2>5
<1>5. CASE worker[s][t].state # "alive"
  <2>1. (Goto(o, refused) \/ Goto(o, "broken")) /\ worker' = worker
    BY <1>1, <1>2, <1>5 DEF Send, WorkerOf
  <2> QED BY <1>1, <1>2, <1>5, <2>1, GotoMoves
<1> QED BY <1>4, <1>5

\* The moves of a single operation.
OpMoves(o) == OpFrame(o) /\ OpControl(o) /\ OpData(o)

\* The steps that change nothing but the operation and the lock.
LEMMA QuietMoves ==
  ASSUME TypeOK, LockInv, NEW o \in Ops,
         \/ Enter(o) \/ NotFound(o) \/ CreateConflict(o) \/ UpdateRejected(o)
         \/ CleanedUp(o) \/ Broken(o) \/ TimesOut(o) \/ StatementFails(o)
  PROVE  OpMoves(o)
<1>0. /\ row' = row /\ handle' = handle /\ worker' = worker
      /\ phase' = phase /\ todo' = todo /\ confirmed' = confirmed /\ downs' = downs
  BY DEF Enter, NotFound, CreateConflict, UpdateRejected, CleanedUp, Broken, TimesOut,
         StatementFails, memory, life
<1>1. op[o].pc \in Inside \cup {"lock", "create"} => op[o].server \in Servers
  BY DEF LockInv
<1>2. ASSUME op[o].pc \in {"create", "start", "stop", "check", "update", "delete",
                "startfailed", "listed", "listfailed", "closefailed", "unsaved", "saved",
                "broken"},
             NEW pc \in Ended, pc = "done" => op[o].pc = "saved",
             End(o, pc)
      PROVE  OpMoves(o)
  <2>1. /\ op'[o].pc = pc /\ op'[o].kind = op[o].kind /\ op'[o].server = op[o].server
        /\ \A p \in Ops : p # o => op'[p] = op[p]
        /\ \A s \in Servers : lock'[s] = IF lock[s] = o THEN None ELSE lock[s]
        /\ \A s \in Servers : s # op[o].server => lock'[s] = lock[s]
    BY <1>2, EndMoves
  <2>2. OpFrame(o) BY <1>0, <1>1, <1>2, <2>1 DEF OpFrame, Inside
  <2>3. OpControl(o)
    BY <1>1, <1>2, <2>1 DEF OpControl, Inside, StartPcs, StopPcs, ListPcs, Ended
  <2>4. Keeps(o) BY <1>0, <1>2, <2>1 DEF Keeps, Ended
  <2> QED BY <2>2, <2>3, <2>4 DEF OpMoves, OpData
<1>3. CASE Enter(o)
  <2>1. /\ op[o].pc = "lock" /\ lock[op[o].server] = None
        /\ lock' = [lock EXCEPT ![op[o].server] = o]
        /\ Goto(o, IF op[o].kind = "restart" THEN "stop" ELSE op[o].kind)
    BY <1>3 DEF Enter
  <2>2. /\ op'[o].pc = (IF op[o].kind = "restart" THEN "stop" ELSE op[o].kind)
        /\ op'[o].kind = op[o].kind /\ op'[o].server = op[o].server
        /\ \A p \in Ops : p # o => op'[p] = op[p]
    BY <2>1, GotoMoves
  <2>3. lock \in [Servers -> Ops \cup {None}] BY DEF TypeOK
  <2>4. op[o].kind \in AllKinds \ {"create"} BY <2>1 DEF LockInv
  <2>5. OpFrame(o) BY <1>0, <1>1, <2>1, <2>2, <2>3 DEF OpFrame
  <2>6. OpControl(o)
    BY <1>1, <2>1, <2>2, <2>3, <2>4 DEF OpControl, StartPcs, StopPcs, ListPcs, Ended
  <2>7. Keeps(o) BY <1>0, <2>1, <2>2, <2>4 DEF Keeps, AllKinds
  <2> QED BY <2>5, <2>6, <2>7 DEF OpMoves, OpData
<1>4. CASE NotFound(o) BY <1>2, <1>4 DEF NotFound, Ended
<1>5. CASE CreateConflict(o) BY <1>2, <1>5 DEF CreateConflict, Ended
<1>6. CASE UpdateRejected(o) BY <1>2, <1>6 DEF UpdateRejected, Ended
<1>7. CASE CleanedUp(o)
  <2>1. CASE op[o].pc = "saved" BY <1>2, <1>7, <2>1 DEF CleanedUp, Ended
  <2>2. CASE op[o].pc = "unsaved" BY <1>2, <1>7, <2>2 DEF CleanedUp, Ended
  <2> QED BY <1>7, <2>1, <2>2 DEF CleanedUp
<1>8. CASE Broken(o) BY <1>2, <1>8 DEF Broken, Ended
<1>9. CASE StatementFails(o) BY <1>2, <1>9 DEF StatementFails, Ended
<1>10. CASE TimesOut(o)
  <2>1. /\ op[o].pc \in Awaiting /\ lock' = lock
        /\ op'[o].pc = Failure(op[o].pc)
        /\ op'[o].kind = op[o].kind /\ op'[o].server = op[o].server
        /\ \A p \in Ops : p # o => op'[p] = op[p]
    BY <1>10, GotoMoves DEF TimesOut, memory
  <2>2. OpFrame(o) BY <1>0, <1>1, <2>1 DEF OpFrame, Inside, Awaiting
  <2>3. OpControl(o)
    BY <1>1, <2>1
       DEF OpControl, Inside, StartPcs, StopPcs, ListPcs, Ended, Awaiting, Failure
  <2>4. Keeps(o) BY <1>0, <2>1 DEF Keeps, Awaiting, Failure
  <2> QED BY <2>2, <2>3, <2>4 DEF OpMoves, OpData
<1> QED BY <1>3, <1>4, <1>5, <1>6, <1>7, <1>8, <1>9, <1>10

\* The steps that write a configuration, or delete it.
LEMMA WriteMoves ==
  ASSUME TypeOK, LockInv, NEW o \in Ops,
         CreateServer(o) \/ UpdateServer(o) \/ DeleteServer(o)
  PROVE  OpMoves(o)
<1>0. /\ handle' = handle /\ worker' = worker
      /\ phase' = phase /\ todo' = todo /\ confirmed' = confirmed /\ downs' = downs
      /\ row \in [Servers -> Row]
  BY DEF CreateServer, UpdateServer, DeleteServer, life, TypeOK
<1>1. op[o].pc \in {"create", "update", "delete"} /\ op[o].server \in Servers
  BY DEF LockInv, Inside, CreateServer, UpdateServer, DeleteServer
<1>2. PICK s \in Servers : s = op[o].server BY <1>1
<1>3. ASSUME NEW enabled, NEW desired, ThenStart(o, enabled, desired),
             op[o].pc \in {"create", "update"},
             \A x \in Servers : x # s => row'[x] = row[x],
             \/ op[o].pc = "create" /\ row[s].status = "new" /\ row'[s].status = "unknown"
             \/ /\ op[o].pc = "update" /\ handle[s] = None
                /\ Exists(s) /\ row'[s].status = row[s].status /\ row[s].status # "running"
      PROVE  OpMoves(o)
  <2>1. /\ op'[o].server = op[o].server
        /\ \A p \in Ops : p # o => op'[p] = op[p]
        /\ \A x \in Servers : x # op[o].server => lock'[x] = lock[x]
        /\ \/ op'[o].pc = "lock" /\ op'[o].kind = "start" /\ lock' = lock
           \/ /\ op'[o].pc \in Ended /\ op'[o].kind = op[o].kind
              /\ \A x \in Servers : lock'[x] = IF lock[x] = o THEN None ELSE lock[x]
    BY <1>3, ThenStartMoves
  <2>2. OpFrame(o) BY <1>0, <1>2, <1>3, <2>1 DEF OpFrame, Inside
  <2>3. OpControl(o)
    BY <1>2, <1>3, <2>1 DEF OpControl, Inside, StartPcs, StopPcs, ListPcs, Ended
  <2>4. Writes(o) BY <1>0, <1>2, <1>3, <2>1 DEF Writes
  <2> QED BY <2>2, <2>3, <2>4 DEF OpMoves, OpData
<1>4. CASE CreateServer(o)
  <2>1. PICK enabled \in {"yes", "no"}, desired \in {"running", "stopped"} :
          /\ row' = [row EXCEPT ![s] =
                      [status |-> "unknown", desired |-> desired, enabled |-> enabled,
                       cfg |-> o, tools |-> None]]
          /\ ThenStart(o, enabled, desired)
    BY <1>2, <1>4 DEF CreateServer
  <2>2. op[o].pc = "create" /\ row[s].status = "new" BY <1>2, <1>4 DEF CreateServer
  <2>3. row'[s].status = "unknown" /\ \A x \in Servers : x # s => row'[x] = row[x]
    BY <1>0, <2>1
  <2> QED BY <1>3, <2>1, <2>2, <2>3
<1>5. CASE UpdateServer(o)
  <2>1. PICK enabled \in {"yes", "no"}, desired \in {"running", "stopped"} :
          /\ row' = [row EXCEPT ![s].desired = desired, ![s].enabled = enabled, ![s].cfg = o]
          /\ ThenStart(o, enabled, desired)
    BY <1>2, <1>5 DEF UpdateServer
  <2>2. op[o].pc = "update" /\ handle[s] = None /\ Exists(s) /\ row[s].status # "running"
    BY <1>2, <1>5 DEF UpdateServer
  <2>3. row'[s].status = row[s].status /\ \A x \in Servers : x # s => row'[x] = row[x]
    BY <1>0, <2>1 DEF Row
  <2> QED BY <1>3, <2>1, <2>2, <2>3
<1>6. CASE DeleteServer(o)
  <2>1. op[o].pc = "delete" /\ Exists(s) BY <1>2, <1>6 DEF DeleteServer
  <2>2. CASE row[s].status = "running" \/ handle[s] # None
    <3>1. Goto(o, "stop") /\ row' = row /\ lock' = lock
      BY <1>2, <1>6, <2>2 DEF DeleteServer
    <3>2. /\ op'[o].pc = "stop" /\ op'[o].kind = op[o].kind /\ op'[o].server = op[o].server
          /\ \A p \in Ops : p # o => op'[p] = op[p]
      BY <3>1, GotoMoves
    <3>3. OpFrame(o) BY <1>0, <1>1, <3>1, <3>2 DEF OpFrame, Inside
    <3>4. OpControl(o)
      BY <2>1, <3>1, <3>2 DEF OpControl, Inside, StartPcs, StopPcs, ListPcs, Ended
    <3>5. Keeps(o) BY <1>0, <2>1, <3>1, <3>2 DEF Keeps
    <3> QED BY <3>3, <3>4, <3>5 DEF OpMoves, OpData
  <2>3. CASE ~(row[s].status = "running" \/ handle[s] # None)
    <3>1. row' = [row EXCEPT ![s].status = "deleted"] /\ End(o, "done")
      BY <1>2, <1>6, <2>3 DEF DeleteServer
    <3>2. /\ op'[o].pc = "done" /\ op'[o].kind = op[o].kind /\ op'[o].server = op[o].server
          /\ \A p \in Ops : p # o => op'[p] = op[p]
          /\ \A x \in Servers : lock'[x] = IF lock[x] = o THEN None ELSE lock[x]
          /\ \A x \in Servers : x # op[o].server => lock'[x] = lock[x]
      BY <3>1, EndMoves
    <3>3. row'[s].status = "deleted" /\ \A x \in Servers : x # s => row'[x] = row[x]
      BY <1>0, <3>1 DEF Row
    <3>4. OpFrame(o) BY <1>0, <1>2, <2>1, <3>2, <3>3 DEF OpFrame, Inside
    <3>5. OpControl(o)
      BY <1>2, <2>1, <3>2 DEF OpControl, Inside, StartPcs, StopPcs, ListPcs, Ended
    <3>6. Writes(o) BY <1>0, <1>2, <2>1, <2>3, <3>2, <3>3 DEF Writes, Ended
    <3> QED BY <3>4, <3>5, <3>6 DEF OpMoves, OpData
  <2> QED BY <2>2, <2>3
<1> QED BY <1>4, <1>5, <1>6

\* The steps that create a worker and learn how its probe ends.
LEMMA ProbeMoves ==
  ASSUME TypeOK, LockInv, NEW o \in Ops, Probe(o) \/ ProbeOk(o) \/ ProbeFails(o)
  PROVE  OpMoves(o)
<1>0. /\ row' = row /\ handle' = handle /\ lock' = lock
      /\ phase' = phase /\ todo' = todo /\ confirmed' = confirmed /\ downs' = downs
      /\ worker \in [Servers -> [Ops -> Worker]]
  BY DEF Probe, ProbeOk, ProbeFails, life, TypeOK
<1>1. op[o].pc \in {"start", "check", "probe"} /\ op[o].server \in Servers
  BY DEF LockInv, Inside, Probe, ProbeOk, ProbeFails
<1>2. PICK s \in Servers : s = op[o].server BY <1>1
<1>3. ASSUME NEW pc \in {"probe", "started", "startfailed"}, Goto(o, pc),
             \A x \in Servers : x # s => worker'[x] = worker[x], Probes(o)
      PROVE  OpMoves(o)
  <2>1. /\ op'[o].pc = pc /\ op'[o].kind = op[o].kind /\ op'[o].server = op[o].server
        /\ \A p \in Ops : p # o => op'[p] = op[p]
    BY <1>3, GotoMoves
  <2>2. OpFrame(o) BY <1>0, <1>1, <1>2, <1>3, <2>1 DEF OpFrame, Inside
  <2>3. OpControl(o)
    BY <1>0, <1>1, <1>3, <2>1 DEF OpControl, Inside, StartPcs, StopPcs, ListPcs, Ended
  <2> QED BY <1>3, <2>2, <2>3 DEF OpMoves, OpData
<1>4. CASE Probe(o)
  <2>1. /\ op[o].pc \in {"start", "check"} /\ Exists(s) /\ handle[s] = None
        /\ worker' = [worker EXCEPT ![s][o] =
                        [state |-> "starting", cfg |-> row[s].cfg, queue |-> <<>>]]
        /\ Goto(o, "probe")
    BY <1>2, <1>4 DEF Probe
  <2>2. op'[o].pc = "probe" BY <2>1, GotoMoves
  <2>3. /\ \A x \in Servers : x # s => worker'[x] = worker[x]
        /\ \A w \in Ops : w # o => worker'[s][w] = worker[s][w]
        /\ worker'[s][o] = [state |-> "starting", cfg |-> row[s].cfg, queue |-> <<>>]
    BY <1>0, <2>1
  <2>4. Probes(o) BY <1>0, <1>2, <2>1, <2>2, <2>3 DEF Probes
  <2> QED BY <1>3, <2>1, <2>3, <2>4
<1>5. ASSUME NEW pc, NEW state, op[o].pc = "probe", Goto(o, pc),
             worker' = [worker EXCEPT ![s][o].state = state],
             \/ pc = "started" /\ state = "alive"
             \/ pc = "startfailed" /\ state = "exited"
      PROVE  OpMoves(o)
  <2>1. op'[o].pc = pc BY <1>5, GotoMoves
  <2>2. /\ \A x \in Servers : x # s => worker'[x] = worker[x]
        /\ \A w \in Ops : w # o => worker'[s][w] = worker[s][w]
        /\ worker'[s][o] = [worker[s][o] EXCEPT !.state = state]
    BY <1>0, <1>5
  <2>3. worker[s][o] \in Worker BY <1>0
  <2>4. /\ worker'[s][o].state = state /\ worker'[s][o].cfg = worker[s][o].cfg
        /\ worker'[s][o].queue = worker[s][o].queue
    BY <2>2, <2>3 DEF Worker
  <2>5. Probes(o) BY <1>0, <1>2, <1>5, <2>1, <2>2, <2>4 DEF Probes
  <2> QED BY <1>3, <1>5, <2>2, <2>5
<1>6. CASE ProbeOk(o) BY <1>2, <1>5, <1>6 DEF ProbeOk
<1>7. CASE ProbeFails(o) BY <1>2, <1>5, <1>7 DEF ProbeFails
<1> QED BY <1>4, <1>6, <1>7

\* The steps that send a command to a worker.
LEMMA AskMoves ==
  ASSUME TypeOK, LockInv, NEW o \in Ops,
         SaveFails(o) \/ CheckSaves(o) \/ CheckLive(o) \/ StopWorker(o)
  PROVE  OpMoves(o)
<1>0. /\ handle' = handle /\ lock' = lock
      /\ phase' = phase /\ todo' = todo /\ confirmed' = confirmed /\ downs' = downs
      /\ row \in [Servers -> Row]
  BY DEF SaveFails, CheckSaves, CheckLive, StopWorker, life, TypeOK
<1>1. op[o].pc \in {"started", "check", "stop"} /\ op[o].server \in Servers
  BY DEF LockInv, Inside, SaveFails, CheckSaves, CheckLive, StopWorker
<1>2. PICK s \in Servers : s = op[o].server BY <1>1
<1>3. ASSUME NEW c, NEW await, NEW refused, Send(o, c, await, refused),
             \A x \in Servers : x # s => row'[x] = row[x], row'[s].cfg = row[s].cfg,
             \/ /\ op[o].pc = "started" /\ c = "stop" /\ refused = "unsaved"
                /\ \/ await = "discard" /\ row'[s] = row[s]
                   \/ /\ await = "cleanup" /\ op[o].kind = "check"
                      /\ row'[s].status = "stopped"
             \/ /\ op[o].pc = "check" /\ c = "list" /\ await = "list" /\ refused = "listfailed"
                /\ row'[s] = row[s] /\ handle[s] # None /\ op[o].kind = "check"
             \/ /\ op[o].pc = "stop" /\ c = "stop" /\ await = "close"
                /\ refused = "closefailed" /\ row'[s] = row[s] /\ handle[s] # None
      PROVE  OpMoves(o)
  <2>1. /\ op'[o].server = op[o].server /\ op'[o].kind = op[o].kind
        /\ \A p \in Ops : p # o => op'[p] = op[p]
        /\ \A x \in Servers : x # op[o].server => worker'[x] = worker[x]
    BY <1>1, <1>3, SendMoves
  <2>2. OpFrame(o) BY <1>0, <1>1, <1>2, <1>3, <2>1 DEF OpFrame, Inside
  <2>3. \/ op'[o].pc = await /\ Sends(o, c)
        \/ /\ worker[s][Target(o)].state # "alive"
           /\ op'[o].pc \in {refused, "broken"} /\ worker' = worker
    <3>1. \/ /\ worker[op[o].server][Target(o)].state = "alive" /\ op'[o].pc = await
             /\ worker'[op[o].server][Target(o)].state = "alive"
             /\ worker'[op[o].server][Target(o)].cfg = worker[op[o].server][Target(o)].cfg
             /\ worker'[op[o].server][Target(o)].queue
                  = Append(worker[op[o].server][Target(o)].queue, <<o, c>>)
             /\ \A w \in Ops : w # Target(o) =>
                   worker'[op[o].server][w] = worker[op[o].server][w]
          \/ /\ worker[op[o].server][Target(o)].state # "alive"
             /\ op'[o].pc \in {refused, "broken"} /\ worker' = worker
      BY <1>1, <1>3, SendMoves
    <3> QED BY <1>0, <1>2, <3>1 DEF Sends
  <2>4. OpControl(o)
    <3>1. \/ op[o].pc = "started" /\ op'[o].pc \in {"discard", "unsaved", "broken"}
          \/ op[o].pc = "started" /\ op[o].kind = "check" /\ op'[o].pc \in {"cleanup", "unsaved", "broken"}
          \/ op[o].pc = "check" /\ op'[o].pc \in {"list", "listfailed", "broken"}
          \/ op[o].pc = "stop" /\ op'[o].pc \in {"close", "closefailed", "broken"}
      <4>1. op'[o].pc \in {await, refused, "broken"} BY <2>3
      <4> QED BY <1>3, <4>1
    <3>2. lock' = lock /\ op'[o].kind = op[o].kind BY <1>0, <2>1
    <3> QED BY <3>1, <3>2 DEF OpControl, Inside, StartPcs, StopPcs, ListPcs, Ended
  <2>5. CASE op'[o].pc = await /\ Sends(o, c)
    <3>1. Asks(o) BY <1>2, <1>3, <2>5 DEF Asks
    <3> QED BY <2>2, <2>4, <3>1 DEF OpMoves, OpData
  <2>6. CASE /\ worker[s][Target(o)].state # "alive"
             /\ op'[o].pc \in {refused, "broken"} /\ worker' = worker
    <3>1. CASE row'[s] = row[s]
      <4>1. Keeps(o) BY <1>0, <1>2, <1>3, <2>6, <3>1 DEF Keeps
      <4> QED BY <2>2, <2>4, <4>1 DEF OpMoves, OpData
    <3>2. CASE row'[s] # row[s]
      <4>1. Saves(o) BY <1>0, <1>2, <1>3, <2>6, <3>2 DEF Saves
      <4> QED BY <2>2, <2>4, <4>1 DEF OpMoves, OpData
    <3> QED BY <3>1, <3>2
  <2> QED BY <2>3, <2>5, <2>6
<1>4. CASE SaveFails(o) BY <1>2, <1>3, <1>4 DEF SaveFails
<1>5. CASE CheckSaves(o)
  <2>1. row' = [row EXCEPT ![s].status = "stopped", ![s].desired = row[s].desired,
                           ![s].tools = worker[s][o].cfg]
    BY <1>2, <1>5 DEF CheckSaves, SaveWithTools
  <2>2. /\ \A x \in Servers : x # s => row'[x] = row[x]
        /\ row'[s].cfg = row[s].cfg /\ row'[s].status = "stopped"
    BY <1>0, <2>1 DEF Row
  <2>3. op[o].pc = "started" /\ op[o].kind = "check" /\ Send(o, "stop", "cleanup", "unsaved")
    BY <1>5 DEF CheckSaves
  <2> QED BY <1>3, <2>2, <2>3
<1>6. CASE CheckLive(o)
  <2>1. /\ op[o].pc = "check" /\ Send(o, "list", "list", "listfailed")
        /\ row' = row /\ handle[s] # None
    BY <1>2, <1>6 DEF CheckLive
  <2>2. op[o].kind = "check" BY <2>1 DEF LockInv
  <2> QED BY <1>3, <2>1, <2>2
<1>7. CASE StopWorker(o) BY <1>2, <1>3, <1>7 DEF StopWorker
<1> QED BY <1>4, <1>5, <1>6, <1>7

\* The steps that save the row and leave the sessions alone.
LEMMA SaveMoves ==
  ASSUME TypeOK, LockInv, NEW o \in Ops,
         \/ StartWithHandle(o) \/ CheckLiveSaves(o) \/ SaveError(o)
         \/ StopWithoutHandle(o) \/ StopFails(o)
  PROVE  OpMoves(o)
<1>0. /\ handle' = handle /\ worker' = worker
      /\ phase' = phase /\ todo' = todo /\ confirmed' = confirmed /\ downs' = downs
      /\ row \in [Servers -> Row]
  BY DEF StartWithHandle, CheckLiveSaves, SaveError, StopWithoutHandle, StopFails, life, TypeOK
<1>1. /\ op[o].pc \in {"start", "listed", "startfailed", "listfailed", "stop", "closefailed"}
      /\ op[o].server \in Servers
  BY DEF LockInv, Inside, StartWithHandle, CheckLiveSaves, SaveError, StopWithoutHandle,
         StopFails
<1>2. PICK s \in Servers : s = op[o].server BY <1>1
<1>3. ASSUME NEW status, NEW desired, Save(s, status, desired)
      PROVE  /\ \A x \in Servers : x # s => row'[x] = row[x]
             /\ row'[s].status = status
             /\ row'[s].tools = row[s].tools /\ row'[s].cfg = row[s].cfg
  BY <1>0, <1>3 DEF Save, Row
<1>4. ASSUME NEW pc \in Ended, End(o, pc),
             \A x \in Servers : x # s => row'[x] = row[x], row'[s].cfg = row[s].cfg,
             \/ /\ op[o].pc = "start" /\ handle[s] # None /\ row'[s].status = "running"
                /\ row'[s].tools = row[s].tools /\ pc = "done"
             \/ /\ op[o].pc = "listed" /\ row'[s].status = "running"
                /\ row'[s].tools = worker[s][Target(o)].cfg /\ pc = "done"
             \/ /\ op[o].pc \in {"startfailed", "listfailed", "closefailed"}
                /\ row'[s].status = "error" /\ row'[s].tools = row[s].tools
                /\ pc = "done" => op[o].pc = "closefailed"
      PROVE  OpMoves(o)
  <2>1. /\ op'[o].pc = pc /\ op'[o].kind = op[o].kind /\ op'[o].server = op[o].server
        /\ \A p \in Ops : p # o => op'[p] = op[p]
        /\ \A x \in Servers : lock'[x] = IF lock[x] = o THEN None ELSE lock[x]
        /\ \A x \in Servers : x # op[o].server => lock'[x] = lock[x]
    BY <1>4, EndMoves
  <2>2. OpFrame(o) BY <1>0, <1>1, <1>2, <1>4, <2>1 DEF OpFrame, Inside
  <2>3. OpControl(o)
    BY <1>1, <1>4, <2>1 DEF OpControl, Inside, StartPcs, StopPcs, ListPcs, Ended
  <2>4. Saves(o) BY <1>0, <1>2, <1>4, <2>1 DEF Saves
  <2> QED BY <2>2, <2>3, <2>4 DEF OpMoves, OpData
<1>5. CASE StartWithHandle(o)
  <2>1. /\ op[o].pc = "start" /\ handle[s] # None /\ Save(s, "running", "running")
        /\ End(o, "done")
    BY <1>2, <1>5 DEF StartWithHandle
  <2>2. "done" \in Ended BY DEF Ended
  <2>3. /\ \A x \in Servers : x # s => row'[x] = row[x]
        /\ row'[s].status = "running"
        /\ row'[s].tools = row[s].tools /\ row'[s].cfg = row[s].cfg
    BY <1>3, <2>1
  <2> QED BY <1>4, <2>1, <2>2, <2>3
<1>6. CASE CheckLiveSaves(o)
  <2>1. op[o].pc = "listed" /\ End(o, "done") BY <1>6 DEF CheckLiveSaves
  <2>2. row' = [row EXCEPT ![s].status = "running", ![s].desired = row[s].desired,
                           ![s].tools = worker[s][Target(o)].cfg]
    BY <1>2, <1>6 DEF CheckLiveSaves, SaveWithTools, WorkerOf
  <2>3. /\ \A x \in Servers : x # s => row'[x] = row[x]
        /\ row'[s].status = "running" /\ row'[s].cfg = row[s].cfg
        /\ row'[s].tools = worker[s][Target(o)].cfg
    BY <1>0, <2>2 DEF Row
  <2>4. "done" \in Ended BY DEF Ended
  <2> QED BY <1>4, <2>1, <2>3, <2>4
<1>7. CASE SaveError(o)
  <2>1. /\ op[o].pc \in {"startfailed", "listfailed"} /\ End(o, "failed")
        /\ Save(s, "error", IF op[o].kind = "check" THEN row[s].desired ELSE "running")
    BY <1>2, <1>7 DEF SaveError
  <2>2. "failed" \in Ended BY DEF Ended
  <2>3. /\ \A x \in Servers : x # s => row'[x] = row[x]
        /\ row'[s].status = "error"
        /\ row'[s].tools = row[s].tools /\ row'[s].cfg = row[s].cfg
    BY <1>3, <2>1
  <2> QED BY <1>4, <2>1, <2>2, <2>3
<1>8. CASE StopFails(o)
  <2>1. PICK pc \in Ended : End(o, pc) BY <1>8 DEF StopFails, Ended
  <2>2. op[o].pc = "closefailed" /\ Save(s, "error", DesiredOnStop(o))
    BY <1>2, <1>8 DEF StopFails
  <2>3. /\ \A x \in Servers : x # s => row'[x] = row[x]
        /\ row'[s].status = "error"
        /\ row'[s].tools = row[s].tools /\ row'[s].cfg = row[s].cfg
    BY <1>3, <2>2
  <2> QED BY <1>4, <2>1, <2>2, <2>3
<1>9. CASE StopWithoutHandle(o)
  <2>1. /\ op[o].pc = "stop" /\ handle[s] = None /\ Save(s, "stopped", "stopped")
        /\ AfterStop(o)
    BY <1>2, <1>9 DEF StopWithoutHandle
  <2>2. /\ \A x \in Servers : x # s => row'[x] = row[x]
        /\ row'[s].status = "stopped" /\ row'[s].cfg = row[s].cfg
    BY <1>3, <2>1
  <2>3. /\ op'[o].server = op[o].server /\ op'[o].kind = op[o].kind
        /\ \A p \in Ops : p # o => op'[p] = op[p]
        /\ \A x \in Servers : x # op[o].server => lock'[x] = lock[x]
        /\ \/ op'[o].pc = "start" /\ op[o].kind = "restart" /\ lock' = lock
           \/ op'[o].pc = "delete" /\ op[o].kind = "delete" /\ lock' = lock
           \/ /\ op'[o].pc = "done"
              /\ \A x \in Servers : lock'[x] = IF lock[x] = o THEN None ELSE lock[x]
    BY <2>1, AfterStopMoves
  <2>4. OpFrame(o) BY <1>0, <1>1, <1>2, <2>2, <2>3 DEF OpFrame, Inside
  <2>5. OpControl(o)
    BY <1>1, <2>1, <2>3 DEF OpControl, Inside, StartPcs, StopPcs, ListPcs, Ended
  <2>6. Saves(o) BY <1>0, <1>2, <2>1, <2>2, <2>3 DEF Saves
  <2> QED BY <2>4, <2>5, <2>6 DEF OpMoves, OpData
<1> QED BY <1>5, <1>6, <1>7, <1>8, <1>9

\* The steps that keep or drop the handle.
LEMMA HandleMoves ==
  ASSUME TypeOK, LockInv, NEW o \in Ops, StartSaves(o) \/ StopSaves(o) \/ CommitFails(o)
  PROVE  OpMoves(o)
<1>0. /\ worker' = worker
      /\ phase' = phase /\ todo' = todo /\ confirmed' = confirmed /\ downs' = downs
      /\ row \in [Servers -> Row] /\ handle \in [Servers -> Ops \cup {None}]
  BY DEF StartSaves, StopSaves, CommitFails, life, TypeOK
<1>1. op[o].pc \in {"started", "closed"} /\ op[o].server \in Servers
  BY DEF LockInv, Inside, StartSaves, StopSaves, CommitFails
<1>2. PICK s \in Servers : s = op[o].server BY <1>1
<1>3. ASSUME NEW pc \in Ended, End(o, pc), NEW h, handle' = [handle EXCEPT ![s] = h],
             \A x \in Servers : x # s => row'[x] = row[x], row'[s].cfg = row[s].cfg,
             \/ /\ op[o].pc = "started" /\ h = o
                /\ \/ "db" \in Faults /\ row'[s] = row[s] /\ pc = "failed"
                   \/ /\ row'[s].status = "running" /\ row'[s].tools = worker[s][o].cfg
                      /\ pc = "done"
             \/ /\ op[o].pc = "closed" /\ h = None
                /\ "db" \in Faults /\ row'[s] = row[s] /\ pc = "failed"
      PROVE  OpMoves(o)
  <2>1. /\ op'[o].pc = pc /\ op'[o].kind = op[o].kind /\ op'[o].server = op[o].server
        /\ \A p \in Ops : p # o => op'[p] = op[p]
        /\ \A x \in Servers : lock'[x] = IF lock[x] = o THEN None ELSE lock[x]
        /\ \A x \in Servers : x # op[o].server => lock'[x] = lock[x]
    BY <1>3, EndMoves
  <2>2. handle'[s] = h /\ \A x \in Servers : x # s => handle'[x] = handle[x]
    BY <1>0, <1>3
  <2>3. OpFrame(o) BY <1>0, <1>1, <1>2, <1>3, <2>1, <2>2 DEF OpFrame, Inside
  <2>4. OpControl(o)
    BY <1>1, <1>3, <2>1 DEF OpControl, Inside, StartPcs, StopPcs, ListPcs, Ended
  <2>5. Handles(o) BY <1>0, <1>2, <1>3, <2>1, <2>2 DEF Handles
  <2> QED BY <2>3, <2>4, <2>5 DEF OpMoves, OpData
<1>4. CASE StartSaves(o)
  <2>1. /\ op[o].pc = "started" /\ End(o, "done") /\ handle' = [handle EXCEPT ![s] = o]
        /\ row' = [row EXCEPT ![s].status = "running", ![s].desired = "running",
                              ![s].tools = worker[s][o].cfg]
    BY <1>2, <1>4 DEF StartSaves, SaveWithTools
  <2>2. /\ \A x \in Servers : x # s => row'[x] = row[x]
        /\ row'[s].status = "running" /\ row'[s].cfg = row[s].cfg
        /\ row'[s].tools = worker[s][o].cfg
    BY <1>0, <2>1 DEF Row
  <2>3. "done" \in Ended BY DEF Ended
  <2> QED BY <1>3, <2>1, <2>2, <2>3
<1>5. CASE CommitFails(o)
  <2>1. /\ "db" \in Faults /\ row' = row /\ End(o, "failed")
        /\ handle' = [handle EXCEPT ![s] = IF op[o].pc = "closed" THEN None ELSE o]
    BY <1>2, <1>5 DEF CommitFails
  <2>2. "failed" \in Ended BY DEF Ended
  <2>3. CASE op[o].pc = "closed"
    <3>1. handle' = [handle EXCEPT ![s] = None] BY <2>1, <2>3
    <3> QED BY <1>3, <2>1, <2>2, <2>3, <3>1
  <2>4. CASE op[o].pc = "started"
    <3>1. handle' = [handle EXCEPT ![s] = o] BY <2>1, <2>4
    <3> QED BY <1>3, <2>1, <2>2, <2>4, <3>1
  <2> QED BY <1>1, <2>3, <2>4
<1>6. CASE StopSaves(o)
  <2>1. /\ op[o].pc = "closed" /\ handle' = [handle EXCEPT ![s] = None]
        /\ row' = [row EXCEPT ![s].status = "stopped", ![s].desired = DesiredOnStop(o)]
        /\ AfterStop(o)
    BY <1>2, <1>6 DEF StopSaves, Save
  <2>2. /\ \A x \in Servers : x # s => row'[x] = row[x] /\ handle'[x] = handle[x]
        /\ row'[s].status = "stopped" /\ row'[s].cfg = row[s].cfg /\ handle'[s] = None
    BY <1>0, <2>1 DEF Row
  <2>3. /\ op'[o].server = op[o].server /\ op'[o].kind = op[o].kind
        /\ \A p \in Ops : p # o => op'[p] = op[p]
        /\ \A x \in Servers : x # op[o].server => lock'[x] = lock[x]
        /\ \/ op'[o].pc = "start" /\ op[o].kind = "restart" /\ lock' = lock
           \/ op'[o].pc = "delete" /\ op[o].kind = "delete" /\ lock' = lock
           \/ /\ op'[o].pc = "done"
              /\ \A x \in Servers : lock'[x] = IF lock[x] = o THEN None ELSE lock[x]
    BY <2>1, AfterStopMoves
  <2>4. OpFrame(o) BY <1>0, <1>1, <1>2, <2>2, <2>3 DEF OpFrame, Inside
  <2>5. OpControl(o)
    BY <1>1, <2>1, <2>3 DEF OpControl, Inside, StartPcs, StopPcs, ListPcs, Ended
  <2>6. Handles(o) BY <1>0, <1>2, <2>1, <2>2, <2>3 DEF Handles
  <2> QED BY <2>4, <2>5, <2>6 DEF OpMoves, OpData
<1> QED BY <1>4, <1>5, <1>6

\* Every step of an operation is one of these moves.
LEMMA OperationMoves ==
  ASSUME TypeOK, LockInv, NEW o \in Ops, OpStep(o) \/ OpFault(o)
  PROVE  OpMoves(o)
BY QuietMoves, WriteMoves, ProbeMoves, AskMoves, SaveMoves, HandleMoves DEF OpStep, OpFault

-----------------------------------------------------------------------------
(* What a worker's step does *)

\* Worker w of server s takes the command c of operation p from its queue: it
\* answers it, closes the session, fails to, or dies; p hears of it if it still
\* waits.
Takes(s, w, p, c) ==
    /\ row' = row /\ handle' = handle /\ lock' = lock
    /\ phase' = phase /\ todo' = todo /\ confirmed' = confirmed /\ downs' = downs
    /\ \A x \in Servers : x # s => worker'[x] = worker[x]
    /\ \A v \in Ops : v # w => worker'[s][v] = worker[s][v]
    /\ worker[s][w].state = "alive" /\ worker[s][w].queue # <<>>
    /\ Head(worker[s][w].queue) = <<p, c>>
    /\ worker'[s][w].cfg = worker[s][w].cfg
    /\ worker'[s][w].queue = Tail(worker[s][w].queue)
    /\ \A q \in Ops : q # p => op'[q] = op[q]
    /\ op'[p].kind = op[p].kind /\ op'[p].server = op[p].server
    /\ ~Awaits(p, s, w) => op'[p] = op[p]
    /\ \/ /\ c = "list" /\ worker'[s][w].state = "alive"
          /\ Awaits(p, s, w) => op'[p].pc \in {"listed", "listfailed"}
       \/ /\ c = "stop" /\ worker'[s][w].state = "exited"
          /\ Awaits(p, s, w) => op'[p].pc = Answer(op[p].pc)
       \/ /\ c = "stop" /\ "stop" \in Faults /\ worker'[s][w].state = "alive"
          /\ Awaits(p, s, w) => op'[p].pc = Failure(op[p].pc)
       \/ /\ worker'[s][w].state = "dead"
          /\ Awaits(p, s, w) => op'[p].pc = "broken"

\* A reply moves the operation that awaits it, and no other.
LEMMA ReplyMoves ==
  ASSUME TypeOK, NEW s \in Servers, NEW w \in Ops, NEW p \in Ops, NEW pc, Reply(s, w, p, pc)
  PROVE  /\ \A q \in Ops : q # p => op'[q] = op[q]
         /\ op'[p].kind = op[p].kind /\ op'[p].server = op[p].server
         /\ ~Awaits(p, s, w) => op'[p] = op[p]
         /\ Awaits(p, s, w) => op'[p].pc = pc
<1>1. op[p] \in Op /\ op \in [Ops -> Op] BY DEF TypeOK
<1>2. CASE Awaits(p, s, w)
  <2>1. op' = [op EXCEPT ![p].pc = pc] BY <1>2 DEF Reply
  <2> QED BY <1>1, <1>2, <2>1 DEF Op
<1>3. CASE ~Awaits(p, s, w)
  <2>1. op' = [op EXCEPT ![p].pc = op[p].pc] BY <1>3 DEF Reply
  <2>2. op'[p] = op[p] /\ \A q \in Ops : q # p => op'[q] = op[q]
    BY <1>1, <2>1 DEF Op
  <2> QED BY <1>3, <2>2
<1> QED BY <1>2, <1>3

\* Every step of a worker takes one command.
LEMMA WorkerMoves ==
  ASSUME TypeOK, NEW s \in Servers, NEW w \in Ops, WorkerStep(s, w)
  PROVE  \E p \in Ops, c \in {"list", "stop"} : Takes(s, w, p, c)
<1>0. /\ row' = row /\ handle' = handle /\ lock' = lock
      /\ phase' = phase /\ todo' = todo /\ confirmed' = confirmed /\ downs' = downs
      /\ worker[s][w].state = "alive" /\ worker[s][w].queue # <<>>
  BY DEF WorkerStep, WorkerLists, WorkerStops, WorkerStopFails, WorkerDies, life
<1>1. /\ worker \in [Servers -> [Ops -> Worker]] /\ worker[s][w] \in Worker
      /\ worker[s][w].queue \in Seq(Ops \X {"list", "stop"})
  BY DEF TypeOK, Worker
<1>2. Head(worker[s][w].queue) \in Ops \X {"list", "stop"} BY <1>0, <1>1
<1>3. PICK p \in Ops, c \in {"list", "stop"} : Head(worker[s][w].queue) = <<p, c>>
  BY <1>2
<1>4. Head(worker[s][w].queue)[1] = p /\ Head(worker[s][w].queue)[2] = c BY <1>3
<1>5. ASSUME NEW state, NEW pc, Reply(s, w, p, pc),
             \/ worker' = [worker EXCEPT ![s][w].queue = Tail(@), ![s][w].state = state]
             \/ state = "alive" /\ worker' = [worker EXCEPT ![s][w].queue = Tail(@)],
             \/ c = "list" /\ state = "alive" /\ pc \in {"listed", "listfailed"}
             \/ c = "stop" /\ state = "exited" /\ pc = Answer(op[p].pc)
             \/ c = "stop" /\ "stop" \in Faults /\ state = "alive" /\ pc = Failure(op[p].pc)
             \/ state = "dead" /\ pc = "broken"
      PROVE  Takes(s, w, p, c)
  <2>1. /\ \A x \in Servers : x # s => worker'[x] = worker[x]
        /\ \A v \in Ops : v # w => worker'[s][v] = worker[s][v]
    BY <1>1, <1>5
  <2>2. /\ worker'[s][w].cfg = worker[s][w].cfg
        /\ worker'[s][w].queue = Tail(worker[s][w].queue)
        /\ worker'[s][w].state = state
    <3>1. CASE worker' = [worker EXCEPT ![s][w].queue = Tail(@), ![s][w].state = state]
      <4>1. worker'[s][w] = [worker[s][w] EXCEPT !.queue = Tail(@), !.state = state]
        BY <1>1, <3>1
      <4> QED BY <1>1, <4>1 DEF Worker
    <3>2. CASE state = "alive" /\ worker' = [worker EXCEPT ![s][w].queue = Tail(@)]
      <4>1. worker'[s][w] = [worker[s][w] EXCEPT !.queue = Tail(@)]
        BY <1>1, <3>2
      <4> QED BY <1>0, <1>1, <3>2, <4>1 DEF Worker
    <3> QED BY <1>5, <3>1, <3>2
  <2>3. /\ \A q \in Ops : q # p => op'[q] = op[q]
        /\ op'[p].kind = op[p].kind /\ op'[p].server = op[p].server
        /\ ~Awaits(p, s, w) => op'[p] = op[p]
        /\ Awaits(p, s, w) => op'[p].pc = pc
    BY <1>5, ReplyMoves
  <2> QED BY <1>0, <1>3, <1>5, <2>1, <2>2, <2>3 DEF Takes
<1>6. CASE WorkerLists(s, w)
  <2>1. PICK pc \in {"listed", "listfailed"} : Reply(s, w, p, pc)
    BY <1>4, <1>6 DEF WorkerLists
  <2>2. c = "list" /\ worker' = [worker EXCEPT ![s][w].queue = Tail(@)]
    BY <1>4, <1>6 DEF WorkerLists
  <2> QED BY <1>5, <2>1, <2>2
<1>7. CASE WorkerStops(s, w)
  <2>1. /\ c = "stop" /\ Reply(s, w, p, Answer(op[p].pc))
        /\ worker' = [worker EXCEPT ![s][w].queue = Tail(@), ![s][w].state = "exited"]
    BY <1>4, <1>7 DEF WorkerStops
  <2> QED BY <1>5, <2>1
<1>8. CASE WorkerStopFails(s, w)
  <2>1. /\ c = "stop" /\ "stop" \in Faults /\ Reply(s, w, p, Failure(op[p].pc))
        /\ worker' = [worker EXCEPT ![s][w].queue = Tail(@)]
    BY <1>4, <1>8 DEF WorkerStopFails
  <2> QED BY <1>5, <2>1
<1>9. CASE WorkerDies(s, w)
  <2>1. /\ Reply(s, w, p, "broken")
        /\ worker' = [worker EXCEPT ![s][w].queue = Tail(@), ![s][w].state = "dead"]
    BY <1>4, <1>9 DEF WorkerDies
  <2> QED BY <1>5, <2>1
<1> QED BY <1>6, <1>7, <1>8, <1>9 DEF WorkerStep

-----------------------------------------------------------------------------
(* Type correctness *)

\* The places an operation can be at.
Pcs == Inside \cup Ended \cup {"idle", "create", "lock"}

\* Goto to such a place keeps the type of the operations.
LEMMA GotoType ==
  ASSUME TypeOK, NEW o \in Ops, NEW pc \in Pcs, Goto(o, pc)
  PROVE  op' \in [Ops -> Op]
<1>1. op \in [Ops -> Op] /\ op[o] \in Op BY DEF TypeOK
<1>2. op' = [op EXCEPT ![o] = [op[o] EXCEPT !.pc = pc]] BY DEF Goto
<1>3. [op[o] EXCEPT !.pc = pc] \in Op BY <1>1 DEF Op, Pcs, Inside, Ended
<1> QED BY <1>1, <1>2, <1>3

\* So does End, and that of the locks.
LEMMA EndType ==
  ASSUME TypeOK, NEW o \in Ops, NEW pc \in Pcs, End(o, pc)
  PROVE  op' \in [Ops -> Op] /\ lock' \in [Servers -> Ops \cup {None}]
<1>1. Goto(o, pc) BY DEF End
<1>2. lock' \in [Servers -> Ops \cup {None}] BY DEF End, TypeOK
<1> QED BY <1>1, <1>2, GotoType

\* So does ThenStart.
LEMMA ThenStartType ==
  ASSUME TypeOK, NEW o \in Ops, NEW enabled, NEW desired, ThenStart(o, enabled, desired)
  PROVE  op' \in [Ops -> Op] /\ lock' \in [Servers -> Ops \cup {None}]
<1>1. "failed" \in Pcs /\ "done" \in Pcs BY DEF Pcs, Ended
<1>2. CASE End(o, "failed") \/ End(o, "done") BY <1>1, <1>2, EndType
<1>3. CASE /\ op' = [op EXCEPT ![o].pc = "lock", ![o].kind = "start"]
           /\ UNCHANGED lock
  <2>1. op \in [Ops -> Op] /\ op[o] \in Op BY DEF TypeOK
  <2>2. op' = [op EXCEPT ![o] = [op[o] EXCEPT !.pc = "lock", !.kind = "start"]]
    BY <1>3, <2>1
  <2>3. [op[o] EXCEPT !.pc = "lock", !.kind = "start"] \in Op BY <2>1 DEF Op, AllKinds
  <2> QED BY <1>3, <2>1, <2>2, <2>3 DEF TypeOK
<1> QED BY <1>2, <1>3 DEF ThenStart

\* So does AfterStop.
LEMMA AfterStopType ==
  ASSUME TypeOK, NEW o \in Ops, AfterStop(o)
  PROVE  op' \in [Ops -> Op] /\ lock' \in [Servers -> Ops \cup {None}]
<1>1. "start" \in Pcs /\ "delete" \in Pcs /\ "done" \in Pcs BY DEF Pcs, Ended, Inside
<1>2. CASE (Goto(o, "start") \/ Goto(o, "delete")) /\ UNCHANGED lock
  BY <1>1, <1>2, GotoType DEF TypeOK
<1>3. CASE End(o, "done") BY <1>1, <1>3, EndType
<1> QED BY <1>2, <1>3 DEF AfterStop

\* A command joins a queue of commands.
LEMMA SendType ==
  ASSUME TypeOK, NEW o \in Ops, op[o].server \in Servers, NEW c \in {"list", "stop"},
         NEW await \in Pcs, NEW refused \in Pcs, Send(o, c, await, refused)
  PROVE  op' \in [Ops -> Op] /\ worker' \in [Servers -> [Ops -> Worker]]
<1>0. worker \in [Servers -> [Ops -> Worker]] /\ "broken" \in Pcs BY DEF TypeOK, Pcs, Inside
<1>1. PICK s \in Servers : s = op[o].server OBVIOUS
<1>2. PICK t \in Ops : t = Target(o) BY <1>1 DEF Target, TypeOK
<1>3. CASE worker[s][t].state = "alive"
  <2>1. /\ worker' = [worker EXCEPT ![s][t].queue = Append(@, <<o, c>>)]
        /\ Goto(o, await)
    BY <1>1, <1>2, <1>3 DEF Send, WorkerOf
  <2>2. worker[s][t] \in Worker /\ worker[s][t].queue \in Seq(Ops \X {"list", "stop"})
    BY <1>0 DEF Worker
  <2>3. Append(worker[s][t].queue, <<o, c>>) \in Seq(Ops \X {"list", "stop"}) BY <2>2
  <2> DEFINE q == Append(worker[s][t].queue, <<o, c>>)
  <2>4. worker' = [worker EXCEPT ![s] = [worker[s] EXCEPT ![t] = [worker[s][t] EXCEPT !.queue = q]]]
    BY <1>0, <2>1
  <2>5. [worker[s][t] EXCEPT !.queue = q] \in Worker
    <3> HIDE DEF q
    <3>1. q \in Seq(Ops \X {"list", "stop"}) BY <2>3 DEF q
    <3> QED BY <2>2, <3>1 DEF Worker
  <2>6. worker' \in [Servers -> [Ops -> Worker]]
    <3> HIDE DEF q
    <3> QED BY <1>0, <2>4, <2>5
  <2> QED BY <2>1, <2>6, GotoType
<1>4. CASE worker[s][t].state # "alive"
  <2>1. (Goto(o, refused) \/ Goto(o, "broken")) /\ worker' = worker
    BY <1>1, <1>2, <1>4 DEF Send, WorkerOf
  <2> QED BY <1>0, <2>1, GotoType
<1> QED BY <1>3, <1>4

\* Save and SaveWithTools keep the type of the rows.
LEMMA SaveType ==
  ASSUME TypeOK, NEW s \in Servers,
         NEW status \in {"new", "unknown", "running", "stopped", "error", "deleted"},
         NEW desired \in {"running", "stopped"}, NEW cfg \in Configs,
         Save(s, status, desired) \/ SaveWithTools(s, status, desired, cfg)
  PROVE  row' \in [Servers -> Row]
<1>0. row \in [Servers -> Row] /\ row[s] \in Row BY DEF TypeOK
<1>1. CASE Save(s, status, desired)
  <2>1. row' = [row EXCEPT ![s] = [row[s] EXCEPT !.status = status, !.desired = desired]]
    BY <1>0, <1>1 DEF Save
  <2>2. [row[s] EXCEPT !.status = status, !.desired = desired] \in Row BY <1>0 DEF Row
  <2> QED BY <1>0, <2>1, <2>2
<1>2. CASE SaveWithTools(s, status, desired, cfg)
  <2>1. row' = [row EXCEPT ![s] = [row[s] EXCEPT !.status = status, !.desired = desired,
                                                 !.tools = cfg]]
    BY <1>0, <1>2 DEF SaveWithTools
  <2>2. [row[s] EXCEPT !.status = status, !.desired = desired, !.tools = cfg] \in Row
    BY <1>0 DEF Row
  <2> QED BY <1>0, <2>1, <2>2
<1> QED BY <1>1, <1>2

\* The initial state has the declared types.
LEMMA InitTypeOK == Init => TypeOK
<1>1. \A o \in Ops : Idle \in Op BY DEF Idle, Op
<1>2. NoWorker \in Worker BY DEF NoWorker, Worker, Configs
<1> QED BY <1>1, <1>2 DEF Init, TypeOK, Rows, Row, Configs

\* The steps of an operation keep the types.
LEMMA OpTypeOK ==
  ASSUME TypeOK, LockInv, NEW o \in Ops, OpStep(o) \/ OpFault(o)
  PROVE  TypeOK'
<1>0. /\ OpFrame(o) /\ op[o].server \in Servers
      /\ phase' = phase /\ todo' = todo /\ confirmed' = confirmed /\ downs' = downs
  BY OperationMoves DEF OpMoves, OpFrame
<1>1. PICK s \in Servers : s = op[o].server BY <1>0
<1>2. /\ op \in [Ops -> Op] /\ worker \in [Servers -> [Ops -> Worker]]
      /\ row \in [Servers -> Row] /\ handle \in [Servers -> Ops \cup {None}]
      /\ lock \in [Servers -> Ops \cup {None}]
      /\ row[s].desired \in {"running", "stopped"} /\ row[s].cfg \in Configs
      /\ \A w \in Ops : worker[s][w].cfg \in Configs
  BY DEF TypeOK, Row, Worker
<1>3. ASSUME op' \in [Ops -> Op], row' \in [Servers -> Row],
             lock' \in [Servers -> Ops \cup {None}],
             handle' \in [Servers -> Ops \cup {None}],
             worker' \in [Servers -> [Ops -> Worker]]
      PROVE  TypeOK'
  BY <1>0, <1>3 DEF TypeOK
<1>4. Inside \subseteq Pcs /\ Ended \subseteq Pcs /\ "done" \in Pcs /\ "failed" \in Pcs
  BY DEF Pcs, Ended
<1>5. CASE Enter(o)
  <2>1. op[o].kind \in AllKinds \ {"create"} BY <1>5 DEF Enter, LockInv
  <2>2. (IF op[o].kind = "restart" THEN "stop" ELSE op[o].kind) \in Pcs
    BY <2>1 DEF AllKinds, Pcs, Inside
  <2>3. op' \in [Ops -> Op] BY <1>5, <2>2, GotoType DEF Enter
  <2> QED BY <1>2, <1>3, <1>5, <2>3 DEF Enter
<1>6. CASE \/ NotFound(o) \/ CreateConflict(o) \/ UpdateRejected(o) \/ CleanedUp(o)
           \/ Broken(o) \/ StatementFails(o)
  <2>1. PICK pc \in {"done", "failed"} : End(o, pc)
    BY <1>6 DEF NotFound, CreateConflict, UpdateRejected, CleanedUp, Broken, StatementFails
  <2>2. row' = row /\ handle' = handle /\ worker' = worker
    BY <1>6 DEF NotFound, CreateConflict, UpdateRejected, CleanedUp, Broken, StatementFails
  <2> QED BY <1>2, <1>3, <1>4, <2>1, <2>2, EndType
<1>7. CASE TimesOut(o)
  <2>1. Failure(op[o].pc) \in Pcs BY <1>7 DEF TimesOut, Awaiting, Failure, Pcs, Inside
  <2> QED BY <1>2, <1>3, <1>7, <2>1, GotoType DEF TimesOut, memory
<1>8. CASE CreateServer(o)
  <2>1. PICK enabled \in {"yes", "no"}, desired \in {"running", "stopped"} :
          /\ row' = [row EXCEPT ![s] =
                      [status |-> "unknown", desired |-> desired, enabled |-> enabled,
                       cfg |-> o, tools |-> None]]
          /\ ThenStart(o, enabled, desired)
    BY <1>1, <1>8 DEF CreateServer
  <2>2. row' \in [Servers -> Row] BY <1>2, <2>1 DEF Row, Configs
  <2> QED BY <1>2, <1>3, <1>8, <2>1, <2>2, ThenStartType DEF CreateServer
<1>9. CASE UpdateServer(o)
  <2>1. PICK enabled \in {"yes", "no"}, desired \in {"running", "stopped"} :
          /\ row' = [row EXCEPT ![s].desired = desired, ![s].enabled = enabled, ![s].cfg = o]
          /\ ThenStart(o, enabled, desired)
    BY <1>1, <1>9 DEF UpdateServer
  <2>2. row' \in [Servers -> Row]
    <3>1. row' = [row EXCEPT ![s] = [row[s] EXCEPT !.desired = desired, !.enabled = enabled,
                                                   !.cfg = o]]
      BY <1>2, <2>1
    <3>2. [row[s] EXCEPT !.desired = desired, !.enabled = enabled, !.cfg = o] \in Row
      <4>1. row[s] \in Row /\ o \in Configs BY <1>2 DEF Configs
      <4> QED BY <4>1 DEF Row
    <3> QED BY <1>2, <3>1, <3>2
  <2> QED BY <1>2, <1>3, <1>9, <2>1, <2>2, ThenStartType DEF UpdateServer
<1>10. CASE DeleteServer(o)
  <2>1. CASE Goto(o, "stop") /\ UNCHANGED <<row, lock>>
    <3>1. "stop" \in Pcs BY DEF Pcs, Inside
    <3> QED BY <1>2, <1>3, <1>10, <2>1, <3>1, GotoType DEF DeleteServer
  <2>2. CASE row' = [row EXCEPT ![s].status = "deleted"] /\ End(o, "done")
    <3>1. row' \in [Servers -> Row]
      <4>1. row' = [row EXCEPT ![s] = [row[s] EXCEPT !.status = "deleted"]] BY <2>2
      <4>2. [row[s] EXCEPT !.status = "deleted"] \in Row BY <1>2 DEF Row
      <4> QED BY <1>2, <4>1, <4>2
    <3> QED BY <1>2, <1>3, <1>4, <1>10, <2>2, <3>1, EndType DEF DeleteServer
  <2> QED BY <1>1, <1>10, <2>1, <2>2 DEF DeleteServer
<1>11. CASE Probe(o)
  <2>1. worker' = [worker EXCEPT ![s][o] =
                    [state |-> "starting", cfg |-> row[s].cfg, queue |-> <<>>]]
    BY <1>1, <1>11 DEF Probe
  <2>2. [state |-> "starting", cfg |-> row[s].cfg, queue |-> <<>>] \in Worker
    BY <1>2 DEF Worker
  <2>3. worker' \in [Servers -> [Ops -> Worker]] BY <1>2, <2>1, <2>2
  <2>4. "probe" \in Pcs BY DEF Pcs, Inside
  <2> QED BY <1>2, <1>3, <1>11, <2>3, <2>4, GotoType DEF Probe
<1>12. CASE ProbeOk(o) \/ ProbeFails(o)
  <2>1. PICK state \in {"alive", "exited"} : worker' = [worker EXCEPT ![s][o].state = state]
    BY <1>1, <1>12 DEF ProbeOk, ProbeFails
  <2>2. worker' \in [Servers -> [Ops -> Worker]]
    <3>1. worker' = [worker EXCEPT ![s] =
                       [worker[s] EXCEPT ![o] = [worker[s][o] EXCEPT !.state = state]]]
      BY <2>1
    <3>2. worker[s][o] \in Worker BY <1>2
    <3>3. [worker[s][o] EXCEPT !.state = state] \in Worker BY <3>2 DEF Worker
    <3> QED BY <1>2, <3>1, <3>3
  <2>3. "started" \in Pcs /\ "startfailed" \in Pcs BY DEF Pcs, Inside
  <2> QED BY <1>2, <1>3, <1>12, <2>2, <2>3, GotoType DEF ProbeOk, ProbeFails
<1>13. CASE SaveFails(o) \/ CheckLive(o) \/ StopWorker(o)
  <2>1. {"discard", "unsaved", "list", "listfailed", "close", "closefailed"} \subseteq Pcs
    BY DEF Pcs, Inside
  <2>2. op' \in [Ops -> Op] /\ worker' \in [Servers -> [Ops -> Worker]]
    BY <1>0, <1>13, <2>1, SendType DEF SaveFails, CheckLive, StopWorker
  <2> QED BY <1>2, <1>3, <1>13, <2>2 DEF SaveFails, CheckLive, StopWorker
<1>14. CASE CheckSaves(o)
  <2>1. "cleanup" \in Pcs /\ "unsaved" \in Pcs BY DEF Pcs, Inside
  <2>2. op' \in [Ops -> Op] /\ worker' \in [Servers -> [Ops -> Worker]]
    BY <1>0, <1>14, <2>1, SendType DEF CheckSaves
  <2>3. row' \in [Servers -> Row]
    BY <1>1, <1>2, <1>14, SaveType DEF CheckSaves
  <2> QED BY <1>2, <1>3, <1>14, <2>2, <2>3 DEF CheckSaves
<1>15. CASE StartSaves(o)
  <2>1. row' \in [Servers -> Row] BY <1>1, <1>2, <1>15, SaveType DEF StartSaves
  <2>2. op' \in [Ops -> Op] /\ lock' \in [Servers -> Ops \cup {None}]
    BY <1>4, <1>15, EndType DEF StartSaves
  <2> QED BY <1>2, <1>3, <1>15, <2>1, <2>2 DEF StartSaves
<1>16. CASE CommitFails(o)
  <2>1. op' \in [Ops -> Op] /\ lock' \in [Servers -> Ops \cup {None}]
    BY <1>4, <1>16, EndType DEF CommitFails
  <2> QED BY <1>2, <1>3, <1>16, <2>1 DEF CommitFails
<1>17. CASE StartWithHandle(o) \/ CheckLiveSaves(o) \/ SaveError(o) \/ StopFails(o)
  <2>1. PICK pc \in {"done", "failed"} : End(o, pc)
    BY <1>17 DEF StartWithHandle, CheckLiveSaves, SaveError, StopFails
  <2>2. op' \in [Ops -> Op] /\ lock' \in [Servers -> Ops \cup {None}]
    BY <1>4, <2>1, EndType
  <2>3. PICK t \in Ops : t = Target(o) BY <1>1, <1>2 DEF Target
  <2>4. DesiredOnStop(o) \in {"running", "stopped"} BY <1>1, <1>2 DEF DesiredOnStop
  <2>5. CASE CheckLiveSaves(o)
    <3>1. SaveWithTools(s, "running", row[s].desired, worker[s][t].cfg)
      BY <1>1, <2>3, <2>5 DEF CheckLiveSaves, WorkerOf
    <3>2. row' \in [Servers -> Row] BY <1>2, <3>1, SaveType
    <3> QED BY <1>2, <1>3, <2>2, <2>5, <3>2 DEF CheckLiveSaves
  <2>6. CASE StartWithHandle(o) \/ SaveError(o) \/ StopFails(o)
    <3>1. PICK status \in {"running", "error"}, desired \in {"running", "stopped"} :
            Save(s, status, desired)
      BY <1>1, <1>2, <2>4, <2>6 DEF StartWithHandle, SaveError, StopFails
    <3>2. row' \in [Servers -> Row] BY <1>2, <3>1, SaveType
    <3> QED BY <1>2, <1>3, <2>2, <2>6, <3>2 DEF StartWithHandle, SaveError, StopFails
  <2> QED BY <1>17, <2>5, <2>6
<1>18. CASE StopWithoutHandle(o) \/ StopSaves(o)
  <2>1. op' \in [Ops -> Op] /\ lock' \in [Servers -> Ops \cup {None}]
    BY <1>18, AfterStopType DEF StopWithoutHandle, StopSaves
  <2>2. DesiredOnStop(o) \in {"running", "stopped"} BY <1>1, <1>2 DEF DesiredOnStop
  <2>3. PICK desired \in {"running", "stopped"} : Save(s, "stopped", desired)
    BY <1>1, <1>18, <2>2 DEF StopWithoutHandle, StopSaves
  <2>4. row' \in [Servers -> Row] BY <1>2, <2>3, SaveType
  <2> QED BY <1>2, <1>3, <1>18, <2>1, <2>4 DEF StopWithoutHandle, StopSaves
<1> QED BY <1>5, <1>6, <1>7, <1>8, <1>9, <1>10, <1>11, <1>12, <1>13, <1>14, <1>15, <1>16,
           <1>17, <1>18 DEF OpStep, OpFault

\* The steps of a worker keep the types.
LEMMA WorkerTypeOK ==
  ASSUME TypeOK, NEW s \in Servers, NEW w \in Ops, WorkerStep(s, w)
  PROVE  TypeOK'
<1>0. /\ row' = row /\ handle' = handle /\ lock' = lock
      /\ phase' = phase /\ todo' = todo /\ confirmed' = confirmed /\ downs' = downs
      /\ worker[s][w].queue # <<>>
  BY DEF WorkerStep, WorkerLists, WorkerStops, WorkerStopFails, WorkerDies, life
<1>1. /\ worker \in [Servers -> [Ops -> Worker]] /\ worker[s][w] \in Worker
      /\ worker[s][w].queue \in Seq(Ops \X {"list", "stop"}) /\ op \in [Ops -> Op]
  BY DEF TypeOK, Worker
<1>2. /\ Tail(worker[s][w].queue) \in Seq(Ops \X {"list", "stop"})
      /\ Head(worker[s][w].queue)[1] \in Ops
  BY <1>0, <1>1
<1>3. PICK p \in Ops : p = Head(worker[s][w].queue)[1] BY <1>2
<1>4. PICK q \in Seq(Ops \X {"list", "stop"}) : q = Tail(worker[s][w].queue) BY <1>2
<1>5. worker' \in [Servers -> [Ops -> Worker]]
  <2>1. \/ worker' = [worker EXCEPT ![s] = [worker[s] EXCEPT ![w] =
                        [worker[s][w] EXCEPT !.queue = q]]]
        \/ \E state \in {"exited", "dead"} :
             worker' = [worker EXCEPT ![s] = [worker[s] EXCEPT ![w] =
                          [worker[s][w] EXCEPT !.queue = q, !.state = state]]]
    <3>1. CASE WorkerLists(s, w) \/ WorkerStopFails(s, w)
      <4>1. worker' = [worker EXCEPT ![s][w].queue = q]
        BY <1>4, <3>1 DEF WorkerLists, WorkerStopFails
      <4> QED BY <4>1
    <3>2. CASE WorkerStops(s, w)
      <4>1. worker' = [worker EXCEPT ![s][w].queue = q, ![s][w].state = "exited"]
        BY <1>4, <3>2 DEF WorkerStops
      <4> QED BY <1>1, <4>1
    <3>3. CASE WorkerDies(s, w)
      <4>1. worker' = [worker EXCEPT ![s][w].queue = q, ![s][w].state = "dead"]
        BY <1>4, <3>3 DEF WorkerDies
      <4> QED BY <1>1, <4>1
    <3> QED BY <3>1, <3>2, <3>3 DEF WorkerStep
  <2>2. /\ [worker[s][w] EXCEPT !.queue = q] \in Worker
        /\ \A state \in {"exited", "dead"} :
             [worker[s][w] EXCEPT !.queue = q, !.state = state] \in Worker
    BY <1>1 DEF Worker
  <2>3. PICK r \in Worker : worker' = [worker EXCEPT ![s] = [worker[s] EXCEPT ![w] = r]]
    BY <2>1, <2>2
  <2> QED BY <1>1, <2>3
<1>6. op' \in [Ops -> Op]
  <2>1. ASSUME NEW pc \in Pcs, Reply(s, w, p, pc) PROVE op' \in [Ops -> Op]
    <3>1. CASE Awaits(p, s, w)
      <4>1. Goto(p, pc) BY <2>1, <3>1 DEF Reply, Goto
      <4> QED BY <4>1, GotoType
    <3>2. CASE ~Awaits(p, s, w)
      <4>1. op' = [op EXCEPT ![p] = [op[p] EXCEPT !.pc = op[p].pc]]
        BY <2>1, <3>2 DEF Reply
      <4>2. [op[p] EXCEPT !.pc = op[p].pc] \in Op BY <1>1 DEF Op
      <4> QED BY <1>1, <4>1, <4>2
    <3> QED BY <3>1, <3>2
  <2>2. {"listed", "listfailed", "broken", "closed", "saved", "unsaved", "closefailed"}
          \subseteq Pcs
    BY DEF Pcs, Inside
  <2>3. Answer(op[p].pc) \in Pcs /\ Failure(op[p].pc) \in Pcs
    BY <2>2 DEF Answer, Failure
  <2>4. PICK pc \in Pcs : Reply(s, w, p, pc)
    BY <1>3, <2>2, <2>3
       DEF WorkerStep, WorkerLists, WorkerStops, WorkerStopFails, WorkerDies
  <2> QED BY <2>1, <2>4
<1> QED BY <1>0, <1>5, <1>6 DEF TypeOK

\* A call, and the steps of the lifespan and of a crash, keep the types.
LEMMA RestTypeOK ==
  ASSUME TypeOK,
         \/ \E o \in Calls, s \in Servers, k \in Kinds : Call(o, s, k)
         \/ LifeStep \/ Shutdown \/ Crash
  PROVE  TypeOK'
<1>0. /\ op \in [Ops -> Op] /\ Life \in Ops /\ Calls \subseteq Ops /\ Idle \in Op
      /\ row \in [Servers -> Row] /\ NoWorker \in Worker /\ downs \in Nat
  BY DEF TypeOK, Ops, Idle, Op, NoWorker, Worker, Configs
<1>1. CASE \E o \in Calls, s \in Servers, k \in Kinds : Call(o, s, k)
  <2>1. PICK o \in Calls, s \in Servers, k \in Kinds : Call(o, s, k) BY <1>1
  <2>2. PICK pc \in {"create", "failed", "lock"} :
          op' = [op EXCEPT ![o] = [kind |-> k, server |-> s, pc |-> pc]]
    BY <2>1 DEF Call
  <2>3. [kind |-> k, server |-> s, pc |-> pc] \in Op
    BY <2>1, KindsAssumption DEF Op
  <2> QED BY <1>0, <2>1, <2>2, <2>3 DEF Call, TypeOK, memory, life
<1>2. CASE Boot BY <1>2 DEF Boot, TypeOK, memory
<1>3. CASE Up BY <1>3 DEF Up, TypeOK, memory
<1>4. CASE Shutdown BY <1>4 DEF Shutdown, TypeOK, memory
<1>5. CASE LifeGoesOn
  <2>1. op' \in [Ops -> Op] BY <1>0, <1>5 DEF LifeGoesOn
  <2>2. row' \in [Servers -> Row]
    <3>1. CASE row' = row BY <1>0, <3>1
    <3>2. CASE row' = [row EXCEPT ![op[Life].server].status = "error"]
      BY <1>0, <3>2 DEF Row
    <3> QED BY <1>5, <3>1, <3>2 DEF LifeGoesOn
  <2> QED BY <1>5, <2>1, <2>2 DEF LifeGoesOn, TypeOK, memory
<1>6. CASE \E s \in Servers : LifeTakes(s)
  <2>1. PICK s \in Servers : LifeTakes(s) BY <1>6
  <2>2. /\ [kind |-> "start", server |-> s, pc |-> "lock"] \in Op
        /\ [kind |-> "shutdown", server |-> s, pc |-> "stop"] \in Op
    BY DEF Op, AllKinds
  <2>3. op' \in [Ops -> Op] BY <1>0, <2>1, <2>2 DEF LifeTakes
  <2> QED BY <2>1, <2>3 DEF LifeTakes, TypeOK, memory, life
<1>7. CASE \E s \in Servers : BootRefused(s)
  <2>1. PICK s \in Servers : BootRefused(s) BY <1>7
  <2>2. row' \in [Servers -> Row] BY <1>0, <2>1 DEF BootRefused, Row
  <2> QED BY <2>1, <2>2 DEF BootRefused, TypeOK, memory
<1>8. ASSUME Down, op' \in [Ops -> Op] PROVE TypeOK'
  BY <1>0, <1>8 DEF Down, TypeOK
<1>9. CASE ShutdownEnds BY <1>0, <1>8, <1>9 DEF ShutdownEnds
<1>10. CASE Crash
  <2>1. \A o \in Ops : [op[o] EXCEPT !.pc = IF @ = "done" THEN @ ELSE "failed"] \in Op
    BY <1>0 DEF Op
  <2>2. op' \in [Ops -> Op] BY <1>0, <1>10, <2>1 DEF Crash
  <2> QED BY <1>8, <1>10, <2>2 DEF Crash
<1> QED BY <1>1, <1>2, <1>3, <1>4, <1>5, <1>6, <1>7, <1>9, <1>10 DEF LifeStep

-----------------------------------------------------------------------------
(* Mutual exclusion *)

\* Two operations inside the same server are one: they hold its lock, or the
\* one that holds none is shutdown, which runs when every call has ended.
LEMMA Exclusive ==
  ASSUME TypeOK, LockInv, LifeInv, NEW o \in Ops, NEW p \in Ops,
         op[o].pc \in Inside, op[p].pc \in Inside, op[o].server = op[p].server
  PROVE  o = p
<1>1. CASE op[o].kind # "shutdown" /\ op[p].kind # "shutdown"
  BY <1>1 DEF LockInv
<1>2. ASSUME NEW q \in Ops, NEW r \in Ops, op[q].kind = "shutdown", op[r].pc \in Inside
      PROVE  r = Life /\ q = Life
  <2>1. q = Life BY <1>2 DEF LifeInv, Ops
  <2>2. phase # "up" BY <1>2, <2>1 DEF LifeInv, Idle
  <2>3. r \notin Calls BY <1>2, <2>2 DEF LifeInv, Inside, Ended
  <2> QED BY <2>1, <2>3 DEF Ops
<1> QED BY <1>1, <1>2

\* The steps of an operation keep the lock invariant.
LEMMA OpLock ==
  ASSUME TypeOK, LockInv, NEW o \in Ops, OpMoves(o)
  PROVE  LockInv'
<1>0. /\ OpFrame(o) /\ OpControl(o) /\ None \notin Ops
      /\ lock \in [Servers -> Ops \cup {None}]
  BY NamesAssumption DEF OpMoves, Ops, TypeOK
<1>1. PICK s \in Servers : s = op[o].server BY <1>0 DEF OpFrame
<1>2. /\ op'[o].server = s /\ \A p \in Ops : p # o => op'[p] = op[p]
      /\ \A x \in Servers : x # s => lock'[x] = lock[x]
  BY <1>0, <1>1 DEF OpFrame
<1>3. \A x \in Servers : lock[x] = o => x = s BY <1>0, <1>1 DEF LockInv
<1>4. \/ /\ op[o].pc = "lock" /\ lock[s] = None /\ lock'[s] = o
         /\ op'[o].pc \in Inside /\ op'[o].kind = op[o].kind /\ op[o].kind # "shutdown"
      \/ /\ op[o].pc \in Inside /\ op'[o].pc \in Inside
         /\ lock'[s] = lock[s] /\ op'[o].kind = op[o].kind
      \/ /\ op'[o].pc \in Ended
         /\ lock'[s] = (IF lock[s] = o THEN None ELSE lock[s])
      \/ /\ op'[o].pc = "lock" /\ lock'[s] = lock[s] /\ op'[o].kind = "start"
  <2>1. op[o].pc = "lock" => op[o].kind \in AllKinds \ {"create"} BY DEF LockInv
  <2>2. op[o].pc = "lock" =>
          /\ (IF op[o].kind = "restart" THEN "stop" ELSE op[o].kind) \in Inside
          /\ op[o].kind # "shutdown"
    BY <2>1 DEF AllKinds, Inside
  <2> QED BY <1>0, <1>1, <2>2 DEF OpControl
<1>5. ASSUME NEW x \in Servers, lock'[x] # None
      PROVE  /\ op'[lock'[x]].server = x /\ op'[lock'[x]].kind # "shutdown"
             /\ op'[lock'[x]].pc \in Inside \cup {"lock"}
  <2>1. CASE lock'[x] = o
    <3>1. x = s BY <1>2, <1>3, <2>1
    <3>2. lock[s] = o => /\ op[o].kind # "shutdown" /\ op[o].pc \in Inside \cup {"lock"}
      BY <1>0 DEF LockInv
    <3> QED BY <1>0, <1>2, <1>4, <2>1, <3>1, <3>2
  <2>2. CASE lock'[x] # o
    <3>1. lock'[x] = lock[x] BY <1>0, <1>2, <1>4, <1>5, <2>2
    <3>2. PICK p \in Ops : p = lock[x] BY <1>0, <1>5, <3>1
    <3>3. op'[p] = op[p] BY <1>2, <2>2, <3>1, <3>2
    <3>4. op[p].server = x /\ op[p].kind # "shutdown" /\ op[p].pc \in Inside \cup {"lock"}
      BY <1>0, <3>2 DEF LockInv
    <3> QED BY <3>1, <3>2, <3>3, <3>4
  <2> QED BY <2>1, <2>2
<1>6. ASSUME NEW p \in Ops, op'[p].pc \in Inside, op'[p].kind # "shutdown"
      PROVE  lock'[op'[p].server] = p
  <2>1. CASE p = o
    <3>1. op[o].pc \in Inside /\ op[o].kind # "shutdown" => lock[s] = o
      BY <1>1 DEF LockInv
    <3>2. op'[o].pc # "lock" /\ op'[o].pc \notin Ended BY <1>6, <2>1 DEF Inside, Ended
    <3> QED BY <1>2, <1>4, <1>6, <2>1, <3>1, <3>2
  <2>2. CASE p # o
    <3>1. op'[p] = op[p] BY <1>2, <2>2
    <3>2. lock[op[p].server] = p /\ op[p].server \in Servers BY <1>6, <3>1 DEF LockInv
    <3>3. CASE op[p].server = s BY <1>0, <1>2, <1>4, <2>2, <3>1, <3>2, <3>3
    <3>4. CASE op[p].server # s BY <1>2, <3>1, <3>2, <3>4
    <3> QED BY <3>3, <3>4
  <2> QED BY <2>1, <2>2
<1>7. ASSUME NEW p \in Ops
      PROVE  /\ op'[p].pc \in Inside \cup {"lock", "create"} => op'[p].server \in Servers
             /\ op'[p].pc = "lock" => op'[p].kind \in AllKinds \ {"create"}
             /\ op'[p].pc = "check" => op'[p].kind = "check"
  <2>1. CASE p = o
    <3>1. op'[o].pc = "lock" => op'[o].kind = "start" BY <1>4 DEF Inside, Ended
    <3>2. op'[o].pc = "check" => op'[o].kind = "check" BY <1>0 DEF OpControl
    <3> QED BY <1>2, <2>1, <3>1, <3>2 DEF AllKinds
  <2>2. CASE p # o BY <1>2, <2>2 DEF LockInv
  <2> QED BY <2>1, <2>2
<1> QED BY <1>5, <1>6, <1>7 DEF LockInv

\* The steps of an operation keep the life invariant.
LEMMA OpLife ==
  ASSUME TypeOK, LockInv, LifeInv, NEW o \in Ops, OpMoves(o)
  PROVE  LifeInv'
<1>0. /\ OpFrame(o) /\ OpControl(o) BY DEF OpMoves
<1>1. /\ phase' = phase /\ todo' = todo /\ confirmed' = confirmed
      /\ op'[o].server = op[o].server /\ \A p \in Ops : p # o => op'[p] = op[p]
      /\ op[o].pc \in Inside \cup {"lock", "create"}
  BY <1>0 DEF OpFrame
<1>2. op'[o].kind \in {op[o].kind, "start"} BY <1>0 DEF OpControl
<1>3. CASE o = Life
  <2>1. op[Life] # Idle BY <1>1, <1>3 DEF Idle, Inside
  <2>2. \A p \in Calls : op'[p] = op[p] BY <1>1, <1>3, NamesAssumption DEF Ops
  <2>3. \/ /\ op'[Life].kind = "start" /\ op'[Life].pc \in StartPcs
           /\ phase = "boot" /\ confirmed /\ op[Life].server \in todo
        \/ op'[Life].kind = "shutdown" /\ op'[Life].pc \in StopPcs /\ phase = "closing"
    BY <1>0, <1>3, <2>1 DEF LifeInv, OpControl
  <2> QED BY <1>1, <1>3, <2>2, <2>3 DEF LifeInv
<1>4. CASE o \in Calls
  <2>1. op'[Life] = op[Life] BY <1>1, <1>4, NamesAssumption DEF Ops
  <2>2. phase = "up" BY <1>1, <1>4 DEF LifeInv, Inside, Ended
  <2>3. \A p \in Calls : op'[p].kind # "shutdown"
    BY <1>1, <1>2, <1>4 DEF LifeInv, Ops
  <2> QED BY <1>1, <2>1, <2>2, <2>3 DEF LifeInv
<1> QED BY <1>3, <1>4 DEF Ops

\* The steps of an operation keep the invariant of the unused ids.
LEMMA OpNew ==
  ASSUME TypeOK, LockInv, NewInv, NEW o \in Ops, OpMoves(o)
  PROVE  NewInv'
<1>0. OpFrame(o) /\ OpData(o) BY DEF OpMoves
<1>1. PICK s \in Servers : s = op[o].server BY <1>0 DEF OpFrame
<1>2. /\ op'[o].server = s /\ \A p \in Ops : p # o => op'[p] = op[p]
      /\ \A x \in Servers : x # s => row'[x] = row[x] /\ handle'[x] = handle[x]
      /\ todo' = todo /\ op[o].pc \in Inside \cup {"lock", "create"}
  BY <1>0, <1>1 DEF OpFrame
<1>3. CASE row[s].status = "new"
  <2>1. op[o].pc = "create" BY <1>1, <1>2, <1>3 DEF NewInv, Inside
  <2>2. \/ row'[s] = row[s] /\ handle'[s] = handle[s] /\ op'[o].pc = "failed"
        \/ row'[s].status = "unknown"
    BY <1>0, <1>1, <2>1
       DEF OpData, Keeps, Writes, Probes, Asks, Saves, Handles
  <2> QED BY <1>1, <1>2, <2>2 DEF NewInv
<1>4. CASE row[s].status # "new"
  <2>1. row'[s].status # "new"
    BY <1>0, <1>1, <1>4
       DEF OpData, Keeps, Writes, Probes, Asks, Saves, Handles
  <2> QED BY <1>2, <2>1 DEF NewInv
<1> QED BY <1>3, <1>4

\* An operation outside its server leaves the sessions there alone, and the row
\* unless it creates it; inside, it is the only one.
LEMMA OpAlone ==
  ASSUME TypeOK, LockInv, LifeInv, NEW o \in Ops, OpMoves(o)
  PROVE  \/ /\ op[o].pc \notin Inside
            /\ handle'[op[o].server] = handle[op[o].server]
            /\ worker'[op[o].server] = worker[op[o].server]
            /\ \/ row'[op[o].server] = row[op[o].server]
               \/ row[op[o].server].status = "new"
         \/ /\ op[o].pc \in Inside
            /\ \A p \in Ops : p # o /\ op[p].server = op[o].server => op[p].pc \notin Inside
<1>1. CASE op[o].pc \in Inside BY SMTT(30), <1>1, Exclusive
<1>2. CASE op[o].pc \notin Inside
  <2>1. op[o].pc \notin {"start", "stop", "check", "update", "delete", "probe", "started",
           "startfailed", "list", "listed", "listfailed", "close", "closed", "closefailed"}
    BY <1>2 DEF Inside
  <2> QED BY <1>2, <2>1 DEF OpMoves, OpData, Keeps, Writes, Probes, Asks, Saves, Handles
<1> QED BY <1>1, <1>2

\* The steps of an operation keep the configurations.
LEMMA OpConfig ==
  ASSUME TypeOK, LockInv, LifeInv, NewInv, ConfigInv, NEW o \in Ops, OpMoves(o)
  PROVE  ConfigInv'
<1>0. OpFrame(o) /\ OpData(o) /\ None \notin Ops
  BY NamesAssumption DEF OpMoves, Ops
<1>1. PICK s \in Servers : s = op[o].server BY <1>0 DEF OpFrame
<1>2. /\ op'[o].server = s /\ \A p \in Ops : p # o => op'[p] = op[p]
      /\ \A x \in Servers : x # s => /\ row'[x] = row[x] /\ handle'[x] = handle[x]
                                     /\ worker'[x] = worker[x]
  BY <1>0, <1>1 DEF OpFrame
<1>3. /\ handle[s] \in Ops \cup {None}
      /\ handle[s] # None => worker[s][handle[s]].cfg = row[s].cfg /\ Exists(s)
      /\ op[o].pc \in {"probe", "started"} =>
           handle[s] = None /\ Exists(s) /\ worker[s][o].cfg = row[s].cfg
      /\ row[s].status = "new" => handle[s] = None
  BY <1>1 DEF ConfigInv, SessionHasConfig, TypeOK, NewInv
<1>4. Target(o) = IF handle[s] # None THEN handle[s] ELSE o BY <1>1 DEF Target
<1>5. /\ handle'[s] # None =>
           /\ worker'[s][handle'[s]].cfg = row'[s].cfg
           /\ row'[s].status \notin {"new", "deleted"}
      /\ op'[o].pc \in {"probe", "started"} =>
           /\ handle'[s] = None /\ row'[s].status \notin {"new", "deleted"}
           /\ worker'[s][o].cfg = row'[s].cfg
  <2>1. CASE Keeps(o) BY <1>1, <1>3, <2>1 DEF Keeps, Exists
  <2>2. CASE Writes(o) BY <1>1, <1>3, <2>2 DEF Writes, Exists, Ended
  <2>3. CASE Probes(o) BY <1>1, <1>3, <2>3 DEF Probes, Exists
  <2>4. CASE Asks(o)
    <3>1. PICK c \in {"list", "stop"} : Sends(o, c) BY <2>4 DEF Asks
    <3>2. /\ handle'[s] = handle[s]
          /\ handle[s] # None => worker'[s][handle[s]].cfg = worker[s][handle[s]].cfg
      BY <1>1, <1>4, <3>1 DEF Sends
    <3>3. row'[s].cfg = row[s].cfg /\ op'[o].pc \notin {"probe", "started"}
      BY <1>1, <2>4 DEF Asks
    <3>4. row'[s] = row[s] \/ handle[s] = None BY <1>1, <1>3, <2>4 DEF Asks
    <3> QED BY <1>3, <3>2, <3>3, <3>4 DEF Exists
  <2>5. CASE Saves(o) BY <1>1, <1>3, <2>5 DEF Saves, Exists, Ended
  <2>6. CASE Handles(o) BY <1>0, <1>1, <1>3, <2>6 DEF Handles, Exists
  <2> QED BY <1>0, <2>1, <2>2, <2>3, <2>4, <2>5, <2>6 DEF OpData
<1>6. ASSUME NEW p \in Ops, p # o, op[p].pc \in {"probe", "started"}, op[p].server = s
      PROVE  handle'[s] = None /\ row'[s].status \notin {"new", "deleted"}
             /\ worker'[s][p].cfg = row'[s].cfg
  <2>1. handle[s] = None /\ Exists(s) /\ worker[s][p].cfg = row[s].cfg
    BY <1>6 DEF ConfigInv
  <2>2. /\ handle'[s] = handle[s] /\ worker'[s] = worker[s]
        /\ row'[s] = row[s] \/ row[s].status = "new"
    BY <1>1, <1>6, OpAlone DEF Inside
  <2> QED BY <2>1, <2>2 DEF Exists
<1>7. ASSUME NEW x \in Servers, handle'[x] # None
      PROVE  worker'[x][handle'[x]].cfg = row'[x].cfg
             /\ row'[x].status \notin {"new", "deleted"}
  BY <1>2, <1>5, <1>7 DEF ConfigInv, SessionHasConfig, Exists
<1>8. ASSUME NEW p \in Ops, op'[p].pc \in {"probe", "started"}
      PROVE  /\ handle'[op'[p].server] = None
             /\ row'[op'[p].server].status \notin {"new", "deleted"}
             /\ worker'[op'[p].server][p].cfg = row'[op'[p].server].cfg
  <2>1. CASE p = o BY <1>2, <1>5, <1>8, <2>1
  <2>2. CASE p # o
    <3>1. op'[p] = op[p] BY <1>2, <2>2
    <3>2. op[p].server \in Servers BY <1>8, <3>1 DEF LockInv, Inside
    <3>3. CASE op[p].server = s BY <1>6, <1>8, <2>2, <3>1, <3>3
    <3>4. CASE op[p].server # s BY <1>2, <1>8, <3>1, <3>2, <3>4 DEF ConfigInv, Exists
    <3> QED BY <3>3, <3>4
  <2> QED BY <2>1, <2>2
<1> QED BY <1>7, <1>8 DEF ConfigInv, SessionHasConfig, Exists

\* What a queue holds after a command has joined it.
LEMMA AppendHolds ==
  ASSUME NEW T, NEW q \in Seq(T), NEW e \in T, NEW i \in DOMAIN Append(q, e)
  PROVE  (i \in DOMAIN q /\ Append(q, e)[i] = q[i]) \/ Append(q, e)[i] = e
OBVIOUS

\* What a queue holds after its first command has left it.
LEMMA TailHolds ==
  ASSUME NEW T, NEW q \in Seq(T), q # <<>>, NEW i \in DOMAIN Tail(q)
  PROVE  i + 1 \in DOMAIN q /\ Tail(q)[i] = q[i + 1]
OBVIOUS

\* The steps of an operation keep the invariant of the list commands.
LEMMA OpList ==
  ASSUME TypeOK, LockInv, LifeInv, ListInv, NEW o \in Ops, OpMoves(o)
  PROVE  ListInv'
<1>0. OpFrame(o) /\ OpData(o) /\ OpControl(o) /\ None \notin Ops
  BY NamesAssumption DEF OpMoves, Ops
<1>1. PICK s \in Servers : s = op[o].server BY <1>0 DEF OpFrame
<1>2. /\ op'[o].server = s /\ \A p \in Ops : p # o => op'[p] = op[p]
      /\ \A x \in Servers : x # s => handle'[x] = handle[x] /\ worker'[x] = worker[x]
  BY <1>0, <1>1 DEF OpFrame
<1>3. PICK t \in Ops : t = Target(o) BY <1>1 DEF Target, TypeOK
<1>4. \A p \in Ops : op[p].kind = "check" /\ op[p].pc \in ListPcs =>
                       op'[p].kind = "check" /\ op'[p].pc \in ListPcs
  BY <1>0, <1>2 DEF OpControl
<1>5. ASSUME NEW x \in Servers, NEW w \in Ops
      PROVE  \/ worker'[x][w].queue = worker[x][w].queue
             \/ worker'[x][w].queue = <<>>
             \/ \E c \in {"list", "stop"} :
                  /\ worker'[x][w].queue = Append(worker[x][w].queue, <<o, c>>)
                  /\ c = "list" => op'[o].kind = "check" /\ op'[o].pc \in ListPcs
  <2>1. CASE x # s BY <1>2, <2>1
  <2>2. CASE x = s /\ Probes(o)
    <3>1. CASE w # o BY <1>1, <2>2, <3>1 DEF Probes
    <3>2. CASE w = o
      <4>1. \/ worker'[s][o] = [state |-> "starting", cfg |-> row[s].cfg, queue |-> <<>>]
            \/ worker'[s][o].queue = worker[s][o].queue
        BY <1>1, <2>2 DEF Probes
      <4> QED BY <2>2, <3>2, <4>1
    <3> QED BY <3>1, <3>2
  <2>3. CASE x = s /\ Asks(o)
    <3>1. CASE Sends(o, "list") /\ op[o].kind = "check" /\ op[o].pc = "check" /\ op'[o].pc = "list"
      <4>1. op'[o].kind = "check" /\ op'[o].pc \in ListPcs
        BY <1>0, <3>1 DEF OpControl, ListPcs, Inside, Ended
      <4>2. CASE w = t BY <1>1, <1>3, <2>3, <3>1, <4>1, <4>2 DEF Sends
      <4>3. CASE w # t BY <1>1, <1>3, <2>3, <3>1, <4>3 DEF Sends
      <4> QED BY <4>2, <4>3
    <3>2. CASE Sends(o, "stop")
      <4>1. CASE w = t BY <1>1, <1>3, <2>3, <3>2, <4>1 DEF Sends
      <4>2. CASE w # t BY <1>1, <1>3, <2>3, <3>2, <4>2 DEF Sends
      <4> QED BY <4>1, <4>2
    <3> QED BY <2>3, <3>1, <3>2 DEF Asks
  <2>4. CASE x = s /\ (Keeps(o) \/ Writes(o) \/ Saves(o) \/ Handles(o))
    BY <1>1, <2>4 DEF Keeps, Writes, Saves, Handles
  <2> QED BY <1>0, <2>1, <2>2, <2>3, <2>4 DEF OpData
<1>6. ASSUME NEW x \in Servers, NEW w \in Ops, NEW i \in DOMAIN worker'[x][w].queue,
             worker'[x][w].queue[i][2] = "list"
      PROVE  /\ op'[worker'[x][w].queue[i][1]].kind = "check"
             /\ op'[worker'[x][w].queue[i][1]].pc \in ListPcs
  <2>1. worker[x][w].queue \in Seq(Ops \X {"list", "stop"}) BY DEF TypeOK, Worker
  <2>2. ASSUME NEW j \in DOMAIN worker[x][w].queue, worker[x][w].queue[j][2] = "list"
        PROVE  /\ op'[worker[x][w].queue[j][1]].kind = "check"
               /\ op'[worker[x][w].queue[j][1]].pc \in ListPcs
    <3>1. worker[x][w].queue[j] \in Ops \X {"list", "stop"} BY <2>1, <2>2
    <3>2. worker[x][w].queue[j][1] \in Ops BY <3>1
    <3>3. /\ op[worker[x][w].queue[j][1]].kind = "check"
          /\ op[worker[x][w].queue[j][1]].pc \in ListPcs
      BY <2>2 DEF ListInv
    <3> QED BY <1>4, <3>2, <3>3
  <2>3. CASE worker'[x][w].queue = worker[x][w].queue BY <1>6, <2>2, <2>3
  <2>4. CASE worker'[x][w].queue = <<>> BY <1>6, <2>4
  <2>5. ASSUME NEW c \in {"list", "stop"},
               worker'[x][w].queue = Append(worker[x][w].queue, <<o, c>>),
               c = "list" => op'[o].kind = "check" /\ op'[o].pc \in ListPcs
        PROVE  /\ op'[worker'[x][w].queue[i][1]].kind = "check"
               /\ op'[worker'[x][w].queue[i][1]].pc \in ListPcs
    <3>1. <<o, c>> \in Ops \X {"list", "stop"} BY SMTT(30)
    <3>2. \/ i \in DOMAIN worker[x][w].queue /\ worker'[x][w].queue[i] = worker[x][w].queue[i]
          \/ worker'[x][w].queue[i] = <<o, c>>
      BY <1>6, <2>1, <2>5, <3>1, AppendHolds, SMTT(30)
    <3>3. CASE worker'[x][w].queue[i] = <<o, c>> BY <1>6, <2>5, <3>3, SMTT(30)
    <3>4. CASE i \in DOMAIN worker[x][w].queue /\ worker'[x][w].queue[i] = worker[x][w].queue[i]
      BY <1>6, <2>2, <3>4
    <3> QED BY <3>2, <3>3, <3>4
  <2> QED BY <1>5, <2>3, <2>4, <2>5
<1>7. ASSUME NEW p \in Ops, op'[p].pc \in {"list", "listed"}
      PROVE  handle'[op'[p].server] # None
  <2>1. CASE p = o
    <3>1. handle[s] # None /\ handle'[s] = handle[s]
      BY <1>0, <1>1, <1>7, <2>1
         DEF OpData, Keeps, Writes, Probes, Asks, Sends, Saves, Handles, Ended
    <3> QED BY <1>2, <2>1, <3>1
  <2>2. CASE p # o
    <3>1. op'[p] = op[p] BY <1>2, <2>2
    <3>2. op[p].server \in Servers /\ handle[op[p].server] # None
      BY <1>7, <3>1 DEF LockInv, ListInv, Inside
    <3>3. CASE op[p].server = s BY <1>1, <1>7, <2>2, <3>1, <3>2, <3>3, OpAlone DEF Inside
    <3>4. CASE op[p].server # s BY <1>2, <3>1, <3>2, <3>4
    <3> QED BY <3>3, <3>4
  <2> QED BY <2>1, <2>2
<1> QED BY <1>6, <1>7 DEF ListInv

\* Where an answer takes the operation that awaited it.
LEMMA TakesMove ==
  ASSUME NEW s \in Servers, NEW w \in Ops, NEW p \in Ops, NEW c \in {"list", "stop"},
         Takes(s, w, p, c)
  PROVE  /\ \A q \in Ops : op'[q].kind = op[q].kind /\ op'[q].server = op[q].server
         /\ \A q \in Ops : op'[q] = op[q]
              \/ /\ q = p /\ op[p].pc \in Awaiting /\ Awaits(p, s, w)
                 /\ op'[p].pc \in {"listed", "listfailed", "closed", "closefailed", "saved",
                                   "unsaved", "broken"}
<1>1. Awaits(p, s, w) => op[p].pc \in Awaiting BY DEF Awaits
<1>2. /\ Answer(op[p].pc) \in {"listed", "closed", "saved", "unsaved"}
      /\ Failure(op[p].pc) \in {"listfailed", "closefailed", "unsaved"}
  BY DEF Answer, Failure
<1> QED BY <1>1, <1>2 DEF Takes

\* The steps of a worker keep the lock invariant, the life invariant, the
\* invariant of the unused ids and the configurations.
LEMMA WorkerRuntime ==
  ASSUME TypeOK, LockInv, LifeInv, NewInv, ConfigInv, ListInv,
         NEW s \in Servers, NEW w \in Ops, NEW p \in Ops, NEW c \in {"list", "stop"},
         Takes(s, w, p, c)
  PROVE  LockInv' /\ LifeInv' /\ NewInv' /\ ConfigInv'
<1>0. /\ row' = row /\ handle' = handle /\ lock' = lock
      /\ phase' = phase /\ todo' = todo /\ confirmed' = confirmed
      /\ \A x \in Servers, v \in Ops : worker'[x][v].cfg = worker[x][v].cfg
      /\ None \notin Ops /\ Life \in Ops /\ Calls \subseteq Ops
  BY NamesAssumption DEF Takes, Ops
<1>1. /\ \A q \in Ops : op'[q].kind = op[q].kind /\ op'[q].server = op[q].server
      /\ \A q \in Ops : op'[q] = op[q]
           \/ /\ q = p /\ op[p].pc \in Awaiting
              /\ op'[p].pc \in {"listed", "listfailed", "closed", "closefailed", "saved",
                                "unsaved", "broken"}
  BY TakesMove
<1>2. \A q \in Ops :
        /\ op'[q].pc \in Inside <=> op[q].pc \in Inside
        /\ op'[q].pc \in {"lock", "create", "check", "probe", "started", "failed", "done", "idle"}
             => op'[q] = op[q]
        /\ op[q].pc \in {"lock", "create", "check", "probe", "started", "failed", "done", "idle"}
             => op'[q] = op[q]
  BY <1>1 DEF Inside, Awaiting
<1>3. LockInv'
  <2>1. lock \in [Servers -> Ops \cup {None}] BY DEF TypeOK
  <2>2. \A x \in Servers : lock'[x] # None =>
          /\ op'[lock'[x]].server = x /\ op'[lock'[x]].kind # "shutdown"
          /\ op'[lock'[x]].pc \in Inside \cup {"lock"}
    <3>1. TAKE x \in Servers
    <3>2. HAVE lock'[x] # None
    <3>3. PICK q \in Ops : q = lock[x] BY <1>0, <2>1, <3>2
    <3>4. op[q].server = x /\ op[q].kind # "shutdown" /\ op[q].pc \in Inside \cup {"lock"}
      BY <1>0, <3>3 DEF LockInv
    <3> QED BY <1>0, <1>1, <1>2, <3>3, <3>4
  <2>3. \A q \in Ops : op'[q].pc \in Inside /\ op'[q].kind # "shutdown" =>
          lock'[op'[q].server] = q
    BY <1>0, <1>1, <1>2 DEF LockInv
  <2>4. \A q \in Ops :
          /\ op'[q].pc \in Inside \cup {"lock", "create"} => op'[q].server \in Servers
          /\ op'[q].pc = "lock" => op'[q].kind \in AllKinds \ {"create"}
          /\ op'[q].pc = "check" => op'[q].kind = "check"
    BY <1>1, <1>2 DEF LockInv
  <2> QED BY <2>2, <2>3, <2>4 DEF LockInv
<1>4. LifeInv'
  <2>1. op'[Life] = op[Life] \/ (p = Life /\ op[Life].kind \in {"start", "shutdown"})
    <3>1. op[Life].pc \in Awaiting => op[Life] # Idle BY DEF Awaiting, Idle
    <3>2. op'[Life] = op[Life] \/ (p = Life /\ op[Life].pc \in Awaiting) BY <1>0, <1>1
    <3>3. op[Life] = Idle \/ op[Life].kind \in {"start", "shutdown"} BY DEF LifeInv
    <3> QED BY <3>1, <3>2, <3>3
  <2>2. CASE op'[Life] = op[Life]
    <3>1. \A q \in Calls : op[q].pc \in Ended \cup {"idle"} => op'[q] = op[q]
      BY <1>0, <1>2 DEF Ended
    <3>2. /\ phase' # "up" => \A q \in Calls : op'[q].pc \in Ended \cup {"idle"}
          /\ \A q \in Calls : op'[q].kind # "shutdown"
      BY <1>0, <1>1, <3>1 DEF LifeInv
    <3> QED BY <1>0, <2>2, <3>2 DEF LifeInv
  <2>3. CASE op'[Life] # op[Life]
    <3>1. p = Life /\ Awaits(p, s, w) /\ op[Life].pc \in Awaiting
      BY <1>0, <1>1, <2>3 DEF Takes
    <3>2. op[Life].kind # "check" BY <2>1, <2>3
    <3>3. c # "list"
      <4>1. worker[s][w].queue \in Seq(Ops \X {"list", "stop"}) BY DEF TypeOK, Worker
      <4>2. /\ 1 \in DOMAIN worker[s][w].queue /\ worker[s][w].queue[1] = <<p, c>>
        BY <4>1 DEF Takes
      <4> QED BY <3>1, <3>2, <4>2 DEF ListInv
    <3>4. op'[Life].pc \in {Answer(op[Life].pc), Failure(op[Life].pc), "broken"}
      BY <3>1, <3>3 DEF Takes
    <3>5. \A q \in Calls : op'[q] = op[q] BY <1>0, <1>1, <3>1, NamesAssumption
    <3>6. CASE op[Life].kind = "start"
      <4>1. op[Life] # Idle BY <3>6 DEF Idle
      <4>2. /\ op[Life].pc = "discard" /\ phase = "boot" /\ confirmed
            /\ op[Life].server \in todo
        BY <3>1, <3>6, <4>1 DEF LifeInv, StartPcs, Awaiting, Ended
      <4>3. op'[Life].pc \in StartPcs BY <3>4, <4>2 DEF Answer, Failure, StartPcs
      <4> QED BY <1>0, <1>1, <3>5, <3>6, <4>2, <4>3 DEF LifeInv
    <3>7. CASE op[Life].kind = "shutdown"
      <4>1. op[Life] # Idle BY <3>7 DEF Idle
      <4>2. op[Life].pc = "close" /\ phase = "closing"
        BY <3>1, <3>7, <4>1 DEF LifeInv, StopPcs, Awaiting, Ended
      <4>3. op'[Life].pc \in StopPcs BY <3>4, <4>2 DEF Answer, Failure, StopPcs
      <4> QED BY <1>0, <1>1, <3>5, <3>7, <4>2, <4>3 DEF LifeInv
    <3> QED BY <2>1, <2>3, <3>6, <3>7
  <2> QED BY <2>2, <2>3
<1>5. NewInv' BY <1>0, <1>1, <1>2 DEF NewInv
<1>6. ConfigInv'
  <2>1. \A x \in Servers : handle'[x] # None =>
          /\ worker'[x][handle'[x]].cfg = row'[x].cfg
          /\ row'[x].status \notin {"new", "deleted"}
    BY <1>0 DEF TypeOK, ConfigInv, SessionHasConfig, Exists
  <2>2. \A q \in Ops : op'[q].pc \in {"probe", "started"} =>
          /\ handle'[op'[q].server] = None
          /\ row'[op'[q].server].status \notin {"new", "deleted"}
          /\ worker'[op'[q].server][q].cfg = row'[op'[q].server].cfg
    <3>1. TAKE q \in Ops
    <3>2. HAVE op'[q].pc \in {"probe", "started"}
    <3>3. op'[q] = op[q] BY <1>2, <3>2
    <3>4. op[q].server \in Servers BY <3>2, <3>3 DEF LockInv, Inside
    <3> QED BY <1>0, <3>2, <3>3, <3>4 DEF ConfigInv, Exists
  <2> QED BY <2>1, <2>2 DEF ConfigInv, SessionHasConfig, Exists
<1> QED BY <1>3, <1>4, <1>5, <1>6

\* The steps of a worker keep the invariant of the list commands.
LEMMA WorkerList ==
  ASSUME TypeOK, LockInv, ListInv, NEW s \in Servers, NEW w \in Ops, NEW p \in Ops,
         NEW c \in {"list", "stop"}, Takes(s, w, p, c)
  PROVE  ListInv'
<1>1. /\ \A q \in Ops : op'[q].kind = op[q].kind /\ op'[q].server = op[q].server
      /\ \A q \in Ops : op'[q] = op[q] \/ (q = p /\ op[p].pc \in Awaiting /\ Awaits(p, s, w))
  BY TakesMove
<1>2. /\ worker[s][w].queue \in Seq(Ops \X {"list", "stop"}) /\ worker[s][w].queue # <<>>
      /\ worker'[s][w].queue = Tail(worker[s][w].queue)
      /\ Head(worker[s][w].queue) = <<p, c>>
  BY DEF TypeOK, Worker, Takes
<1>3. c = "list" => op[p].kind = "check" /\ op[p].pc \in ListPcs
  <2>1. 1 \in DOMAIN worker[s][w].queue /\ worker[s][w].queue[1] = <<p, c>> BY <1>2
  <2> QED BY <2>1 DEF ListInv
<1>4. ASSUME op'[p] # op[p], op[p].pc \in ListPcs
      PROVE  op[p].pc = "list" /\ op'[p].pc \in {"listed", "listfailed", "broken"}
  <2>1. op[p].pc = "list" /\ Awaits(p, s, w)
    BY <1>1, <1>4 DEF Awaiting, ListPcs, Ended
  <2> QED BY <2>1 DEF Takes, Answer, Failure
<1>5. \A q \in Ops : op[q].kind = "check" /\ op[q].pc \in ListPcs =>
                       op'[q].kind = "check" /\ op'[q].pc \in ListPcs
  BY <1>1, <1>4 DEF ListPcs
<1>6. ASSUME NEW q \in Ops, op'[q].pc \in {"list", "listed"}
      PROVE  op[q].pc \in {"list", "listed"}
  <2>1. CASE op'[q] = op[q] BY <1>6, <2>1
  <2>2. CASE op'[q] # op[q]
    <3>1. q = p /\ op[p].pc \in Awaiting /\ Awaits(p, s, w) BY <1>1, <2>2
    <3>2. CASE c = "list" BY <1>3, <1>4, <2>2, <3>1, <3>2
    <3>3. CASE c = "stop"
      <4>1. op'[p].pc \in {Answer(op[p].pc), Failure(op[p].pc), "broken"}
        BY <3>1, <3>3 DEF Takes
      <4> QED BY <1>6, <3>1, <4>1 DEF Answer, Failure
    <3> QED BY <3>2, <3>3
  <2> QED BY <2>1, <2>2
<1>7. ASSUME NEW x \in Servers, NEW v \in Ops, NEW i \in DOMAIN worker'[x][v].queue
      PROVE  \E j \in DOMAIN worker[x][v].queue : worker'[x][v].queue[i] = worker[x][v].queue[j]
  <2>1. CASE x = s /\ v = w
    <3>1. i \in DOMAIN Tail(worker[s][w].queue) BY <1>2, <1>7, <2>1
    <3>2. i + 1 \in DOMAIN worker[s][w].queue
          /\ Tail(worker[s][w].queue)[i] = worker[s][w].queue[i + 1]
      BY <1>2, <3>1, TailHolds
    <3> QED BY <1>2, <2>1, <3>2
  <2>2. CASE ~(x = s /\ v = w)
    <3>1. worker'[x][v] = worker[x][v] BY <2>2 DEF Takes
    <3> QED BY <1>7, <3>1
  <2> QED BY <2>1, <2>2
<1>8. ASSUME NEW x \in Servers, NEW v \in Ops, NEW i \in DOMAIN worker'[x][v].queue,
             worker'[x][v].queue[i][2] = "list"
      PROVE  /\ op'[worker'[x][v].queue[i][1]].kind = "check"
             /\ op'[worker'[x][v].queue[i][1]].pc \in ListPcs
  <2>1. PICK j \in DOMAIN worker[x][v].queue : worker'[x][v].queue[i] = worker[x][v].queue[j]
    BY <1>7, <1>8
  <2>2. worker[x][v].queue \in Seq(Ops \X {"list", "stop"}) BY DEF TypeOK, Worker
  <2>3. worker[x][v].queue[j] \in Ops \X {"list", "stop"} BY <2>1, <2>2
  <2>4. worker[x][v].queue[j][1] \in Ops BY <2>3
  <2>5. /\ op[worker[x][v].queue[j][1]].kind = "check"
        /\ op[worker[x][v].queue[j][1]].pc \in ListPcs
    BY <1>8, <2>1 DEF ListInv
  <2> QED BY <1>5, <2>1, <2>4, <2>5
<1>9. \A q \in Ops : op'[q].pc \in {"list", "listed"} => handle'[op'[q].server] # None
  BY <1>1, <1>6 DEF ListInv, Takes
<1> QED BY <1>8, <1>9 DEF ListInv

\* A step that leaves the sessions, the locks and the configurations alone, and
\* moves no operation but one that is outside (which is not a check that has
\* asked for the tools).
Outer(o) ==
    /\ handle' = handle /\ lock' = lock /\ worker' = worker
    /\ \A s \in Servers : /\ row'[s].cfg = row[s].cfg
                          /\ Exists(s) => row'[s].status \notin {"new", "deleted"}
    /\ \A p \in Ops : p # o => op'[p] = op[p]
    /\ \/ op'[o] = op[o]
       \/ /\ op[o].pc \in Ended \cup {"idle"} /\ (op[o].kind # "check" \/ op[o].pc = "idle")
          /\ op'[o].pc \in {"idle", "failed", "create", "lock", "stop"}
          /\ op'[o].pc \in {"create", "lock", "stop"} => op'[o].server \in Servers
          /\ op'[o].pc = "lock" => op'[o].kind \in AllKinds \ {"create"}
          /\ op'[o].pc = "stop" => op'[o].kind = "shutdown"

\* Such a step keeps what holds of the locks, the configurations and the commands.
LEMMA OuterKeeps ==
  ASSUME TypeOK, LockInv, ConfigInv, ListInv, NEW o \in Ops, Outer(o)
  PROVE  LockInv' /\ ConfigInv' /\ ListInv'
<1>0. None \notin Ops /\ lock \in [Servers -> Ops \cup {None}]
  BY NamesAssumption DEF Ops, TypeOK
<1>1. /\ handle' = handle /\ lock' = lock /\ worker' = worker
      /\ \A s \in Servers : /\ row'[s].cfg = row[s].cfg
                            /\ Exists(s) => row'[s].status \notin {"new", "deleted"}
  BY DEF Outer
<1>2. \A p \in Ops : op[p].pc \in Inside \cup {"lock"} => op'[p] = op[p]
  BY DEF Outer, Ended, Inside
<1>3. \A p \in Ops : op[p].kind = "check" /\ op[p].pc \in ListPcs => op'[p] = op[p]
  BY DEF Outer, ListPcs, Ended
<1>4. \A p \in Ops : \/ op'[p] = op[p]
                     \/ /\ op'[p].pc \in {"idle", "failed", "create", "lock", "stop"}
                        /\ op'[p].pc \in {"create", "lock", "stop"} => op'[p].server \in Servers
                        /\ op'[p].pc = "lock" => op'[p].kind \in AllKinds \ {"create"}
                        /\ op'[p].pc = "stop" => op'[p].kind = "shutdown"
  BY DEF Outer
<1>5. LockInv'
  <2>1. ASSUME NEW s \in Servers, lock'[s] # None
        PROVE  /\ op'[lock'[s]].server = s /\ op'[lock'[s]].kind # "shutdown"
               /\ op'[lock'[s]].pc \in Inside \cup {"lock"}
    <3>1. PICK q \in Ops : q = lock[s] BY <1>0, <1>1, <2>1
    <3>2. op[q].server = s /\ op[q].kind # "shutdown" /\ op[q].pc \in Inside \cup {"lock"}
      BY <1>0, <3>1 DEF LockInv
    <3>3. op'[q] = op[q] BY <1>2, <3>2
    <3> QED BY <1>1, <3>1, <3>2, <3>3
  <2>2. ASSUME NEW p \in Ops, op'[p].pc \in Inside, op'[p].kind # "shutdown"
        PROVE  lock'[op'[p].server] = p
    <3>1. op'[p] = op[p] BY <1>4, <2>2 DEF Inside
    <3> QED BY <1>1, <2>2, <3>1 DEF LockInv
  <2>3. ASSUME NEW p \in Ops
        PROVE  /\ op'[p].pc \in Inside \cup {"lock", "create"} => op'[p].server \in Servers
               /\ op'[p].pc = "lock" => op'[p].kind \in AllKinds \ {"create"}
               /\ op'[p].pc = "check" => op'[p].kind = "check"
    <3>1. CASE op'[p] = op[p] BY <3>1 DEF LockInv
    <3>2. CASE op'[p] # op[p] BY <1>4, <3>2 DEF Inside
    <3> QED BY <3>1, <3>2
  <2> QED BY <2>1, <2>2, <2>3 DEF LockInv
<1>6. ConfigInv'
  <2>1. \A s \in Servers : handle'[s] # None =>
          /\ worker'[s][handle'[s]].cfg = row'[s].cfg
          /\ row'[s].status \notin {"new", "deleted"}
    BY <1>1 DEF ConfigInv, SessionHasConfig
  <2>2. ASSUME NEW p \in Ops, op'[p].pc \in {"probe", "started"}
        PROVE  /\ handle'[op'[p].server] = None
               /\ row'[op'[p].server].status \notin {"new", "deleted"}
               /\ worker'[op'[p].server][p].cfg = row'[op'[p].server].cfg
    <3>1. op'[p] = op[p] BY <1>4, <2>2
    <3>2. op[p].server \in Servers BY <2>2, <3>1 DEF LockInv, Inside
    <3> QED BY <1>1, <2>2, <3>1, <3>2 DEF ConfigInv
  <2> QED BY <2>1, <2>2 DEF ConfigInv, SessionHasConfig, Exists
<1>7. ListInv'
  <2>1. ASSUME NEW s \in Servers, NEW w \in Ops, NEW i \in DOMAIN worker[s][w].queue,
               worker[s][w].queue[i][2] = "list"
        PROVE  /\ op'[worker[s][w].queue[i][1]].kind = "check"
               /\ op'[worker[s][w].queue[i][1]].pc \in ListPcs
    <3>1. worker[s][w].queue \in Seq(Ops \X {"list", "stop"}) BY DEF TypeOK, Worker
    <3>2. worker[s][w].queue[i] \in Ops \X {"list", "stop"} BY <2>1, <3>1
    <3>3. worker[s][w].queue[i][1] \in Ops BY <3>2
    <3>4. /\ op[worker[s][w].queue[i][1]].kind = "check"
          /\ op[worker[s][w].queue[i][1]].pc \in ListPcs
      BY <2>1 DEF ListInv
    <3> QED BY <1>3, <3>3, <3>4
  <2>2. \A p \in Ops : op'[p].pc \in {"list", "listed"} => handle'[op'[p].server] # None
    BY <1>1, <1>4 DEF ListInv
  <2> QED BY <1>1, <2>1, <2>2 DEF ListInv
<1> QED BY <1>5, <1>6, <1>7

\* A call, and the steps of the lifespan while the process runs.
LEMMA OuterSteps ==
  ASSUME TypeOK, LockInv, LifeInv, NewInv,
         \/ \E o \in Calls, s \in Servers, k \in Kinds : Call(o, s, k)
         \/ Boot \/ Up \/ Shutdown \/ LifeGoesOn
         \/ \E s \in Servers : LifeTakes(s) \/ BootRefused(s)
  PROVE  LifeInv' /\ NewInv' /\ \E o \in Ops : Outer(o)
<1>0. /\ op \in [Ops -> Op] /\ row \in [Servers -> Row] /\ Life \in Ops /\ Calls \subseteq Ops
      /\ Life \notin Calls /\ None \notin Servers /\ todo \subseteq Servers
  BY NamesAssumption DEF TypeOK, Ops
<1>1. CASE \E o \in Calls, s \in Servers, k \in Kinds : Call(o, s, k)
  <2>1. PICK o \in Calls, s \in Servers, k \in Kinds : Call(o, s, k) BY <1>1
  <2>2. PICK pc : /\ op' = [op EXCEPT ![o] = [kind |-> k, server |-> s, pc |-> pc]]
                  /\ \/ pc = "create" /\ k = "create" /\ row[s].status = "new"
                     \/ pc \in {"failed", "lock"} /\ k # "create" /\ row[s].status # "new"
    BY <2>1 DEF Call
  <2>3. /\ op'[o].kind = k /\ op'[o].server = s /\ op'[o].pc = pc
        /\ \A p \in Ops : p # o => op'[p] = op[p]
    BY <1>0, <2>2
  <2>4. /\ phase = "up" /\ op[o].pc = "idle" /\ row' = row /\ handle' = handle /\ lock' = lock
        /\ worker' = worker /\ phase' = phase /\ todo' = todo /\ confirmed' = confirmed
        /\ k \in AllKinds /\ k # "shutdown"
    BY <2>1, KindsAssumption DEF Call, memory, life, AllKinds
  <2>5. Outer(o) BY <2>2, <2>3, <2>4 DEF Outer, Exists
  <2>6. op'[Life] = op[Life] BY <1>0, <2>3
  <2>7. LifeInv' BY <1>0, <2>3, <2>4, <2>6 DEF LifeInv
  <2>8. NewInv' BY <1>0, <2>2, <2>3, <2>4 DEF NewInv
  <2> QED BY <1>0, <2>5, <2>7, <2>8
<1>2. CASE Boot
  <2>1. /\ op' = op /\ row' = row /\ handle' = handle /\ lock' = lock /\ worker' = worker
        /\ phase = "down" /\ phase' = "boot" /\ confirmed' = confirmed
        /\ todo' = {s \in Servers : Exists(s) /\ row[s].enabled = "yes"
                                              /\ row[s].desired = "running"}
    BY <1>2 DEF Boot, memory
  <2>2. Outer(Life) BY <2>1 DEF Outer, Exists
  <2>3. LifeInv' BY <2>1 DEF LifeInv
  <2>4. NewInv' BY <2>1 DEF NewInv, Exists
  <2> QED BY <1>0, <2>2, <2>3, <2>4
<1>3. CASE Up
  <2>1. /\ op' = op /\ row' = row /\ handle' = handle /\ lock' = lock /\ worker' = worker
        /\ phase = "boot" /\ phase' = "up" /\ confirmed' = confirmed /\ todo' = todo
        /\ op[Life].pc = "idle"
    BY <1>3 DEF Up, memory
  <2>2. Outer(Life) BY <2>1 DEF Outer, Exists
  <2>3. op[Life] = Idle BY <2>1 DEF LifeInv, StartPcs, Ended
  <2>4. LifeInv' BY <2>1, <2>3 DEF LifeInv
  <2>5. NewInv' BY <2>1 DEF NewInv
  <2> QED BY <1>0, <2>2, <2>4, <2>5
<1>4. CASE Shutdown
  <2>1. /\ op' = op /\ row' = row /\ handle' = handle /\ lock' = lock /\ worker' = worker
        /\ phase = "up" /\ phase' = "closing" /\ confirmed' = confirmed
        /\ todo' = {s \in Servers : handle[s] # None}
        /\ \A o \in Calls : op[o].pc \in Ended \cup {"idle"}
    BY <1>4 DEF Shutdown, memory
  <2>2. Outer(Life) BY <2>1 DEF Outer, Exists
  <2>3. LifeInv' BY <2>1 DEF LifeInv
  <2>4. NewInv' BY <2>1 DEF NewInv
  <2> QED BY <1>0, <2>2, <2>3, <2>4
<1>5. CASE LifeGoesOn
  <2>1. /\ op' = [op EXCEPT ![Life] = Idle] /\ op[Life].pc \in Ended
        /\ handle' = handle /\ lock' = lock /\ worker' = worker
        /\ phase' = phase /\ confirmed' = confirmed /\ todo' \subseteq todo
        /\ row' = row \/ row' = [row EXCEPT ![op[Life].server].status = "error"]
    BY <1>5 DEF LifeGoesOn, memory
  <2>2. op'[Life] = Idle /\ \A p \in Ops : p # Life => op'[p] = op[p] BY <1>0, <2>1
  <2>3. /\ \A s \in Servers : row'[s].cfg = row[s].cfg
        /\ \A s \in Servers : row'[s].status = row[s].status \/ row'[s].status = "error"
    BY <1>0, <2>1 DEF Row
  <2>4. op[Life].kind # "check" /\ op[Life] # Idle
    <3>1. op[Life] # Idle BY <2>1 DEF Idle, Ended
    <3> QED BY <3>1 DEF LifeInv
  <2>5. Outer(Life) BY <2>1, <2>2, <2>3, <2>4 DEF Outer, Exists, Idle
  <2>6. \A o \in Calls : op'[o] = op[o] BY <1>0, <2>2
  <2>7. LifeInv' BY <2>1, <2>2, <2>6 DEF LifeInv
  <2>8. NewInv' BY <1>0, <2>1, <2>2, <2>3 DEF NewInv, Idle
  <2> QED BY <1>0, <2>5, <2>7, <2>8
<1>6. CASE \E s \in Servers : LifeTakes(s)
  <2>1. PICK s \in Servers : LifeTakes(s) BY <1>6
  <2>2. /\ op[Life].pc = "idle" /\ s \in todo /\ phase \in {"boot", "closing"} /\ confirmed
        /\ row' = row /\ handle' = handle /\ lock' = lock /\ worker' = worker
        /\ phase' = phase /\ confirmed' = confirmed /\ todo' = todo
    BY <2>1 DEF LifeTakes, memory, life
  <2>3. /\ \A p \in Ops : p # Life => op'[p] = op[p]
        /\ op'[Life].server = s
        /\ \/ phase = "boot" /\ op'[Life].kind = "start" /\ op'[Life].pc = "lock"
           \/ phase = "closing" /\ op'[Life].kind = "shutdown" /\ op'[Life].pc = "stop"
    BY <1>0, <2>1 DEF LifeTakes
  <2>4. Outer(Life) BY <2>2, <2>3 DEF Outer, Exists, AllKinds
  <2>5. \A o \in Calls : op'[o] = op[o] BY <1>0, <2>3
  <2>6. LifeInv' BY <2>2, <2>3, <2>5 DEF LifeInv, StartPcs, StopPcs
  <2>7. NewInv' BY <1>0, <2>2, <2>3 DEF NewInv
  <2> QED BY <1>0, <2>4, <2>6, <2>7
<1>7. CASE \E s \in Servers : BootRefused(s)
  <2>1. PICK s \in Servers : BootRefused(s) BY <1>7
  <2>2. /\ ~confirmed /\ phase = "boot"
        /\ row' = [row EXCEPT ![s].status = "error"] /\ op' = op
        /\ handle' = handle /\ lock' = lock /\ worker' = worker
        /\ phase' = phase /\ confirmed' = confirmed /\ todo' = todo \ {s}
    BY <2>1 DEF BootRefused, memory
  <2>3. /\ \A x \in Servers : row'[x].cfg = row[x].cfg
        /\ \A x \in Servers : row'[x].status = row[x].status \/ row'[x].status = "error"
    BY <1>0, <2>2 DEF Row
  <2>4. Outer(Life) BY <2>2, <2>3 DEF Outer, Exists
  <2>5. LifeInv' BY <2>2 DEF LifeInv
  <2>6. NewInv' BY <2>2, <2>3 DEF NewInv
  <2> QED BY <1>0, <2>4, <2>5, <2>6
<1> QED BY <1>1, <1>2, <1>3, <1>4, <1>5, <1>6, <1>7

\* The end of the process.
LEMMA DownKeeps ==
  ASSUME TypeOK, LifeInv, NewInv, ShutdownEnds \/ Crash
  PROVE  /\ LockInv' /\ LifeInv' /\ NewInv' /\ ConfigInv' /\ ListInv'
         /\ \A o \in Ops : op'[o].pc \in Ended \cup {"idle"}
<1>0. /\ op \in [Ops -> Op] /\ Life \in Ops /\ Calls \subseteq Ops /\ Life \notin Calls
      /\ None \notin Servers /\ None \notin Ops
      /\ Ops = Calls \cup {Life}
  BY NamesAssumption DEF TypeOK, Ops
<1>1. /\ phase' = "down" /\ todo' = {} /\ row' = row
      /\ \A s \in Servers : handle'[s] = None /\ lock'[s] = None
      /\ \A s \in Servers, w \in Ops : worker'[s][w] = NoWorker
  BY DEF ShutdownEnds, Crash, Down
<1>2. /\ op'[Life] = Idle
      /\ \A o \in Calls : /\ op'[o].pc \in Ended \cup {"idle"} /\ op'[o].kind = op[o].kind
                          /\ op'[o].server = op[o].server
                          /\ op[o].pc \in {"create", "failed"} => op'[o].pc = "failed"
  <2>1. CASE ShutdownEnds
    <3>1. op' = op /\ phase = "closing" /\ op[Life].pc = "idle" BY <2>1 DEF ShutdownEnds
    <3>2. op[Life] = Idle BY <3>1 DEF LifeInv, StopPcs, Ended
    <3>3. \A o \in Calls : op[o].pc \in Ended \cup {"idle"} BY <3>1 DEF LifeInv
    <3> QED BY <3>1, <3>2, <3>3 DEF Ended
  <2>2. CASE Crash
    <3>1. op'[Life] = Idle BY <1>0, <2>2 DEF Crash
    <3>2. ASSUME NEW o \in Calls
          PROVE  /\ op'[o].pc \in Ended \cup {"idle"} /\ op'[o].kind = op[o].kind
                 /\ op'[o].server = op[o].server
                 /\ op[o].pc \in {"create", "failed"} => op'[o].pc = "failed"
      <4>1. op'[o] = IF op[o].pc = "idle" THEN op[o]
                     ELSE [op[o] EXCEPT !.pc = IF op[o].pc = "done" THEN "done" ELSE "failed"]
        BY <1>0, <2>2 DEF Crash
      <4>2. op[o] \in Op BY <1>0
      <4> QED BY <4>1, <4>2 DEF Op, Ended
    <3> QED BY <3>1, <3>2
  <2> QED BY <2>1, <2>2
<1>3. \A o \in Ops : op'[o].pc \in Ended \cup {"idle"} BY <1>0, <1>2 DEF Idle
<1>4. LockInv' BY <1>1, <1>3 DEF LockInv, Inside, Ended
<1>5. LifeInv' BY <1>1, <1>2 DEF LifeInv
<1>6. NewInv' BY <1>0, <1>1, <1>2 DEF NewInv, Idle
<1>7. ConfigInv' BY <1>1, <1>3 DEF ConfigInv, SessionHasConfig, Ended
<1>8. ListInv' BY <1>1, <1>3 DEF ListInv, NoWorker, Ended
<1> QED BY <1>3, <1>4, <1>5, <1>6, <1>7, <1>8

\* The runtime invariant holds initially.
LEMMA InitRuntime == Init => RuntimeInv
<1> SUFFICES ASSUME Init PROVE RuntimeInv OBVIOUS
<1>1. TypeOK BY InitTypeOK
<1>2. /\ \A s \in Servers : handle[s] = None /\ lock[s] = None
      /\ \A o \in Ops : op[o] = Idle
      /\ \A s \in Servers, w \in Ops : worker[s][w] = NoWorker
      /\ Life \in Ops /\ Calls \subseteq Ops /\ None \notin Servers /\ todo = {}
  BY NamesAssumption DEF Init, Ops
<1>3. LockInv BY <1>2 DEF LockInv, Idle, Inside
<1>4. LifeInv BY <1>2 DEF LifeInv, Idle
<1>5. NewInv BY <1>2 DEF NewInv, Idle
<1>6. ConfigInv BY <1>2 DEF ConfigInv, SessionHasConfig, Idle
<1>7. ListInv BY <1>2 DEF ListInv, Idle, NoWorker
<1> QED BY <1>1, <1>3, <1>4, <1>5, <1>6, <1>7 DEF RuntimeInv

\* Every step keeps it.
LEMMA NextRuntime == RuntimeInv /\ [Next]_vars => RuntimeInv'
<1> SUFFICES ASSUME RuntimeInv, [Next]_vars PROVE RuntimeInv' OBVIOUS
<1>0. TypeOK /\ LockInv /\ LifeInv /\ NewInv /\ ConfigInv /\ ListInv BY DEF RuntimeInv
<1>1. CASE \E o \in Ops : OpStep(o) \/ OpFault(o)
  <2>1. PICK o \in Ops : OpStep(o) \/ OpFault(o) BY <1>1
  <2>2. OpMoves(o) BY <1>0, <2>1, OperationMoves
  <2> QED BY <1>0, <2>1, <2>2, OpTypeOK, OpLock, OpLife, OpNew, OpConfig, OpList DEF RuntimeInv
<1>2. CASE \E s \in Servers, w \in Ops : WorkerStep(s, w)
  <2>1. PICK s \in Servers, w \in Ops : WorkerStep(s, w) BY <1>2
  <2>2. PICK p \in Ops, c \in {"list", "stop"} : Takes(s, w, p, c) BY <1>0, <2>1, WorkerMoves
  <2> QED BY <1>0, <2>1, <2>2, WorkerTypeOK, WorkerRuntime, WorkerList DEF RuntimeInv
<1>3. CASE ShutdownEnds \/ Crash
  <2>1. TypeOK' BY <1>0, <1>3, RestTypeOK DEF LifeStep
  <2> QED BY <1>0, <1>3, <2>1, DownKeeps DEF RuntimeInv
<1>4. CASE \/ \E o \in Calls, s \in Servers, k \in Kinds : Call(o, s, k)
           \/ Boot \/ Up \/ Shutdown \/ LifeGoesOn
           \/ \E s \in Servers : LifeTakes(s) \/ BootRefused(s)
  <2>1. TypeOK' BY <1>0, <1>4, RestTypeOK DEF LifeStep
  <2>2. LifeInv' /\ NewInv' /\ \E o \in Ops : Outer(o) BY <1>0, <1>4, OuterSteps
  <2>3. LockInv' /\ ConfigInv' /\ ListInv' BY <1>0, <2>2, OuterKeeps
  <2> QED BY <2>1, <2>2, <2>3 DEF RuntimeInv
<1>5. CASE UNCHANGED vars
  <2>1. /\ row' = row /\ handle' = handle /\ lock' = lock /\ worker' = worker /\ op' = op
        /\ phase' = phase /\ todo' = todo /\ confirmed' = confirmed /\ downs' = downs
    BY <1>5 DEF vars, memory, life
  <2>2. TypeOK' BY <1>0, <2>1 DEF TypeOK
  <2>3. LifeInv' BY <1>0, <2>1 DEF LifeInv
  <2>4. NewInv' BY <1>0, <2>1 DEF NewInv
  <2>5. Outer(Life) BY <2>1 DEF Outer, Exists
  <2>6. Life \in Ops BY DEF Ops
  <2> QED BY <1>0, <2>2, <2>3, <2>4, <2>5, <2>6, OuterKeeps DEF RuntimeInv
<1> QED BY <1>1, <1>2, <1>3, <1>4, <1>5 DEF Next, LifeStep

\* For every interleaving of calls, workers, the lifespan and crashes, and
\* whatever fails: the lock of a server excludes, shutdown excludes without it,
\* and the state of a server is consistent with the operation inside.
THEOREM Runtime == Spec => []RuntimeInv
BY InitRuntime, NextRuntime, PTL DEF Spec

\* No configuration changes under a session that is kept.
THEOREM Configured == Spec => []SessionHasConfig
<1>1. RuntimeInv => SessionHasConfig BY SMTT(30) DEF RuntimeInv, ConfigInv
<1> QED BY <1>1, Runtime, PTL

-----------------------------------------------------------------------------
(* The sessions, if closing one does not fail *)

\* The steps of an operation keep the invariant of the sessions.
LEMMA OpServe ==
  ASSUME RuntimeInv, ServeInv, NEW o \in Ops, OpMoves(o)
  PROVE  ServeInv'
<1>0. /\ OpFrame(o) /\ OpData(o) /\ None \notin Ops
      /\ TypeOK /\ LockInv /\ LifeInv /\ NewInv /\ ConfigInv
  BY NamesAssumption DEF OpMoves, Ops, RuntimeInv
<1>1. PICK s \in Servers : s = op[o].server BY <1>0 DEF OpFrame
<1>2. /\ op'[o].server = s /\ \A p \in Ops : p # o => op'[p] = op[p]
      /\ \A x \in Servers : x # s => handle'[x] = handle[x] /\ worker'[x] = worker[x]
  BY <1>0, <1>1 DEF OpFrame
<1>3. PICK t \in Ops : t = Target(o) BY <1>0, <1>1 DEF Target, TypeOK
<1>4. op[o].pc \in {"probe", "started"} => handle[s] = None /\ t = o
  BY <1>0, <1>1, <1>3 DEF ConfigInv, Target
<1>5. ASSUME NEW x \in Servers, NEW w \in Ops, Serving(x, w)'
      PROVE  Serving(x, w) \/ (x = s /\ w = o /\ op'[o].pc \in {"probe", "started"})
  <2>1. CASE worker'[x][w] = worker[x][w] BY <1>5, <2>1 DEF Serving
  <2>2. CASE x = s /\ Probes(o) /\ worker'[x][w] # worker[x][w]
    BY <1>1, <1>5, <2>2 DEF Probes, Serving
  <2>3. CASE x = s /\ Asks(o) /\ worker'[x][w] # worker[x][w]
    <3>1. PICK c \in {"list", "stop"} : Sends(o, c) BY <2>3 DEF Asks
    <3>2. /\ w = t /\ worker[s][t].state = "alive"
          /\ worker'[s][t].queue = Append(worker[s][t].queue, <<o, c>>)
      BY <1>1, <1>3, <2>3, <3>1 DEF Sends
    <3>3. worker[s][t].queue \in Seq(Ops \X {"list", "stop"}) BY SMTT(30), <1>0 DEF TypeOK, Worker
    <3>4. \A i \in DOMAIN worker[s][t].queue :
            /\ i \in DOMAIN worker'[s][t].queue
            /\ worker'[s][t].queue[i] = worker[s][t].queue[i]
      BY <3>2, <3>3
    <3> QED BY <1>5, <2>3, <3>2, <3>4 DEF Serving
  <2> QED BY <1>0, <1>1, <1>2, <2>1, <2>2, <2>3
          DEF OpData, Keeps, Writes, Saves, Handles
<1>6. ASSUME NEW c \in {"list", "stop"}, Sends(o, c), c = "stop"
      PROVE  ~Serving(s, t)'
  <2>1. worker'[s][t].queue = Append(worker[s][t].queue, <<o, c>>)
    BY <1>1, <1>3, <1>6 DEF Sends
  <2>2. worker[s][t].queue \in Seq(Ops \X {"list", "stop"}) BY SMTT(30), <1>0 DEF TypeOK, Worker
  <2>3. /\ Len(worker[s][t].queue) + 1 \in DOMAIN worker'[s][t].queue
        /\ worker'[s][t].queue[Len(worker[s][t].queue) + 1] = <<o, c>>
    BY <2>1, <2>2, SMTT(30)
  <2> QED BY <1>6, <2>3 DEF Serving
<1>7. ASSUME NEW x \in Servers, NEW w \in Ops, Serving(x, w)'
      PROVE  handle'[x] = w \/ (op'[w].server = x /\ op'[w].pc \in {"probe", "started"})
  <2>1. CASE x = s /\ w = o /\ op'[o].pc \in {"probe", "started"} BY <1>2, <2>1
  <2>2. CASE Serving(x, w)
    <3>1. handle[x] = w \/ (op[w].server = x /\ op[w].pc \in {"probe", "started"})
      BY <2>2 DEF ServeInv
    <3>2. CASE x # s BY <1>1, <1>2, <3>1, <3>2
    <3>3. CASE x = s /\ handle[s] = w
      <4>1. handle'[s] = handle[s]
        <5>1. CASE Handles(o)
          BY <1>0, <1>1, <1>4, <2>2, <3>3, <5>1 DEF Handles, ServeInv
        <5>2. CASE Asks(o) BY <1>1, <5>2 DEF Asks, Sends
        <5>3. CASE Keeps(o) \/ Writes(o) \/ Probes(o) \/ Saves(o)
          BY <1>1, <5>3 DEF Keeps, Writes, Probes, Saves
        <5> QED BY <1>0, <5>1, <5>2, <5>3 DEF OpData
      <4> QED BY <3>3, <4>1
    <3>4. CASE x = s /\ w # o /\ op[w].server = x /\ op[w].pc \in {"probe", "started"}
      BY <1>2, <3>4
    <3>5. CASE x = s /\ w = o /\ op[o].pc \in {"probe", "started"}
      <4>1. handle[s] = None /\ t = o BY <1>4, <3>5
      <4>2. op[o].pc = "started" => worker[s][o].state = "alive" BY <1>1 DEF ServeInv
      <4>3. CASE Keeps(o) BY <1>1, <1>3, <3>5, <4>1, <4>2, <4>3 DEF Keeps
      <4>4. CASE Writes(o) BY SMTT(30), <3>5, <4>4 DEF Writes
      <4>5. CASE Probes(o) BY <1>1, <1>2, <1>7, <3>5, <4>5 DEF Probes, Serving
      <4>6. CASE Asks(o)
        <5>1. Sends(o, "stop") BY <3>5, <4>6 DEF Asks
        <5> QED BY <1>6, <1>7, <3>5, <4>1, <5>1
      <4>7. CASE Saves(o) BY <1>1, <1>3, <3>5, <4>1, <4>2, <4>7 DEF Saves
      <4>8. CASE Handles(o) BY <1>1, <3>5, <4>8 DEF Handles
      <4> QED BY <1>0, <4>3, <4>4, <4>5, <4>6, <4>7, <4>8 DEF OpData
    <3> QED BY <1>1, <3>1, <3>2, <3>3, <3>4, <3>5
  <2> QED BY <1>5, <1>7, <2>1, <2>2
<1>8. ASSUME NEW p \in Ops, p # o, op[p].pc \in Inside
      PROVE  /\ op'[p] = op[p] /\ op[p].server \in Servers
             /\ handle'[op[p].server] = handle[op[p].server]
             /\ worker'[op[p].server] = worker[op[p].server]
  <2>1. op'[p] = op[p] /\ op[p].server \in Servers BY <1>0, <1>2, <1>8 DEF LockInv
  <2>2. CASE op[p].server = s BY <1>0, <1>1, <1>8, <2>1, <2>2, OpAlone
  <2>3. CASE op[p].server # s BY <1>2, <2>1, <2>3
  <2> QED BY <2>1, <2>2, <2>3
<1>9. ASSUME NEW p \in Ops, op'[p].pc \in {"probe", "started"}
      PROVE  /\ worker'[op'[p].server][p].queue = <<>>
             /\ op'[p].pc = "started" => worker'[op'[p].server][p].state = "alive"
  <2>1. CASE p = o
    <3>1. Probes(o)
      BY <1>0, <1>9, <2>1 DEF OpData, Keeps, Writes, Asks, Saves, Handles, Ended
    <3>2. op[o].pc = "probe" => worker[s][o].queue = <<>> BY <1>1 DEF ServeInv
    <3>3. CASE op[o].pc \in {"start", "check"}
      <4>1. /\ worker'[s][o] = [state |-> "starting", cfg |-> row[s].cfg, queue |-> <<>>]
            /\ op'[o].pc = "probe"
        BY <1>1, <3>1, <3>3 DEF Probes
      <4> QED BY <1>2, <2>1, <4>1
    <3>4. CASE op[o].pc = "probe"
      <4>1. /\ worker'[s][o].queue = worker[s][o].queue
            /\ op'[o].pc = "started" /\ worker'[s][o].state = "alive"
        BY <1>1, <1>9, <2>1, <3>1, <3>4 DEF Probes
      <4> QED BY <1>2, <2>1, <3>2, <3>4, <4>1
    <3> QED BY <3>1, <3>3, <3>4 DEF Probes
  <2>2. CASE p # o
    <3>1. op'[p] = op[p] BY <1>2, <2>2
    <3>2. op[p].pc \in Inside BY <1>9, <3>1 DEF Inside
    <3> QED BY <1>8, <1>9, <2>2, <3>1, <3>2 DEF ServeInv
  <2> QED BY <2>1, <2>2
<1>10. ASSUME NEW p \in Ops, op'[p].pc = "closed", handle'[op'[p].server] # None
       PROVE  ~(worker'[op'[p].server][handle'[op'[p].server]].state \in {"starting", "alive"}
                /\ \A i \in DOMAIN worker'[op'[p].server][handle'[op'[p].server]].queue :
                      worker'[op'[p].server][handle'[op'[p].server]].queue[i][2] # "stop")
  <2>1. p # o
    BY <1>0, <1>10 DEF OpData, Keeps, Writes, Probes, Asks, Saves, Handles, Ended
  <2>2. op'[p] = op[p] /\ op[p].pc \in Inside BY <1>2, <1>10, <2>1 DEF Inside
  <2>3. ~Serving(op[p].server, handle[op[p].server])
    BY <1>8, <1>10, <2>1, <2>2 DEF ServeInv
  <2> QED BY <1>8, <2>1, <2>2, <2>3, ZenonT(60) DEF Serving
<1> QED BY <1>7, <1>9, <1>10 DEF ServeInv, Serving

\* So do the steps of a worker: a session that is asked to close stops serving,
\* and so does one that dies.
LEMMA WorkerServe ==
  ASSUME "stop" \notin Faults, RuntimeInv, ServeInv,
         NEW s \in Servers, NEW w \in Ops, NEW p \in Ops, NEW c \in {"list", "stop"},
         Takes(s, w, p, c)
  PROVE  ServeInv'
<1>0. /\ TypeOK /\ LockInv /\ handle' = handle /\ None \notin Ops
      /\ \A x \in Servers : x # s => worker'[x] = worker[x]
      /\ \A v \in Ops : v # w => worker'[s][v] = worker[s][v]
  BY NamesAssumption DEF RuntimeInv, Takes, Ops
<1>1. /\ \A q \in Ops : op'[q].kind = op[q].kind /\ op'[q].server = op[q].server
      /\ \A q \in Ops : op'[q] = op[q]
           \/ /\ q = p /\ op[p].pc \in Awaiting /\ Awaits(p, s, w)
              /\ op'[p].pc \in {"listed", "listfailed", "closed", "closefailed", "saved",
                                "unsaved", "broken"}
  BY TakesMove
<1>2. /\ worker[s][w].queue \in Seq(Ops \X {"list", "stop"}) /\ worker[s][w].queue # <<>>
      /\ worker'[s][w].queue = Tail(worker[s][w].queue)
      /\ Head(worker[s][w].queue) = <<p, c>> /\ worker[s][w].state = "alive"
  BY <1>0 DEF TypeOK, Worker, Takes
<1>3. ASSUME NEW x \in Servers, NEW v \in Ops, Serving(x, v)'
      PROVE  Serving(x, v)
  <2>1. CASE ~(x = s /\ v = w)
    <3>1. worker'[x][v] = worker[x][v] BY <1>0, <2>1
    <3> QED BY <1>3, <3>1 DEF Serving
  <2>2. CASE x = s /\ v = w
    <3>1. c = "list" BY <1>3, <2>2 DEF Takes, Serving
    <3>2. ASSUME NEW i \in DOMAIN worker[s][w].queue PROVE worker[s][w].queue[i][2] # "stop"
      <4>1. CASE i = 1 BY <1>2, <3>1, <4>1
      <4>2. CASE i # 1
        <5>1. i - 1 \in DOMAIN Tail(worker[s][w].queue)
              /\ Tail(worker[s][w].queue)[i - 1] = worker[s][w].queue[i]
          BY <1>2, <3>2, <4>2, SMTT(30)
        <5> QED BY <1>2, <1>3, <2>2, <5>1 DEF Serving
      <4> QED BY <4>1, <4>2
    <3> QED BY <1>2, <2>2, <3>2 DEF Serving
  <2> QED BY <2>1, <2>2
<1>4. \A q \in Ops : op[q].pc \in {"probe", "started"} => op'[q] = op[q]
  BY <1>1 DEF Awaiting
<1>5. \A q \in Ops : op'[q].pc \in {"probe", "started"} => op'[q] = op[q]
  BY <1>1
<1>6. \A x \in Servers, v \in Ops : Serving(x, v)' =>
        handle'[x] = v \/ (op'[v].server = x /\ op'[v].pc \in {"probe", "started"})
  BY <1>0, <1>3, <1>4 DEF ServeInv
<1>7. ASSUME NEW q \in Ops, op'[q].pc \in {"probe", "started"}
      PROVE  /\ worker'[op'[q].server][q].queue = <<>>
             /\ op'[q].pc = "started" => worker'[op'[q].server][q].state = "alive"
  <2>1. op'[q] = op[q] /\ op[q].server \in Servers
    BY <1>0, <1>5, <1>7 DEF LockInv, Inside
  <2>2. /\ worker[op[q].server][q].queue = <<>>
        /\ op[q].pc = "started" => worker[op[q].server][q].state = "alive"
    BY <1>7, <2>1 DEF ServeInv
  <2>3. ~(op[q].server = s /\ q = w) BY <1>2, <2>2
  <2>4. worker'[op[q].server][q] = worker[op[q].server][q] BY <1>0, <2>1, <2>3
  <2> QED BY <2>1, <2>2, <2>4
<1>8. ASSUME NEW q \in Ops, op'[q].pc = "closed", handle'[op'[q].server] # None
      PROVE  ~(worker'[op'[q].server][handle'[op'[q].server]].state \in {"starting", "alive"}
               /\ \A i \in DOMAIN worker'[op'[q].server][handle'[op'[q].server]].queue :
                     worker'[op'[q].server][handle'[op'[q].server]].queue[i][2] # "stop")
  <2>1. op'[q].server = op[q].server /\ op[q].server \in Servers
    <3>1. op[q].pc \in Inside BY <1>1, <1>8 DEF Inside, Awaiting
    <3> QED BY <1>0, <1>1, <3>1 DEF LockInv
  <2>2. PICK h \in Ops : h = handle[op[q].server] BY <1>0, <1>8, <2>1 DEF TypeOK
  <2>3. CASE op'[q] = op[q]
    <3>1. ~Serving(op[q].server, h) BY <1>0, <1>8, <2>2, <2>3 DEF ServeInv
    <3>2. ~Serving(op[q].server, h)'
      <4>1. PICK x \in Servers : x = op[q].server BY <2>1
      <4>2. ~Serving(x, h)' BY <1>3, <3>1, <4>1
      <4> QED BY <2>3, <4>1, <4>2 DEF Serving
    <3> QED BY <1>0, <2>1, <2>2, <2>3, <3>2 DEF Serving
  <2>4. CASE op'[q] # op[q]
    <3>1. q = p /\ Awaits(p, s, w) BY <1>1, <2>4
    <3>2. op[q].server = s /\ h = w BY <1>0, <1>8, <2>1, <2>2, <3>1 DEF Awaits, Target
    <3>3. worker'[s][w].state \notin {"starting", "alive"}
      <4>1. op'[p].pc = "closed" BY SMTT(30), <1>8, <3>1
      <4> QED BY <3>1, <4>1 DEF Takes
    <3> QED BY <1>0, <2>1, <2>2, <3>2, <3>3
  <2> QED BY <2>3, <2>4
<1> QED BY <1>6, <1>7, <1>8 DEF ServeInv, Serving

\* So do the other steps while the process runs.
LEMMA OuterServe ==
  ASSUME RuntimeInv, ServeInv, NEW o \in Ops, Outer(o)
  PROVE  ServeInv'
<1>1. /\ handle' = handle /\ worker' = worker
      /\ \A p \in Ops : op[p].pc \in {"probe", "started", "closed"} => op'[p] = op[p]
      /\ \A p \in Ops : op'[p].pc \in {"probe", "started", "closed"} => op'[p] = op[p]
  BY DEF Outer, Ended
<1>2. \A s \in Servers, w \in Ops : Serving(s, w)' =>
        handle'[s] = w \/ (op'[w].server = s /\ op'[w].pc \in {"probe", "started"})
  BY <1>1 DEF ServeInv, Serving
<1>3. \A p \in Ops : op'[p].pc \in {"probe", "started"} =>
        /\ worker'[op'[p].server][p].queue = <<>>
        /\ op'[p].pc = "started" => worker'[op'[p].server][p].state = "alive"
  BY SMTT(30), <1>1 DEF ServeInv
<1>4. ASSUME NEW p \in Ops, op'[p].pc = "closed", handle'[op'[p].server] # None
      PROVE  ~(worker'[op'[p].server][handle'[op'[p].server]].state \in {"starting", "alive"}
               /\ \A i \in DOMAIN worker'[op'[p].server][handle'[op'[p].server]].queue :
                     worker'[op'[p].server][handle'[op'[p].server]].queue[i][2] # "stop")
  BY <1>1, <1>4, SMTT(30) DEF ServeInv, Serving
<1> QED BY <1>2, <1>3, <1>4 DEF ServeInv, Serving

\* No session survives the process.
LEMMA DownServe ==
  ASSUME RuntimeInv, ShutdownEnds \/ Crash
  PROVE  ServeInv'
<1>1. \A s \in Servers, w \in Ops : worker'[s][w] = NoWorker
  BY DEF ShutdownEnds, Crash, Down
<1>2. \A o \in Ops : op'[o].pc \in Ended \cup {"idle"} BY DownKeeps DEF RuntimeInv
<1>3. \A s \in Servers, w \in Ops : ~Serving(s, w)' BY <1>1 DEF Serving, NoWorker
<1> QED BY <1>2, <1>3 DEF ServeInv, Ended

\* The places of the sessions, for every interleaving and for failures of the
\* database and of the sessions: a session that serves is kept, or is being
\* started by an operation inside its server.  Only a session that refuses to
\* close ("stop" in Faults) is outside this: check and a failed start go on
\* without it.
THEOREM Serve ==
  ASSUME "stop" \notin Faults
  PROVE  Spec => []ServeInv
<1>1. Init => ServeInv
  <2> SUFFICES ASSUME Init PROVE ServeInv OBVIOUS
  <2>1. /\ \A o \in Ops : op[o].pc = "idle"
        /\ \A s \in Servers, w \in Ops : worker[s][w].state = "none"
    BY DEF Init, Idle, NoWorker
  <2> QED BY <2>1 DEF ServeInv, Serving
<1>2. RuntimeInv /\ ServeInv /\ [Next]_vars => ServeInv'
  <2> SUFFICES ASSUME RuntimeInv, ServeInv, [Next]_vars PROVE ServeInv' OBVIOUS
  <2>0. TypeOK /\ LockInv /\ LifeInv /\ NewInv BY DEF RuntimeInv
  <2>1. CASE \E o \in Ops : OpStep(o) \/ OpFault(o)
    BY <2>0, <2>1, OperationMoves, OpServe
  <2>2. CASE \E s \in Servers, w \in Ops : WorkerStep(s, w)
    <3>1. PICK s \in Servers, w \in Ops : WorkerStep(s, w) BY <2>2
    <3>2. PICK p \in Ops, c \in {"list", "stop"} : Takes(s, w, p, c)
      BY <2>0, <3>1, WorkerMoves
    <3> QED BY <3>2, WorkerServe
  <2>3. CASE ShutdownEnds \/ Crash BY <2>3, DownServe
  <2>4. CASE \/ \E o \in Calls, s \in Servers, k \in Kinds : Call(o, s, k)
             \/ Boot \/ Up \/ Shutdown \/ LifeGoesOn
             \/ \E s \in Servers : LifeTakes(s) \/ BootRefused(s)
    BY <2>0, <2>4, OuterSteps, OuterServe
  <2>5. CASE UNCHANGED vars
    <3>1. Outer(Life) /\ Life \in Ops
      BY <2>5 DEF vars, memory, Outer, Exists, Ops
    <3> QED BY <3>1, OuterServe
  <2> QED BY <2>1, <2>2, <2>3, <2>4, <2>5 DEF Next, LifeStep
<1> QED BY <1>1, <1>2, Runtime, PTL DEF Spec

\* However start, restart, check, stop and the startup of the process meet, a
\* server has at most one session that is not about to be closed.
THEOREM Single ==
  ASSUME "stop" \notin Faults
  PROVE  Spec => []OneSession
<1>1. RuntimeInv /\ ServeInv => OneSession
  <2> SUFFICES ASSUME RuntimeInv, ServeInv, NEW s \in Servers, NEW v \in Ops, NEW w \in Ops,
                      Serving(s, v), Serving(s, w)
               PROVE  v = w
    BY DEF OneSession
  <2>1. /\ handle[s] = v \/ (op[v].server = s /\ op[v].pc \in {"probe", "started"})
        /\ handle[s] = w \/ (op[w].server = s /\ op[w].pc \in {"probe", "started"})
    BY DEF ServeInv
  <2>2. \A o \in Ops : op[o].server = s /\ op[o].pc \in {"probe", "started"} =>
          handle[s] = None /\ op[o].pc \in Inside
    BY DEF RuntimeInv, ConfigInv, Inside
  <2>3. None \notin Ops BY NamesAssumption DEF Ops
  <2> QED BY <2>1, <2>2, <2>3, Exclusive DEF RuntimeInv
<1> QED BY <1>1, Runtime, Serve, PTL

\* No session is left behind: one that is not kept belongs to an operation that
\* has not ended, and a server that has been deleted has none.
THEOREM OwnedSessions ==
  ASSUME "stop" \notin Faults
  PROVE  Spec => []SessionsAreOwned
<1>1. RuntimeInv /\ ServeInv => SessionsAreOwned
  <2> SUFFICES ASSUME RuntimeInv, ServeInv, NEW s \in Servers
               PROVE  /\ \A w \in Ops : Serving(s, w) =>
                            /\ row[s].status # "deleted"
                            /\ handle[s] = w \/ (op[w].server = s /\ op[w].pc \notin Ended)
                      /\ row[s].status = "deleted" => handle[s] = None
    BY DEF SessionsAreOwned
  <2>1. handle[s] # None => row[s].status # "deleted" BY DEF RuntimeInv, ConfigInv, Exists
  <2>2. \A w \in Ops : op[w].server = s /\ op[w].pc \in {"probe", "started"} =>
          row[s].status # "deleted"
    BY DEF RuntimeInv, ConfigInv, Exists
  <2>3. \A w \in Ops : Serving(s, w) =>
          handle[s] = w \/ (op[w].server = s /\ op[w].pc \in {"probe", "started"})
    BY DEF ServeInv
  <2>4. None \notin Ops BY NamesAssumption DEF Ops
  <2> QED BY <2>1, <2>2, <2>3, <2>4 DEF Ended
<1> QED BY <1>1, Runtime, Serve, PTL

-----------------------------------------------------------------------------
(* The rows, if no statement of the database fails *)

\* The steps of an operation keep what the row says of a session that is kept.
LEMMA OpShown ==
  ASSUME "db" \notin Faults, RuntimeInv, ShownInv, NEW o \in Ops, OpMoves(o)
  PROVE  ShownInv'
<1>0. /\ OpFrame(o) /\ OpData(o) /\ None \notin Ops
      /\ TypeOK /\ NewInv /\ ConfigInv
  BY NamesAssumption DEF OpMoves, Ops, RuntimeInv
<1>1. PICK s \in Servers : s = op[o].server BY <1>0 DEF OpFrame
<1>2. \A x \in Servers : x # s => row'[x] = row[x] /\ handle'[x] = handle[x]
  BY <1>0, <1>1 DEF OpFrame
<1>3. /\ handle[s] # None => /\ worker[s][handle[s]].cfg = row[s].cfg
                             /\ row[s].tools = row[s].cfg
                             /\ row[s].status \in {"running", "error"}
      /\ op[o].pc = "started" => handle[s] = None /\ worker[s][o].cfg = row[s].cfg
      /\ row[s].status = "new" => handle[s] = None
  BY <1>0, <1>1 DEF ConfigInv, SessionHasConfig, NewInv, ShownInv
<1>4. handle[s] # None => Target(o) = handle[s] BY <1>1 DEF Target
<1>5. handle'[s] # None => row'[s].tools = row'[s].cfg /\ row'[s].status \in {"running", "error"}
  <2>1. CASE Keeps(o) BY <1>1, <1>3, <2>1 DEF Keeps
  <2>2. CASE Writes(o) BY <1>1, <1>3, <2>2 DEF Writes
  <2>3. CASE Probes(o) BY <1>1, <1>3, <2>3 DEF Probes
  <2>4. CASE Asks(o) BY <1>1, <1>3, <2>4 DEF Asks, Sends
  <2>5. CASE Saves(o) BY <1>1, <1>3, <1>4, <2>5 DEF Saves
  <2>6. CASE Handles(o) BY <1>1, <1>3, <2>6 DEF Handles
  <2> QED BY <1>0, <2>1, <2>2, <2>3, <2>4, <2>5, <2>6 DEF OpData
<1> QED BY <1>2, <1>5 DEF ShownInv

\* The steps of an operation lose no server, and the startup of a server ends
\* well with a handle.
LEMMA OpRestore ==
  ASSUME "db" \notin Faults, RuntimeInv, RestoreInv, NEW o \in Ops, OpMoves(o)
  PROVE  RestoreInv'
<1>0. /\ OpFrame(o) /\ OpData(o) /\ OpControl(o) /\ None \notin Ops /\ Life \in Ops
      /\ LifeInv /\ ListInv
  BY NamesAssumption DEF OpMoves, Ops, RuntimeInv
<1>1. PICK s \in Servers : s = op[o].server BY <1>0 DEF OpFrame
<1>2. /\ \A x \in Servers : x # s => row'[x] = row[x] /\ handle'[x] = handle[x]
      /\ op'[o].server = s /\ \A p \in Ops : p # o => op'[p] = op[p]
      /\ phase' = phase /\ todo' = todo /\ op[o].pc \in Inside \cup {"lock", "create"}
  BY <1>0, <1>1 DEF OpFrame
<1>3. op[o].pc = "listed" => handle[s] # None BY <1>0, <1>1 DEF ListInv
<1>4. ASSUME row'[s].status = "running", handle'[s] = None
      PROVE  row'[s] = row[s] /\ handle'[s] = handle[s]
  <2>1. CASE Keeps(o) BY <1>1, <2>1 DEF Keeps
  <2>2. CASE Writes(o) BY <1>1, <1>4, <2>2 DEF Writes
  <2>3. CASE Probes(o) BY <1>1, <2>3 DEF Probes
  <2>4. CASE Asks(o) BY <1>1, <1>4, <2>4 DEF Asks, Sends
  <2>5. CASE Saves(o) BY <1>1, <1>3, <1>4, <2>5 DEF Saves
  <2>6. CASE Handles(o) BY <1>0, <1>1, <1>4, <2>6 DEF Handles
  <2> QED BY <1>0, <2>1, <2>2, <2>3, <2>4, <2>5, <2>6 DEF OpData
<1>5. \A x \in Servers : Lost(x)' => Lost(x) BY <1>2, <1>4 DEF Lost
<1>6. ASSUME phase = "boot", op'[Life].pc = "done" PROVE handle'[op'[Life].server] # None
  <2>1. o = Life
    <3>1. o \notin Calls BY <1>0, <1>2, <1>6 DEF LifeInv, Inside, Ended
    <3> QED BY <3>1 DEF Ops
  <2>2. op[Life] # Idle BY <1>2, <2>1 DEF Idle, Inside
  <2>3. op[Life].pc \in StartPcs BY <1>0, <1>6, <2>2 DEF LifeInv
  <2>4. handle'[s] # None
    <3>1. op[o].pc \notin {"saved", "create", "update", "delete", "check", "listed", "stop",
                           "closed", "closefailed"}
      BY <2>1, <2>3 DEF StartPcs, Ended
    <3>2. CASE Keeps(o) BY <1>6, <2>1, <3>1, <3>2 DEF Keeps
    <3>3. CASE Writes(o) BY <3>1, <3>3 DEF Writes
    <3>4. CASE Probes(o) BY <1>6, <2>1, <3>4 DEF Probes
    <3>5. CASE Asks(o) BY <1>6, <2>1, <3>5 DEF Asks
    <3>6. CASE Saves(o) BY <1>1, <1>6, <2>1, <3>1, <3>6 DEF Saves
    <3>7. CASE Handles(o) BY <1>0, <1>1, <1>6, <2>1, <3>1, <3>7 DEF Handles
    <3> QED BY <1>0, <3>2, <3>3, <3>4, <3>5, <3>6, <3>7 DEF OpData
  <2> QED BY <1>2, <2>1, <2>4
<1> QED BY <1>2, <1>5, <1>6 DEF RestoreInv

\* The workers, the calls and the lifespan keep both.
LEMMA RestRestore ==
  ASSUME RuntimeInv, ShownInv, RestoreInv,
         \/ \E s \in Servers, w \in Ops : WorkerStep(s, w)
         \/ \E o \in Calls, s \in Servers, k \in Kinds : Call(o, s, k)
         \/ LifeStep \/ Shutdown \/ Crash
  PROVE  ShownInv' /\ RestoreInv'
<1>0. /\ TypeOK /\ LifeInv /\ op \in [Ops -> Op] /\ row \in [Servers -> Row]
      /\ Life \in Ops /\ Calls \subseteq Ops /\ Life \notin Calls /\ todo \subseteq Servers
  BY NamesAssumption DEF TypeOK, Ops, RuntimeInv
<1>1. ASSUME row' = row, handle' = handle PROVE ShownInv' /\ \A s \in Servers : Lost(s)' <=> Lost(s)
  BY <1>1 DEF ShownInv, Lost
<1>2. ASSUME NEW s \in Servers, row' = [row EXCEPT ![s].status = "error"], handle' = handle
      PROVE  ShownInv' /\ ~Lost(s)' /\ \A x \in Servers : Lost(x)' => Lost(x)
  <2>1. /\ row'[s].status = "error" /\ row'[s].tools = row[s].tools
        /\ row'[s].cfg = row[s].cfg /\ \A x \in Servers : x # s => row'[x] = row[x]
    BY <1>0, <1>2 DEF Row
  <2> QED BY <1>2, <2>1 DEF ShownInv, Lost
<1>3. CASE \E s \in Servers, w \in Ops : WorkerStep(s, w)
  <2>1. PICK s \in Servers, w \in Ops : WorkerStep(s, w) BY <1>3
  <2>2. PICK p \in Ops, c \in {"list", "stop"} : Takes(s, w, p, c) BY <1>0, <2>1, WorkerMoves
  <2>3. row' = row /\ handle' = handle /\ phase' = phase /\ todo' = todo BY <2>2 DEF Takes
  <2>4. op'[Life].pc = "done" => op'[Life] = op[Life] BY <1>0, <2>2, TakesMove
  <2> QED BY <1>1, <2>3, <2>4 DEF RestoreInv
<1>4. CASE \E o \in Calls, s \in Servers, k \in Kinds : Call(o, s, k)
  <2>1. PICK o \in Calls, s \in Servers, k \in Kinds : Call(o, s, k) BY <1>4
  <2>2. row' = row /\ handle' = handle /\ phase' = phase /\ todo' = todo /\ phase = "up"
    BY <2>1 DEF Call, memory, life
  <2> QED BY <1>1, <2>2 DEF RestoreInv
<1>5. CASE Boot
  <2>1. /\ row' = row /\ handle' = handle /\ op' = op /\ phase = "down" /\ phase' = "boot"
        /\ todo' = {s \in Servers : Exists(s) /\ row[s].enabled = "yes"
                                              /\ row[s].desired = "running"}
    BY <1>5 DEF Boot, memory
  <2>2. op[Life].pc # "done" BY <1>0, <2>1 DEF LifeInv, Idle
  <2>3. \A s \in Servers : Lost(s) => s \in todo' BY <2>1 DEF Lost, Exists
  <2> QED BY <1>1, <2>1, <2>2, <2>3 DEF RestoreInv
<1>6. CASE Up
  <2>1. /\ row' = row /\ handle' = handle /\ phase = "boot" /\ phase' = "up" /\ todo = {}
    BY <1>6 DEF Up, memory
  <2> QED BY <1>1, <2>1 DEF RestoreInv
<1>7. CASE Shutdown
  <2>1. row' = row /\ handle' = handle /\ phase' = "closing" BY <1>7 DEF Shutdown, memory
  <2> QED BY <1>1, <2>1 DEF RestoreInv
<1>8. CASE \E s \in Servers : LifeTakes(s)
  <2>1. PICK s \in Servers : LifeTakes(s) BY <1>8
  <2>2. /\ row' = row /\ handle' = handle /\ phase' = phase /\ todo' = todo
        /\ op'[Life].pc \in {"lock", "stop"}
    BY <1>0, <2>1 DEF LifeTakes, memory, life
  <2> QED BY <1>1, <2>2 DEF RestoreInv
<1>9. CASE \E s \in Servers : BootRefused(s)
  <2>1. PICK s \in Servers : BootRefused(s) BY <1>9
  <2>2. /\ row' = [row EXCEPT ![s].status = "error"] /\ handle' = handle /\ op' = op
        /\ phase = "boot" /\ phase' = phase /\ todo' = todo \ {s}
    BY <2>1 DEF BootRefused, memory
  <2>3. ShownInv' /\ ~Lost(s)' /\ \A x \in Servers : Lost(x)' => Lost(x) BY <1>2, <2>2
  <2> QED BY <2>2, <2>3 DEF RestoreInv
<1>10. CASE LifeGoesOn
  <2>1. /\ op[Life].pc \in Ended /\ handle' = handle /\ phase' = phase
        /\ op' = [op EXCEPT ![Life] = Idle]
        /\ row' = IF phase = "boot" /\ op[Life].pc = "failed"
                  THEN [row EXCEPT ![op[Life].server].status = "error"] ELSE row
        /\ phase = "boot" => todo' = todo \ {op[Life].server}
    BY <1>10 DEF LifeGoesOn, memory
  <2>2. op[Life] # Idle BY <2>1 DEF Idle, Ended
  <2>3. phase \in {"boot", "closing"} BY <1>0, <2>2 DEF LifeInv
  <2>4. op'[Life].pc = "idle" BY <1>0, <2>1 DEF Idle
  <2>5. CASE phase = "closing" BY <1>1, <2>1, <2>5 DEF RestoreInv
  <2>6. CASE phase = "boot"
    <3>1. PICK s \in Servers : s = op[Life].server BY <1>0, <2>2, <2>6 DEF LifeInv
    <3>2. CASE op[Life].pc = "failed"
      <4>1. row' = [row EXCEPT ![s].status = "error"] BY <2>1, <2>6, <3>1, <3>2
      <4>2. ShownInv' /\ ~Lost(s)' /\ \A x \in Servers : Lost(x)' => Lost(x)
        BY <1>2, <2>1, <4>1
      <4> QED BY <2>1, <2>4, <2>6, <3>1, <4>2 DEF RestoreInv
    <3>3. CASE op[Life].pc = "done"
      <4>1. row' = row BY <2>1, <3>3
      <4>2. ShownInv' /\ \A x \in Servers : Lost(x)' <=> Lost(x) BY <1>1, <2>1, <4>1
      <4>3. ~Lost(s) BY <2>6, <3>1, <3>3 DEF RestoreInv, Lost
      <4> QED BY <2>1, <2>4, <2>6, <3>1, <4>2, <4>3 DEF RestoreInv
    <3> QED BY <2>1, <3>2, <3>3 DEF Ended
  <2> QED BY <2>3, <2>5, <2>6
<1>11. CASE ShutdownEnds \/ Crash
  <2>1. phase' = "down" /\ \A s \in Servers : handle'[s] = None
    BY <1>11 DEF ShutdownEnds, Crash, Down
  <2> QED BY <2>1 DEF ShownInv, RestoreInv
<1> QED BY <1>3, <1>4, <1>5, <1>6, <1>7, <1>8, <1>9, <1>10, <1>11 DEF LifeStep

\* What the rows say, for every interleaving, crash and failure of a session, if
\* no statement of the database fails: a row tells of the session that is kept,
\* and a server that is to run and has none is still to be started.
THEOREM Restore ==
  ASSUME "db" \notin Faults
  PROVE  Spec => [](ShownInv /\ RestoreInv)
<1>1. Init => ShownInv /\ RestoreInv BY DEF Init, ShownInv, RestoreInv
<1>2. RuntimeInv /\ ShownInv /\ RestoreInv /\ [Next]_vars => ShownInv' /\ RestoreInv'
  <2> SUFFICES ASSUME RuntimeInv, ShownInv, RestoreInv, [Next]_vars
               PROVE  ShownInv' /\ RestoreInv'
    OBVIOUS
  <2>0. TypeOK /\ LockInv BY DEF RuntimeInv
  <2>1. CASE \E o \in Ops : OpStep(o) \/ OpFault(o)
    BY <2>0, <2>1, OperationMoves, OpShown, OpRestore
  <2>2. CASE UNCHANGED vars
    BY <2>2 DEF vars, memory, life, ShownInv, RestoreInv, Lost
  <2> QED BY <2>1, <2>2, RestRestore DEF Next
<1> QED BY <1>1, <1>2, Runtime, PTL DEF Spec

\* While a session is kept and nobody works on the server, the tools that are
\* shown come from its present configuration, and it is not shown as stopped.
THEOREM Shown ==
  ASSUME "db" \notin Faults
  PROVE  Spec => []KeptSessionIsShown
<1>1. ShownInv => KeptSessionIsShown BY DEF ShownInv, KeptSessionIsShown
<1> QED BY <1>1, Restore, PTL

\* Once the process serves, no row that says "running" and is to be restored
\* is without a session.
THEOREM Restored ==
  ASSUME "db" \notin Faults
  PROVE  Spec => []RunningIsRestored
<1>1. RuntimeInv /\ RestoreInv => RunningIsRestored
  <2> SUFFICES ASSUME RuntimeInv, RestoreInv, NEW s \in Servers, phase = "up",
                      row[s].status = "running"
               PROVE  handle[s] # None \/ row[s].enabled = "no" \/ row[s].desired = "stopped"
    BY DEF RunningIsRestored
  <2>1. row[s].enabled \in {"yes", "no"} /\ row[s].desired \in {"running", "stopped"}
    BY DEF RuntimeInv, TypeOK, Row
  <2> QED BY <2>1 DEF RestoreInv, Lost
<1> QED BY <1>1, Runtime, Restore, PTL

=============================================================================
