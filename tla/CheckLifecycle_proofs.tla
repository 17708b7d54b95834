------------------------ MODULE CheckLifecycle_proofs ------------------------
(***************************************************************************)
(* Proofs about CheckLifecycle, for any number of processes, requests,     *)
(* checks and subjects and for every set of faults. The log, the session   *)
(* and CheckSpec are for a service with one process, as it is deployed.    *)
(***************************************************************************)
EXTENDS CheckLifecycle, TLAPS

-----------------------------------------------------------------------------
(* Type correctness *)

\* The initial state has the declared types.
LEMMA InitTypeOK == Init => TypeOK
BY CrashAssumption
   DEF Init, TypeOK, NewRunner, ReqState, RunState, Statuses, SessionStatuses,
       ReqPcs, RunPcs, Outcomes, Handlers

\* A move of a request keeps the type of req.
LEMMA ReqStepType ==
  ASSUME req \in [Requests -> ReqState], NEW r \in Requests, NEW from,
         NEW to \in ReqPcs, NEW c \in Checks \cup {None}, ReqStep(r, from, to, c)
  PROVE  req' \in [Requests -> ReqState]
BY DEF ReqStep, ReqState

\* So does joining the active check that a lookup has found.
LEMMA JoinType ==
  ASSUME req \in [Requests -> ReqState], NEW r \in Requests, NEW from,
         NEW to \in ReqPcs, JoinOrGoOn(r, from, to)
  PROVE  req' \in [Requests -> ReqState]
<1>1. "joined" \in ReqPcs BY DEF ReqPcs
<1>2. ActiveFor(req[r].subj) \subseteq Checks BY DEF ActiveFor
<1>3. CASE \E c \in ActiveFor(req[r].subj) : ReqStep(r, from, "joined", c)
  BY <1>1, <1>2, <1>3, ReqStepType
<1>4. CASE ReqStep(r, from, to, None)
  BY <1>4, ReqStepType
<1> QED BY <1>3, <1>4 DEF JoinOrGoOn

\* Every step of a request keeps the types.
LEMMA RequestTypeOK ==
  ASSUME TypeOK, NEW r \in Requests, RequestStep(r) \/ RequestDbError(r)
  PROVE  TypeOK'
<1>0. /\ req \in [Requests -> ReqState]
      /\ {"creating", "inserting", "inserted", "conflict", "committed", "created",
          "error"} \subseteq ReqPcs
  BY DEF TypeOK, ReqPcs
<1>1. ASSUME UNCHANGED <<tables, runner, boot>>, req' \in [Requests -> ReqState]
      PROVE  TypeOK'
  BY <1>1 DEF TypeOK, tables, boot
<1>2. CASE Lookup(r) BY <1>0, <1>1, <1>2, JoinType DEF Lookup
<1>3. CASE Recheck(r) BY <1>0, <1>1, <1>3, JoinType DEF Recheck
<1>4. CASE ResolveConflict(r) BY <1>0, <1>1, <1>4, JoinType DEF ResolveConflict
<1>5. CASE InsertCheck(r) BY <1>0, <1>1, <1>5, ReqStepType DEF InsertCheck
<1>6. CASE InsertConflict(r) BY <1>0, <1>1, <1>6, ReqStepType DEF InsertConflict
<1>7. CASE CommitCheck(r)
  <2> DEFINE c == req[r].check
             e == [seq |-> 1, type |-> "created"]
  <2>1. c \in Checks \cup {None} BY <1>0 DEF ReqState
  <2>2. req' \in [Requests -> ReqState]
    BY <1>0, <1>7, <2>1, ReqStepType DEF CommitCheck
  <2>3. <<e>> \in Seq(Event) BY DEF Event, EventTypes
  <2>4. events' \in [Checks -> Seq(Event)]
    BY <1>7, <2>3 DEF CommitCheck, TypeOK
  <2>5. status' \in [Checks -> Statuses] /\ session' \in [Checks -> SessionStatuses]
    BY <1>7 DEF CommitCheck, TypeOK, Statuses, ActiveStatuses, SessionStatuses
  <2>6. subject' \in [Checks -> Subjects \cup {None}]
    BY <1>0, <1>7 DEF CommitCheck, TypeOK, ReqState
  <2>7. runner' \in [Checks -> RunState]
    <3>1. runner \in [Checks -> RunState] /\ req[r].proc \in Procs
      BY <1>0 DEF TypeOK, ReqState
    <3>2. runner' = [runner EXCEPT ![c].proc = req[r].proc] BY <1>7 DEF CommitCheck
    <3> QED BY <3>1, <3>2 DEF RunState
  <2> QED BY <1>7, <2>2, <2>4, <2>5, <2>6, <2>7 DEF CommitCheck, TypeOK, boot
<1>8. CASE Schedule(r)
  <2> DEFINE c == req[r].check
  <2>1. c \in Checks \cup {None} BY <1>0 DEF ReqState
  <2>2. req' \in [Requests -> ReqState]
    BY <1>0, <1>8, <2>1, ReqStepType DEF Schedule
  <2>3. runner' \in [Checks -> RunState]
    <3>1. runner \in [Checks -> RunState] /\ "scheduled" \in RunPcs
      BY DEF TypeOK, RunPcs
    <3>2. runner' = [runner EXCEPT ![c].pc = "scheduled"] BY <1>8 DEF Schedule
    <3> QED BY <3>1, <3>2 DEF RunState
  <2> QED BY <1>8, <2>2, <2>3 DEF Schedule, TypeOK, tables, boot
<1>9. CASE RequestDbError(r)
  <2>1. req' = [req EXCEPT ![r].pc = "error", ![r].check = None]
    BY <1>9 DEF RequestDbError
  <2>2. req' \in [Requests -> ReqState] BY <1>0, <2>1 DEF ReqState
  <2> QED BY <1>1, <1>9, <2>2 DEF RequestDbError
<1> QED BY <1>2, <1>3, <1>4, <1>5, <1>6, <1>7, <1>8, <1>9 DEF RequestStep

\* A move of a runner keeps the type of runner.
LEMMA RunStepType ==
  ASSUME runner \in [Checks -> RunState], NEW c \in Checks, NEW from,
         NEW to \in RunPcs, RunStep(c, from, to)
  PROVE  runner' \in [Checks -> RunState]
BY DEF RunStep, RunState

\* So does one that takes the row lock and computes a sequence number.
LEMMA LockStepType ==
  ASSUME runner \in [Checks -> RunState], events \in [Checks -> Seq(Event)],
         NEW c \in Checks, NEW from, NEW to \in RunPcs, LockStep(c, from, to)
  PROVE  runner' \in [Checks -> RunState]
<1>1. NextSequence(c) \in Nat BY DEF NextSequence
<1>2. runner' = [runner EXCEPT ![c].pc = to, ![c].seq = NextSequence(c)]
  BY DEF LockStep
<1> QED BY <1>1, <1>2 DEF RunState

\* append_event keeps the type of the event table.
LEMMA AppendEventType ==
  ASSUME events \in [Checks -> Seq(Event)], NEW c \in Checks, NEW n \in Nat,
         NEW t \in EventTypes, AppendEvent(c, n, t)
  PROVE  events' \in [Checks -> Seq(Event)]
<1>1. [seq |-> n, type |-> t] \in Event BY DEF Event
<1> QED BY <1>1 DEF AppendEvent

\* Every step of a runner, and every failure of one, keeps the types.
LEMMA RunnerTypeOK ==
  ASSUME TypeOK, NEW c \in Checks, RunnerStep(c) \/ RunnerFault(c)
  PROVE  TypeOK'
<1>0. /\ runner \in [Checks -> RunState]
      /\ events \in [Checks -> Seq(Event)]
      /\ runner[c].seq \in Nat
      /\ runner[c].outcome \in Outcomes
      /\ status[c] \in Statuses
  BY DEF TypeOK, RunState
<1>1. /\ {"opened", "starting", "graph", "checkpoint", "checkpointing", "finishing",
           "failing", "deciding", "finalizing", "closing", "done", "dead"} \subseteq RunPcs
      /\ {"started", "checkpoint", "completed", "failed"} \subseteq EventTypes
  BY DEF RunPcs, EventTypes, TerminalEvents
<1>2. ASSUME UNCHANGED <<tables, req, boot>>, runner' \in [Checks -> RunState]
      PROVE  TypeOK'
  BY <1>2 DEF TypeOK, tables, boot
<1>3. CASE OpenCheckpointer(c) BY <1>0, <1>1, <1>2, <1>3, RunStepType DEF OpenCheckpointer
<1>4. CASE LockToStart(c)
  BY <1>0, <1>1, <1>2, <1>4, RunStepType, LockStepType DEF LockToStart
<1>5. CASE CommitStarted(c)
  <2>1. runner' \in [Checks -> RunState] /\ events' \in [Checks -> Seq(Event)]
    BY <1>0, <1>1, <1>5, RunStepType, AppendEventType DEF CommitStarted
  <2>2. status' \in [Checks -> Statuses]
    BY <1>5 DEF CommitStarted, TypeOK, Statuses, ActiveStatuses
  <2> QED BY <1>5, <2>1, <2>2 DEF CommitStarted, TypeOK, boot
<1>6. CASE NodeCompletes(c)
  <2>1. runner' \in [Checks -> RunState]
    BY <1>0, <1>1, <1>6, RunStepType DEF NodeCompletes
  <2>2. msgs' \in [Checks -> Nat] BY <1>6 DEF NodeCompletes, TypeOK
  <2> QED BY <1>6, <2>1, <2>2 DEF NodeCompletes, TypeOK, boot
<1>7. CASE LockToCheckpoint(c)
  BY <1>0, <1>1, <1>2, <1>7, LockStepType DEF LockToCheckpoint
<1>8. CASE CommitCheckpoint(c)
  <2>1. runner' \in [Checks -> RunState] /\ events' \in [Checks -> Seq(Event)]
    BY <1>0, <1>1, <1>8, RunStepType, AppendEventType DEF CommitCheckpoint
  <2> QED BY <1>8, <2>1 DEF CommitCheckpoint, TypeOK, boot
<1>9. CASE ReadBeforeTerminal(c)
  <2> DEFINE o == IF runner[c].pc = "finishing" THEN "succeeded" ELSE "failed"
  <2>1. o \in Outcomes BY DEF Outcomes
  <2>2. runner' = [runner EXCEPT ![c].pc = "deciding", ![c].seen = status[c],
                                ![c].outcome = o]
    BY <1>9 DEF ReadBeforeTerminal
  <2> HIDE DEF o
  <2>3. runner' \in [Checks -> RunState] BY <1>0, <1>1, <2>1, <2>2, ZenonT(60) DEF RunState
  <2> QED BY <1>2, <1>9, <2>3 DEF ReadBeforeTerminal
<1>10. CASE LockToFinish(c) BY <1>0, <1>1, <1>2, <1>10, LockStepType DEF LockToFinish
<1>11. CASE CommitTerminal(c)
  <2>1. TerminalEvent(runner[c].outcome) \in EventTypes
    BY <1>1 DEF TerminalEvent
  <2>2. runner' \in [Checks -> RunState] /\ events' \in [Checks -> Seq(Event)]
    BY <1>0, <1>1, <1>11, <2>1, RunStepType, AppendEventType DEF CommitTerminal, CommitTerminalIf
  <2>3. status' \in [Checks -> Statuses]
    BY <1>0, <1>11 DEF CommitTerminal, CommitTerminalIf, TypeOK, Statuses, TerminalStatuses, Outcomes
  <2>4. session' \in [Checks -> SessionStatuses]
    BY <1>11 DEF CommitTerminal, CommitTerminalIf, TypeOK, SessionStatuses, SessionStatus
  <2> QED BY <1>11, <2>2, <2>3, <2>4 DEF CommitTerminal, CommitTerminalIf, TypeOK, boot
<1>12. CASE CloseCheckpointer(c)
  BY <1>0, <1>1, <1>2, <1>12, RunStepType DEF CloseCheckpointer
<1>13. CASE RunnerFault(c)
  <2>1. /\ UNCHANGED <<tables, req, boot>>
        /\ \/ runner' = [runner EXCEPT ![c].pc = "failing", ![c].handler = "outer"]
           \/ runner' = [runner EXCEPT ![c].pc = "failing"]
           \/ runner' = [runner EXCEPT ![c].pc = "dead"]
    BY <1>13 DEF RunnerFault, OpenFails, GraphFails, CloseFails, RunnerDbError
  <2>2. "outer" \in Handlers /\ "failing" \in RunPcs /\ "dead" \in RunPcs
    BY <1>1 DEF Handlers
  <2>3. runner' \in [Checks -> RunState]
    <3>1. CASE runner' = [runner EXCEPT ![c].pc = "failing", ![c].handler = "outer"]
      BY <1>0, <2>2, <3>1 DEF RunState
    <3>2. CASE runner' = [runner EXCEPT ![c].pc = "failing"]
      BY <1>0, <2>2, <3>2 DEF RunState
    <3>3. CASE runner' = [runner EXCEPT ![c].pc = "dead"]
      BY <1>0, <2>2, <3>3 DEF RunState
    <3> QED BY <2>1, <3>1, <3>2, <3>3
  <2> QED BY <1>2, <2>1, <2>3
<1> QED BY <1>3, <1>4, <1>5, <1>6, <1>7, <1>8, <1>9, <1>10, <1>11, <1>12, <1>13
        DEF RunnerStep

\* Every step of a process keeps the types.
LEMMA ProcTypeOK ==
  ASSUME TypeOK, NEW p \in Procs, BootStep(p) \/ Crash(p)
  PROVE  TypeOK'
<1>1. CASE BootRead(p) BY <1>1 DEF BootRead, TypeOK, tables
<1>2. ASSUME NEW c \in Checks, BootLock(p, c) PROVE TypeOK'
  <2>1. NextSequence(c) \in Nat BY DEF NextSequence, TypeOK
  <2>2. bootSeq' \in [Procs -> [Checks -> Nat]]
    BY <1>2, <2>1 DEF BootLock, TypeOK
  <2> QED BY <1>2, <2>2 DEF BootLock, TypeOK, tables
<1>3. CASE BootCommit(p)
  <2>1. ASSUME NEW c \in Checks
        PROVE Append(events[c], [seq |-> bootSeq[p][c], type |-> "interrupted"]) \in Seq(Event)
    <3>1. [seq |-> bootSeq[p][c], type |-> "interrupted"] \in Event
      BY DEF Event, EventTypes, TerminalEvents, TypeOK
    <3> QED BY <3>1 DEF TypeOK
  <2>2. events' \in [Checks -> Seq(Event)] BY <1>3, <2>1 DEF BootCommit, TypeOK
  <2>3. status' \in [Checks -> Statuses]
    BY <1>3 DEF BootCommit, TypeOK, Statuses, TerminalStatuses
  <2> QED BY <1>3, <2>2, <2>3 DEF BootCommit, TypeOK
<1>4. CASE BootDeadlock(p) BY <1>4 DEF BootDeadlock, TypeOK, tables
<1>5. CASE Crash(p)
  <2>1. ASSUME NEW r \in Requests
        PROVE  [req[r] EXCEPT !.pc = "error", !.check = None] \in ReqState
    <3>1. "error" \in ReqPcs BY DEF ReqPcs
    <3>2. req[r] \in ReqState BY DEF TypeOK
    <3> QED BY <3>1, <3>2 DEF ReqState
  <2>2. ASSUME NEW c \in Checks
        PROVE  [runner[c] EXCEPT !.pc = "killed"] \in RunState
    <3>1. "killed" \in RunPcs BY DEF RunPcs
    <3>2. runner[c] \in RunState BY DEF TypeOK
    <3> QED BY <3>1, <3>2 DEF RunState
  <2>3. req' \in [Requests -> ReqState] BY <1>5, <2>1 DEF Crash, TypeOK
  <2>5. runner' \in [Checks -> RunState] BY <1>5, <2>2 DEF Crash, TypeOK
  <2>4. crashes' \in 0..MaxCrashes
    <3>1. crashes < MaxCrashes /\ crashes' = crashes + 1 BY <1>5 DEF Crash
    <3>2. crashes \in 0..MaxCrashes BY DEF TypeOK
    <3> QED BY <3>1, <3>2, CrashAssumption
  <2>6. /\ proc' \in [Procs -> {"down", "starting", "up"}]
        /\ todo' \in [Procs -> SUBSET Checks]
        /\ bootSeq' \in [Procs -> [Checks -> Nat]]
    BY <1>5 DEF Crash, TypeOK
  <2>7. UNCHANGED tables BY <1>5 DEF Crash
  <2> QED BY <2>3, <2>4, <2>5, <2>6, <2>7 DEF TypeOK, tables
<1> QED BY <1>1, <1>2, <1>3, <1>4, <1>5 DEF BootStep

\* Every reachable state of the check service has the declared types.
THEOREM TypeCorrect == Spec => []TypeOK
<1>1. TypeOK /\ [Next]_vars => TypeOK'
  <2>1. TypeOK /\ UNCHANGED vars => TypeOK'
    BY DEF TypeOK, vars, tables, boot
  <2> QED BY <2>1, RequestTypeOK, RunnerTypeOK, ProcTypeOK DEF Next
<1> QED BY <1>1, InitTypeOK, PTL DEF Spec

-----------------------------------------------------------------------------
(* One active check per subject, and a gapless numbering of events *)

\* The initial state satisfies the inductive invariant.
LEMMA InitSafety == Init => SafetyInv
<1> SUFFICES ASSUME Init PROVE SafetyInv OBVIOUS
<1>1. TypeOK BY InitTypeOK
<1>2. InsertInv /\ RowInv /\ LockInv /\ StartInv
  BY DEF Init, InsertInv, RowInv, LockInv, StartInv, NewRunner, LockedPcs
<1>3. EventsNumbered /\ OneActivePerSubject
  BY DEF Init, EventsNumbered, OneActivePerSubject, Active, ActiveStatuses
<1> QED BY <1>1, <1>2, <1>3 DEF SafetyInv

\* Of the requests only r has moved, to a state with nothing uncommitted.
QuietPcs == {"idle", "creating", "inserting", "conflict", "created", "joined", "error"}

ReqQuiet(r) ==
    /\ req'[r].pc \in QuietPcs
    /\ \A q \in Requests : req'[q].subj = req[q].subj /\ (q # r => req'[q] = req[q])

\* A move of a request to such a state is quiet.
LEMMA ReqStepQuiet ==
  ASSUME req \in [Requests -> ReqState], NEW r \in Requests, NEW from,
         NEW to \in QuietPcs, NEW c \in Checks \cup {None}, ReqStep(r, from, to, c)
  PROVE  req[r].pc = from /\ ReqQuiet(r)
BY DEF ReqStep, ReqState, ReqQuiet

\* So is a lookup of the active check.
LEMMA JoinQuiet ==
  ASSUME req \in [Requests -> ReqState], NEW r \in Requests, NEW from,
         NEW to \in QuietPcs, JoinOrGoOn(r, from, to)
  PROVE  ReqQuiet(r)
<1>1. "joined" \in QuietPcs BY DEF QuietPcs
<1>2. ActiveFor(req[r].subj) \subseteq Checks BY DEF ActiveFor
<1>3. CASE \E c \in ActiveFor(req[r].subj) : ReqStep(r, from, "joined", c)
  BY <1>1, <1>2, <1>3, ReqStepQuiet
<1>4. CASE ReqStep(r, from, to, None) BY <1>4, ReqStepQuiet
<1> QED BY <1>3, <1>4 DEF JoinOrGoOn

\* A request step that touches no table and is quiet keeps the invariant.
LEMMA RequestQuiet ==
  ASSUME SafetyInv, TypeOK', NEW r \in Requests, UNCHANGED <<tables, runner, boot>>,
         ReqQuiet(r)
  PROVE  SafetyInv'
<1> USE DEF tables, boot
<1>0. /\ req'[r].pc \notin {"inserted", "committed"}
      /\ \A q \in Requests : req'[q].subj = req[q].subj /\ (q # r => req'[q] = req[q])
  BY DEF ReqQuiet, QuietPcs
<1>1. InsertInv' BY <1>0 DEF SafetyInv, InsertInv, ActiveFor, Active
<1>2. RowInv' BY <1>0 DEF SafetyInv, RowInv
<1>3. LockInv' BY DEF SafetyInv, LockInv, NextSequence
<1>4. StartInv' BY DEF SafetyInv, StartInv
<1>5. EventsNumbered' BY DEF SafetyInv, EventsNumbered
<1>6. OneActivePerSubject' BY DEF SafetyInv, OneActivePerSubject, Active
<1> QED BY <1>1, <1>2, <1>3, <1>4, <1>5, <1>6 DEF SafetyInv

\* A flushed INSERT reserves its id and its subject.
LEMMA InsertSafety ==
  ASSUME SafetyInv, TypeOK', NEW r \in Requests, InsertCheck(r)
  PROVE  SafetyInv'
<1>0. UNCHANGED <<status, subject, session, events, msgs, runner, proc, todo, bootSeq>>
  BY DEF InsertCheck, tables, boot
<1>1. PICK c \in Checks : Fresh(c) /\ ReqStep(r, "inserting", "inserted", c)
  BY DEF InsertCheck
<1>2. /\ req'[r].pc = "inserted" /\ req'[r].check = c
      /\ \A q \in Requests : req'[q].subj = req[q].subj /\ (q # r => req'[q] = req[q])
  <2>1. req \in [Requests -> ReqState] BY DEF SafetyInv, TypeOK
  <2>2. req' = [req EXCEPT ![r].pc = "inserted", ![r].check = c] BY <1>1 DEF ReqStep
  <2> QED BY <2>1, <2>2 DEF ReqState
<1>3. /\ \A q \in Requests : req[q].pc = "inserted" => req[q].subj # req[r].subj
      /\ \A q \in Requests : req[q].check # c
      /\ status[c] = "absent" /\ ActiveFor(req[r].subj) = {}
  BY <1>1 DEF InsertCheck, InsertInFlight, Fresh
<1>4. InsertInv' BY <1>0, <1>2, <1>3 DEF SafetyInv, InsertInv, ActiveFor, Active
<1>5. RowInv' BY <1>0, <1>2 DEF SafetyInv, RowInv
<1>6. LockInv' BY <1>0 DEF SafetyInv, LockInv, NextSequence
<1>7. StartInv' BY <1>0 DEF SafetyInv, StartInv
<1>8. EventsNumbered' BY <1>0 DEF SafetyInv, EventsNumbered
<1>9. OneActivePerSubject' BY <1>0 DEF SafetyInv, OneActivePerSubject, Active
<1> QED BY <1>4, <1>5, <1>6, <1>7, <1>8, <1>9 DEF SafetyInv

\* The commit of a new check makes the only active check of its subject.
LEMMA CommitCheckSafety ==
  ASSUME SafetyInv, TypeOK', NEW r \in Requests, CommitCheck(r)
  PROVE  SafetyInv'
<1> DEFINE c == req[r].check
           s == req[r].subj
<1>0. TypeOK /\ InsertInv /\ RowInv /\ LockInv /\ StartInv /\ EventsNumbered
      /\ OneActivePerSubject
  BY DEF SafetyInv
<1>1. /\ req[r].pc = "inserted" /\ req'[r].pc = "committed" /\ req'[r].check = c
      /\ \A q \in Requests : req'[q].subj = req[q].subj /\ (q # r => req'[q] = req[q])
  <2>1. req \in [Requests -> ReqState] BY <1>0 DEF TypeOK
  <2>2. ReqStep(r, "inserted", "committed", c) BY DEF CommitCheck
  <2> HIDE DEF c
  <2> QED BY <2>1, <2>2 DEF ReqStep, ReqState
<1>2. /\ c \in Checks /\ status[c] = "absent" /\ ActiveFor(s) = {}
      /\ \A q \in Requests : req[q].pc = "inserted" /\ q # r =>
            req[q].check # c /\ req[q].subj # s
  BY <1>0, <1>1 DEF InsertInv
<1>3. /\ status'  = [status  EXCEPT ![c] = "pending"]
      /\ subject' = [subject EXCEPT ![c] = s]
      /\ events'  = [events  EXCEPT ![c] = <<[seq |-> 1, type |-> "created"]>>]
      /\ UNCHANGED <<proc, todo, bootSeq>>
  BY DEF CommitCheck, boot
<1>4. /\ status'[c] = "pending" /\ subject'[c] = s
      /\ \A d \in Checks : d # c => /\ status'[d] = status[d] /\ subject'[d] = subject[d]
                                    /\ events'[d] = events[d]
  BY <1>0, <1>2, <1>3 DEF TypeOK
<1>5. \A d \in Checks : runner'[d].pc = runner[d].pc /\ runner'[d].seq = runner[d].seq
  BY SMTT(30), <1>0, <1>2 DEF CommitCheck, TypeOK, RunState
<1>6. /\ runner[c].pc = "none" /\ \A p \in Procs : c \notin todo[p] /\ bootSeq[p][c] = 0
  BY <1>0, <1>2 DEF RowInv
<1> HIDE DEF c, s
<1>7. InsertInv'
  <2>1. \A q \in Requests : req'[q].pc = "inserted" => q # r /\ req[q].pc = "inserted"
    BY <1>1
  <2>2. \A t : t # s => ActiveFor(t)' = ActiveFor(t)
    BY <1>2, <1>4 DEF ActiveFor, Active, ActiveStatuses
  <2> QED BY <1>0, <1>1, <1>2, <1>4, <2>1, <2>2 DEF InsertInv
<1>8. RowInv'
  <2>1. \A d \in Checks : d # c => runner'[d] = runner[d]
    BY <1>0, <1>2 DEF CommitCheck, TypeOK, RunState, c
  <2>2. \A d \in Checks : status[d] # "absent" => status'[d] # "absent" BY <1>4
  <2>3. \A d \in Checks : runner'[d].pc # "none" \/ runner'[d].proc # None =>
          status'[d] # "absent"
    BY <1>0, <1>4, <2>1 DEF RowInv
  <2>4. \A q \in Requests : req'[q].pc = "committed" =>
          req'[q].check \in Checks /\ status'[req'[q].check] # "absent"
    BY <1>0, <1>1, <1>2, <1>4, <2>2 DEF RowInv
  <2>5. todo \in [Procs -> SUBSET Checks] BY <1>0 DEF TypeOK
  <2> QED BY <1>0, <1>3, <2>2, <2>3, <2>4, <2>5 DEF RowInv
<1>9. LockInv'
  BY <1>0, <1>3, <1>4, <1>5, <1>6 DEF LockInv, NextSequence, LockedPcs
<1>10. StartInv' BY <1>0, <1>4, <1>5, <1>6 DEF StartInv
<1>11. EventsNumbered'
  <2>1. events'[c] = <<[seq |-> 1, type |-> "created"]>>
    BY <1>0, <1>2, <1>3 DEF TypeOK
  <2> QED BY <1>0, <1>4, <2>1 DEF EventsNumbered
<1>12. OneActivePerSubject'
  <2>1. \A d \in Checks : d # c /\ Active(d)' => subject'[d] # s
    BY <1>2, <1>4 DEF ActiveFor, Active
  <2> QED BY <1>0, <1>4, <2>1 DEF OneActivePerSubject, Active
<1> QED BY <1>7, <1>8, <1>9, <1>10, <1>11, <1>12 DEF SafetyInv

\* Every step of a request keeps the invariant.
LEMMA RequestSafety ==
  ASSUME SafetyInv, NEW r \in Requests, RequestStep(r) \/ RequestDbError(r)
  PROVE  SafetyInv'
<1>0. TypeOK' BY RequestTypeOK DEF SafetyInv
<1>1. req \in [Requests -> ReqState] BY DEF SafetyInv, TypeOK
<1>2. CASE Lookup(r)
  <2>1. JoinOrGoOn(r, "idle", "creating") /\ UNCHANGED <<tables, runner, boot>>
    BY <1>2 DEF Lookup
  <2> QED BY <1>0, <1>1, <2>1, JoinQuiet, RequestQuiet DEF QuietPcs
<1>3. CASE Recheck(r)
  <2>1. JoinOrGoOn(r, "creating", "inserting") /\ UNCHANGED <<tables, runner, boot>>
    BY <1>3 DEF Recheck
  <2> QED BY <1>0, <1>1, <2>1, JoinQuiet, RequestQuiet DEF QuietPcs
<1>4. CASE ResolveConflict(r)
  <2>1. JoinOrGoOn(r, "conflict", "error") /\ UNCHANGED <<tables, runner, boot>>
    BY <1>4 DEF ResolveConflict
  <2> QED BY <1>0, <1>1, <2>1, JoinQuiet, RequestQuiet DEF QuietPcs
<1>5. CASE InsertConflict(r)
  <2>1. ReqStep(r, "inserting", "conflict", None) /\ UNCHANGED <<tables, runner, boot>>
    BY <1>5 DEF InsertConflict
  <2> QED BY <1>0, <1>1, <2>1, ReqStepQuiet, RequestQuiet DEF QuietPcs
<1>6. CASE RequestDbError(r)
  <2>1. /\ req' = [req EXCEPT ![r].pc = "error", ![r].check = None]
        /\ UNCHANGED <<tables, runner, boot>>
    BY <1>6 DEF RequestDbError
  <2>2. ReqStep(r, req[r].pc, "error", None) BY <2>1 DEF ReqStep
  <2> QED BY <1>0, <1>1, <2>1, <2>2, ReqStepQuiet, RequestQuiet DEF QuietPcs
<1>7. CASE InsertCheck(r) BY <1>0, <1>7, InsertSafety
<1>8. CASE CommitCheck(r) BY <1>0, <1>8, CommitCheckSafety
<1>9. CASE Schedule(r)
  <2> DEFINE c == req[r].check
  <2>0. RowInv /\ LockInv /\ StartInv /\ runner \in [Checks -> RunState]
    BY DEF SafetyInv, TypeOK
  <2>1. /\ ReqStep(r, "committed", "created", c)
        /\ runner' = [runner EXCEPT ![c].pc = "scheduled"]
        /\ UNCHANGED <<tables, boot>>
    BY <1>9 DEF Schedule
  <2> HIDE DEF c
  <2>2. /\ req[r].pc = "committed" /\ req'[r].pc = "created"
        /\ \A q \in Requests : req'[q].subj = req[q].subj /\ (q # r => req'[q] = req[q])
    BY <1>1, <2>1 DEF ReqStep, ReqState
  <2>3. c \in Checks /\ status[c] # "absent" BY <2>0, <2>2 DEF RowInv, c
  <2>4. /\ \A d \in Checks : d # c => runner'[d] = runner[d]
        /\ runner'[c].pc = "scheduled"
    BY <2>0, <2>1, <2>3 DEF RunState
  <2>5. InsertInv'
    BY <2>1, <2>2 DEF SafetyInv, InsertInv, ActiveFor, Active, tables
  <2>6. RowInv' BY <2>0, <2>1, <2>2, <2>3, <2>4 DEF RowInv, tables, boot
  <2>7. LockInv'
    BY <2>0, <2>1, <2>4 DEF LockInv, NextSequence, LockedPcs, tables, boot
  <2>8. StartInv' BY <2>0, <2>1, <2>4 DEF StartInv, tables
  <2>9. EventsNumbered' BY <2>1 DEF SafetyInv, EventsNumbered, tables
  <2>10. OneActivePerSubject'
    BY <2>1 DEF SafetyInv, OneActivePerSubject, Active, tables
  <2> QED BY <1>0, <2>5, <2>6, <2>7, <2>8, <2>9, <2>10 DEF SafetyInv
<1> QED BY <1>2, <1>3, <1>4, <1>5, <1>6, <1>7, <1>8, <1>9 DEF RequestStep

\* Of the tasks only that of c has moved; it holds no row lock now.
RunQuiet(c) ==
    /\ runner[c].pc # "none"
    /\ runner'[c].pc \notin LockedPcs \cup {"none"}
    /\ \A d \in Checks : d # c => runner'[d] = runner[d]

\* A move of a task to a state without lock is quiet.
LEMMA RunStepQuiet ==
  ASSUME runner \in [Checks -> RunState], NEW c \in Checks,
         NEW from, from # "none",
         NEW to \in RunPcs \ (LockedPcs \cup {"none"}), RunStep(c, from, to)
  PROVE  RunQuiet(c) /\ runner[c].pc = from
BY DEF RunStep, RunState, RunQuiet

\* A quiet step of a task that touches no table keeps the invariant.
LEMMA RunnerQuiet ==
  ASSUME SafetyInv, TypeOK', NEW c \in Checks, UNCHANGED <<tables, req, boot>>, RunQuiet(c)
  PROVE  SafetyInv'
<1> USE DEF tables, boot
<1>1. InsertInv' BY DEF SafetyInv, InsertInv, ActiveFor, Active
<1>2. RowInv' BY DEF SafetyInv, RowInv, RunQuiet
<1>3. LockInv' BY DEF SafetyInv, LockInv, NextSequence, RunQuiet
<1>4. StartInv' BY DEF SafetyInv, StartInv, RunQuiet, LockedPcs
<1>5. EventsNumbered' BY DEF SafetyInv, EventsNumbered
<1>6. OneActivePerSubject' BY DEF SafetyInv, OneActivePerSubject, Active
<1> QED BY <1>1, <1>2, <1>3, <1>4, <1>5, <1>6 DEF SafetyInv

\* Taking a free row lock and the next sequence number keeps the invariant.
LEMMA LockSafety ==
  ASSUME SafetyInv, TypeOK', NEW c \in Checks, UNCHANGED <<tables, req, boot>>,
         NEW from, from # "none", NEW to \in LockedPcs, LockStep(c, from, to),
         to = "starting" => status[c] = "pending"
  PROVE  SafetyInv'
<1> USE DEF tables, boot
<1>0. /\ runner[c].pc = from
      /\ runner'[c].pc = to /\ runner'[c].seq = NextSequence(c)
      /\ \A d \in Checks : d # c => runner'[d] = runner[d]
      /\ \A p \in Procs : bootSeq[p][c] = 0
  BY DEF LockStep, SafetyInv, TypeOK, RunState, RowFree
<1>1. InsertInv' BY DEF SafetyInv, InsertInv, ActiveFor, Active
<1>2. RowInv' BY <1>0 DEF SafetyInv, RowInv, LockedPcs
<1>3. LockInv' BY <1>0 DEF SafetyInv, LockInv, NextSequence
<1>4. StartInv' BY <1>0 DEF SafetyInv, StartInv
<1>5. EventsNumbered' BY DEF SafetyInv, EventsNumbered
<1>6. OneActivePerSubject' BY DEF SafetyInv, OneActivePerSubject, Active
<1> QED BY <1>1, <1>2, <1>3, <1>4, <1>5, <1>6 DEF SafetyInv

\* Adding the event with the next number keeps the numbering.
LEMMA AppendNumbered ==
  ASSUME NEW log \in Seq(Event), NEW t \in EventTypes, NEW n \in Nat, n = Len(log) + 1,
         \A i \in 1..Len(log) : log[i].seq = i
  PROVE  LET new == Append(log, [seq |-> n, type |-> t]) IN
         Len(new) = n /\ \A i \in 1..Len(new) : new[i].seq = i
<1> DEFINE e == [seq |-> n, type |-> t]
<1>1. e \in Event /\ e.seq = n BY DEF Event
<1> HIDE DEF e
<1>2. \A i \in 1..Len(log) : Append(log, e)[i] = log[i] BY <1>1
<1>3. Len(Append(log, e)) = n /\ Append(log, e)[n] = e BY <1>1
<1>4. \A i \in 1..Len(Append(log, e)) : Append(log, e)[i].seq = i
  BY <1>1, <1>2, <1>3
<1> QED BY <1>3, <1>4 DEF e

\* A commit of the transaction that holds the row lock: the event gets its
\* number, and the status may change but not from terminal to active.
LEMMA CommitSafety ==
  ASSUME SafetyInv, TypeOK', NEW c \in Checks, runner[c].pc \in LockedPcs, RunQuiet(c),
         NEW t \in EventTypes, AppendEvent(c, runner[c].seq, t),
         UNCHANGED <<subject, req, boot>>,
         \A d \in Checks : d # c => status'[d] = status[d],
         status'[c] # "absent", Active(c)' => Active(c)
  PROVE  SafetyInv'
<1>0. TypeOK /\ InsertInv /\ RowInv /\ LockInv /\ StartInv /\ EventsNumbered
      /\ OneActivePerSubject
  BY DEF SafetyInv
<1>1. /\ runner[c].seq = Len(events[c]) + 1
      /\ \A p \in Procs : bootSeq[p][c] = 0
      /\ status[c] # "absent"
  BY <1>0 DEF LockInv, RowInv, NextSequence, LockedPcs
<1>2. /\ events'[c] = Append(events[c], [seq |-> runner[c].seq, type |-> t])
      /\ \A d \in Checks : d # c => events'[d] = events[d]
  BY <1>0 DEF AppendEvent, TypeOK
<1>3. InsertInv'
  <2>1. \A s : ActiveFor(s) = {} => ActiveFor(s)' = {}
    BY DEF ActiveFor, Active
  <2> QED BY <1>0, <1>1, <2>1 DEF InsertInv
<1>4. RowInv'
  <2>1. \A d \in Checks : status[d] # "absent" => status'[d] # "absent" OBVIOUS
  <2>2. UNCHANGED <<req, proc, todo, bootSeq>> BY DEF boot
  <2>3. \A d \in Checks : runner'[d].pc # "none" \/ runner'[d].proc # None =>
          status'[d] # "absent"
    BY <1>0, <2>1 DEF RowInv, RunQuiet
  <2>4. todo \in [Procs -> SUBSET Checks] BY <1>0 DEF TypeOK
  <2> QED BY <1>0, <2>1, <2>2, <2>3, <2>4 DEF RowInv
<1>5. LockInv'
  <2>1. \A d \in Checks : runner'[d].pc \in LockedPcs =>
          d # c /\ runner'[d] = runner[d] /\ events'[d] = events[d]
    BY <1>2 DEF RunQuiet
  <2>2. \A p \in Procs : \A d \in Checks : bootSeq[p][d] # 0 => events'[d] = events[d]
    BY <1>1, <1>2
  <2>3. UNCHANGED bootSeq BY DEF boot
  <2> QED BY <1>0, <2>1, <2>2, <2>3 DEF LockInv, NextSequence
<1>6. StartInv' BY <1>0 DEF StartInv, RunQuiet, LockedPcs
<1>7. EventsNumbered'
  <2>1. \A i \in 1..Len(events'[c]) : events'[c][i].seq = i
    <3>1. events[c] \in Seq(Event) /\ runner[c].seq \in Nat BY <1>0 DEF TypeOK, RunState
    <3>2. \A i \in 1..Len(events[c]) : events[c][i].seq = i BY <1>0 DEF EventsNumbered
    <3> QED BY <1>1, <1>2, <3>1, <3>2, AppendNumbered
  <2> QED BY <1>0, <1>2, <2>1 DEF EventsNumbered
<1>8. OneActivePerSubject' BY <1>0 DEF OneActivePerSubject, Active
<1> QED BY <1>3, <1>4, <1>5, <1>6, <1>7, <1>8 DEF SafetyInv

\* Every step of a runner, and every failure of one, keeps the invariant.
LEMMA RunnerSafety ==
  ASSUME SafetyInv, NEW c \in Checks, RunnerStep(c) \/ RunnerFault(c)
  PROVE  SafetyInv'
<1>0. TypeOK' /\ runner \in [Checks -> RunState] BY RunnerTypeOK DEF SafetyInv, TypeOK
<1>1. /\ {"opened", "graph", "checkpoint", "finishing", "failing", "deciding", "closing",
           "done", "dead"} \subseteq RunPcs \ (LockedPcs \cup {"none"})
      /\ {"starting", "checkpointing", "finalizing"} \subseteq LockedPcs
      /\ {"started", "checkpoint", "completed", "failed"} \subseteq EventTypes
  BY DEF RunPcs, LockedPcs, EventTypes, TerminalEvents
<1>2. CASE OpenCheckpointer(c)
  BY <1>0, <1>1, <1>2, RunStepQuiet, RunnerQuiet DEF OpenCheckpointer
<1>3. CASE LockToStart(c)
  <2>1. CASE status[c] = "pending" /\ LockStep(c, "opened", "starting")
    BY <1>0, <1>1, <1>3, <2>1, LockSafety DEF LockToStart
  <2>2. CASE RunStep(c, "opened", "closing")
    BY <1>0, <1>1, <1>3, <2>2, RunStepQuiet, RunnerQuiet DEF LockToStart
  <2> QED BY <1>3, <2>1, <2>2 DEF LockToStart
<1>4. CASE CommitStarted(c)
  <2>1. RunQuiet(c) /\ runner[c].pc = "starting"
    BY <1>0, <1>1, <1>4, RunStepQuiet DEF CommitStarted
  <2>2. /\ \A d \in Checks : d # c => status'[d] = status[d]
        /\ status'[c] = "running" /\ Active(c)
    BY <1>4, <2>1 DEF CommitStarted, SafetyInv, TypeOK, StartInv, Active, ActiveStatuses
  <2>3. AppendEvent(c, runner[c].seq, "started") /\ UNCHANGED <<subject, req, boot>>
    BY <1>4 DEF CommitStarted
  <2> QED BY <1>0, <1>1, <2>1, <2>2, <2>3, CommitSafety
<1>5. CASE NodeCompletes(c)
  <2>1. RunQuiet(c) BY <1>0, <1>1, <1>5, RunStepQuiet DEF NodeCompletes
  <2>2. UNCHANGED <<status, subject, events, req, boot>> BY <1>5 DEF NodeCompletes
  <2>3. InsertInv' BY <2>2 DEF SafetyInv, InsertInv, ActiveFor, Active
  <2>4. RowInv' BY <2>1, <2>2 DEF SafetyInv, RowInv, RunQuiet, boot
  <2>5. LockInv' BY <2>1, <2>2 DEF SafetyInv, LockInv, NextSequence, RunQuiet, boot
  <2>6. StartInv' BY <2>1, <2>2 DEF SafetyInv, StartInv, RunQuiet, LockedPcs
  <2>7. EventsNumbered' BY <2>2 DEF SafetyInv, EventsNumbered
  <2>8. OneActivePerSubject' BY <2>2 DEF SafetyInv, OneActivePerSubject, Active
  <2> QED BY <1>0, <2>3, <2>4, <2>5, <2>6, <2>7, <2>8 DEF SafetyInv
<1>6. CASE LockToCheckpoint(c)
  BY <1>0, <1>1, <1>6, LockSafety DEF LockToCheckpoint
<1>7. CASE CommitCheckpoint(c)
  <2>1. RunQuiet(c) /\ runner[c].pc = "checkpointing"
    BY <1>0, <1>1, <1>7, RunStepQuiet DEF CommitCheckpoint
  <2>2. AppendEvent(c, runner[c].seq, "checkpoint") /\ UNCHANGED <<status, subject, req, boot>>
    BY <1>7 DEF CommitCheckpoint
  <2>3. status[c] # "absent" BY <2>1 DEF SafetyInv, RowInv
  <2>4. Active(c)' => Active(c) BY <2>2 DEF Active
  <2> QED BY <1>0, <1>1, <2>1, <2>2, <2>3, <2>4, CommitSafety
<1>8. CASE ReadBeforeTerminal(c)
  <2> DEFINE o == IF runner[c].pc = "finishing" THEN "succeeded" ELSE "failed"
  <2>1. /\ runner[c].pc # "none"
        /\ runner' = [runner EXCEPT ![c].pc = "deciding", ![c].seen = status[c],
                                  ![c].outcome = o]
        /\ UNCHANGED <<tables, req, boot>>
    BY <1>8 DEF ReadBeforeTerminal
  <2> HIDE DEF o
  <2>2. RunQuiet(c) BY <1>0, <2>1 DEF RunQuiet, RunState, LockedPcs
  <2> QED BY <1>0, <2>1, <2>2, RunnerQuiet
<1>9. CASE LockToFinish(c)
  BY <1>0, <1>1, <1>9, LockSafety DEF LockToFinish
<1>10. CASE CommitTerminal(c)
  <2>1. RunQuiet(c) /\ runner[c].pc = "finalizing"
    BY <1>0, <1>1, <1>10, RunStepQuiet DEF CommitTerminal, CommitTerminalIf
  <2>2. TerminalEvent(runner[c].outcome) \in EventTypes BY <1>1 DEF TerminalEvent
  <2>3. /\ AppendEvent(c, runner[c].seq, TerminalEvent(runner[c].outcome))
        /\ UNCHANGED <<subject, req, boot>>
    BY <1>10 DEF CommitTerminal, CommitTerminalIf
  <2>4. status[c] # "absent" BY <2>1 DEF SafetyInv, RowInv
  <2>5. /\ \A d \in Checks : d # c => status'[d] = status[d]
        /\ status'[c] \in {runner[c].outcome, status[c]}
    BY <1>10 DEF CommitTerminal, CommitTerminalIf, SafetyInv, TypeOK
  <2>6. runner[c].outcome \in Outcomes BY <1>0 DEF RunState
  <2>7. status'[c] # "absent" /\ (Active(c)' => Active(c))
    BY <2>4, <2>5, <2>6 DEF Outcomes, Active, ActiveStatuses
  <2> QED BY <1>0, <1>1, <2>1, <2>2, <2>3, <2>5, <2>7, CommitSafety
<1>11. CASE CloseCheckpointer(c)
  BY <1>0, <1>1, <1>11, RunStepQuiet, RunnerQuiet DEF CloseCheckpointer
<1>12. CASE RunnerFault(c)
  <2>1. /\ UNCHANGED <<tables, req, boot>> /\ runner[c].pc # "none"
        /\ \/ runner' = [runner EXCEPT ![c].pc = "failing", ![c].handler = "outer"]
           \/ runner' = [runner EXCEPT ![c].pc = "failing"]
           \/ runner' = [runner EXCEPT ![c].pc = "dead"]
    BY <1>12 DEF RunnerFault, OpenFails, GraphFails, CloseFails, RunnerDbError
  <2>2. runner'[c].pc \in {"failing", "dead"} /\ \A d \in Checks : d # c => runner'[d] = runner[d]
    BY <1>0, <2>1 DEF RunState
  <2>3. RunQuiet(c) BY <2>1, <2>2 DEF RunQuiet, LockedPcs
  <2> QED BY <1>0, <2>1, <2>3, RunnerQuiet
<1> QED BY <1>2, <1>3, <1>4, <1>5, <1>6, <1>7, <1>8, <1>9, <1>10, <1>11, <1>12
        DEF RunnerStep

\* Every step of a process keeps the invariant.
LEMMA ProcSafety ==
  ASSUME SafetyInv, NEW p \in Procs, BootStep(p) \/ Crash(p)
  PROVE  SafetyInv'
<1>0. TypeOK' /\ TypeOK /\ InsertInv /\ RowInv /\ LockInv /\ StartInv /\ EventsNumbered
      /\ OneActivePerSubject
  BY ProcTypeOK DEF SafetyInv
<1>1. ASSUME UNCHANGED <<tables, req, runner>> PROVE
        InsertInv' /\ StartInv' /\ EventsNumbered' /\ OneActivePerSubject'
  <2>1. InsertInv' BY <1>0, <1>1 DEF InsertInv, ActiveFor, Active, tables
  <2>2. StartInv' BY <1>0, <1>1 DEF StartInv, tables
  <2>3. EventsNumbered' BY <1>0, <1>1 DEF EventsNumbered, tables
  <2>4. OneActivePerSubject' BY <1>0, <1>1 DEF OneActivePerSubject, Active, tables
  <2> QED BY <2>1, <2>2, <2>3, <2>4
<1>2. CASE BootRead(p)
  <2>1. /\ UNCHANGED <<status, events, req, runner, bootSeq>>
        /\ \A q \in Procs : q # p => todo'[q] = todo[q] /\ proc'[q] = proc[q]
        /\ todo'[p] = {c \in Checks : Active(c)}
    BY <1>0, <1>2 DEF BootRead, tables, TypeOK
  <2>2. \A c \in todo'[p] : status[c] # "absent"
    BY <2>1 DEF Active, ActiveStatuses
  <2>3. \A c \in Checks : bootSeq[p][c] = 0
    BY <1>0, <1>2 DEF BootRead, RowInv
  <2>4. RowInv' BY <1>0, <2>1, <2>2, <2>3 DEF RowInv
  <2>5. LockInv' BY <1>0, <2>1 DEF LockInv, NextSequence
  <2> QED BY <1>0, <1>1, <1>2, <2>4, <2>5 DEF BootRead, SafetyInv
<1>3. ASSUME NEW c \in Checks, BootLock(p, c) PROVE SafetyInv'
  <2>1. /\ UNCHANGED <<status, events, req, runner, proc, todo>> /\ proc[p] = "starting"
        /\ bootSeq'[p][c] = NextSequence(c)
        /\ \A q \in Procs, d \in Checks : q # p \/ d # c => bootSeq'[q][d] = bootSeq[q][d]
        /\ c \in todo[p] /\ RowFree(c)
    <3>1. bootSeq \in [Procs -> [Checks -> Nat]] BY <1>0 DEF TypeOK
    <3>2. bootSeq' = [bootSeq EXCEPT ![p][c] = NextSequence(c)] BY <1>3 DEF BootLock
    <3>3. bootSeq'[p] = [bootSeq[p] EXCEPT ![c] = NextSequence(c)]
          /\ \A q \in Procs : q # p => bootSeq'[q] = bootSeq[q]
      BY <3>1, <3>2
    <3>4. /\ bootSeq'[p][c] = NextSequence(c)
          /\ \A d \in Checks : d # c => bootSeq'[p][d] = bootSeq[p][d]
      BY <3>1, <3>3
    <3> QED BY <1>3, <3>3, <3>4 DEF BootLock, tables
  <2>2. RowInv' BY <1>0, <2>1 DEF RowInv
  <2>3. LockInv' BY <1>0, <2>1 DEF LockInv, NextSequence, RowFree
  <2> QED BY <1>0, <1>1, <1>3, <2>2, <2>3 DEF BootLock, SafetyInv
<1>4. CASE BootCommit(p)
  <2>1. /\ \A c \in Checks : c \notin todo[p] => status'[c] = status[c] /\ events'[c] = events[c]
        /\ \A c \in todo[p] : /\ status'[c] = "interrupted"
                              /\ events'[c] = Append(events[c],
                                   [seq |-> bootSeq[p][c], type |-> "interrupted"])
        /\ \A q \in Procs : q # p => /\ todo'[q] = todo[q] /\ bootSeq'[q] = bootSeq[q]
                                     /\ proc'[q] = proc[q]
        /\ todo'[p] = {} /\ \A c \in Checks : bootSeq'[p][c] = 0
        /\ UNCHANGED <<subject, req, runner>>
    BY <1>0, <1>4 DEF BootCommit, TypeOK
  <2>2. /\ todo[p] \subseteq Checks
        /\ \A c \in todo[p] : /\ bootSeq[p][c] # 0 /\ bootSeq[p][c] = Len(events[c]) + 1
                              /\ runner[c].pc \notin LockedPcs
                              /\ \A q \in Procs : q # p => bootSeq[q][c] = 0
                              /\ status[c] # "absent"
    BY <1>0, <1>4 DEF BootCommit, TypeOK, LockInv, RowInv, NextSequence
  <2>3. \A c \in Checks : Active(c)' => Active(c) /\ c \notin todo[p]
    BY <2>1, <2>2 DEF Active, ActiveStatuses
  <2>4. InsertInv'
    <3>1. \A s : ActiveFor(s) = {} => ActiveFor(s)' = {}
      BY <2>1, <2>3 DEF ActiveFor
    <3> QED BY <1>0, <2>1, <2>2, <3>1 DEF InsertInv
  <2>5. RowInv'
    <3>1. \A c \in Checks : status[c] # "absent" => status'[c] # "absent" BY <2>1
    <3>2. todo \in [Procs -> SUBSET Checks] BY <1>0 DEF TypeOK
    <3>3. \A q \in Procs : \A c \in todo'[q] : status'[c] # "absent"
      BY <1>0, <2>1, <3>1, <3>2 DEF RowInv
    <3>4. \A q \in Procs : \A c \in Checks : bootSeq'[q][c] # 0 =>
            c \in todo'[q] /\ proc'[q] = "starting"
      BY <1>0, <2>1 DEF RowInv
    <3> QED BY <1>0, <2>1, <3>1, <3>3, <3>4 DEF RowInv
  <2>6. LockInv'
    <3>1. \A c \in Checks : runner[c].pc \in LockedPcs => c \notin todo[p]
      BY <2>2
    <3>2. \A q \in Procs, c \in Checks : bootSeq'[q][c] # 0 =>
            q # p /\ bootSeq[q][c] # 0 /\ c \notin todo[p]
      BY <2>1, <2>2
    <3>3. /\ UNCHANGED runner /\ \A q \in Procs : q # p => bootSeq'[q] = bootSeq[q]
          /\ \A c \in Checks : c \notin todo[p] => events'[c] = events[c]
          /\ \A c \in Checks : bootSeq'[p][c] = 0
      BY <2>1
    <3>4. ASSUME NEW c \in Checks, runner'[c].pc \in LockedPcs
          PROVE  runner'[c].seq = NextSequence(c)' /\ \A q \in Procs : bootSeq'[q][c] = 0
      BY <1>0, <3>1, <3>3, <3>4 DEF LockInv, NextSequence
    <3>5. ASSUME NEW q \in Procs, NEW c \in Checks, bootSeq'[q][c] # 0
          PROVE  /\ bootSeq'[q][c] = NextSequence(c)'
                 /\ \A o \in Procs : o # q => bootSeq'[o][c] = 0
      BY <1>0, <3>2, <3>3, <3>5 DEF LockInv, NextSequence
    <3> QED BY <3>4, <3>5 DEF LockInv
  <2>7. StartInv' BY <1>0, <2>1, <2>2 DEF StartInv, LockedPcs
  <2>8. EventsNumbered'
    <3>1. ASSUME NEW c \in todo[p]
          PROVE \A i \in 1..Len(events'[c]) : events'[c][i].seq = i
      <4>1. /\ events[c] \in Seq(Event) /\ bootSeq[p][c] \in Nat
            /\ "interrupted" \in EventTypes
        BY <1>0, <2>2 DEF TypeOK, EventTypes, TerminalEvents
      <4>2. \A i \in 1..Len(events[c]) : events[c][i].seq = i
        BY <1>0, <2>2 DEF EventsNumbered
      <4>3. /\ bootSeq[p][c] = Len(events[c]) + 1
            /\ events'[c] = Append(events[c], [seq |-> bootSeq[p][c], type |-> "interrupted"])
        BY <2>1, <2>2
      <4> QED BY <4>1, <4>2, <4>3, AppendNumbered
    <3> QED BY <1>0, <2>1, <3>1 DEF EventsNumbered
  <2>9. OneActivePerSubject'
    <3>1. UNCHANGED subject BY <2>1
    <3> QED BY <1>0, <2>3, <3>1 DEF OneActivePerSubject
  <2> QED BY <1>0, <2>4, <2>5, <2>6, <2>7, <2>8, <2>9 DEF SafetyInv
<1>5. ASSUME UNCHANGED tables, proc' = [proc EXCEPT ![p] = "down"],
             todo' = [todo EXCEPT ![p] = {}],
             bootSeq' = [bootSeq EXCEPT ![p] = [c \in Checks |-> 0]]
      PROVE  /\ \A q \in Procs : todo'[q] \subseteq todo[q]
             /\ \A q \in Procs, c \in Checks : bootSeq'[q][c] # 0 =>
                   q # p /\ bootSeq'[q][c] = bootSeq[q][c] /\ todo'[q] = todo[q] /\ proc'[q] = proc[q]
             /\ \A q \in Procs, c \in Checks : bootSeq[q][c] = 0 => bootSeq'[q][c] = 0
             /\ UNCHANGED <<status, events>>
  BY <1>0, <1>5 DEF TypeOK, tables
<1>6. CASE BootDeadlock(p)
  <2>1. UNCHANGED <<tables, req, runner>> BY <1>6 DEF BootDeadlock
  <2>2. /\ \A q \in Procs : todo'[q] \subseteq todo[q]
        /\ \A q \in Procs, c \in Checks : bootSeq'[q][c] # 0 =>
              q # p /\ bootSeq'[q][c] = bootSeq[q][c] /\ todo'[q] = todo[q] /\ proc'[q] = proc[q]
        /\ \A q \in Procs, c \in Checks : bootSeq[q][c] = 0 => bootSeq'[q][c] = 0
        /\ UNCHANGED <<status, events>>
    BY <1>5, <1>6 DEF BootDeadlock
  <2>3. RowInv' BY <1>0, <2>1, <2>2 DEF RowInv
  <2>4. LockInv' BY <1>0, <2>1, <2>2 DEF LockInv, NextSequence
  <2> QED BY <1>0, <1>1, <2>1, <2>3, <2>4 DEF SafetyInv
<1>7. CASE Crash(p)
  <2>1. UNCHANGED tables BY <1>7 DEF Crash
  <2>2. /\ \A q \in Procs : todo'[q] \subseteq todo[q]
        /\ \A q \in Procs, c \in Checks : bootSeq'[q][c] # 0 =>
              q # p /\ bootSeq'[q][c] = bootSeq[q][c] /\ todo'[q] = todo[q] /\ proc'[q] = proc[q]
        /\ \A q \in Procs, c \in Checks : bootSeq[q][c] = 0 => bootSeq'[q][c] = 0
        /\ UNCHANGED <<status, events>>
    BY <1>5, <1>7 DEF Crash
  <2>3. \A r \in Requests : req'[r] = req[r] \/ req'[r].pc = "error"
    <3>1. req' = [r \in Requests |->
                    IF req[r].proc = p /\ req[r].pc \notin ReqDone \cup {"idle"}
                    THEN [req[r] EXCEPT !.pc = "error", !.check = None] ELSE req[r]]
      BY <1>7 DEF Crash
    <3> SUFFICES ASSUME NEW r \in Requests PROVE req'[r] = req[r] \/ req'[r].pc = "error"
      OBVIOUS
    <3>2. [req[r] EXCEPT !.pc = "error", !.check = None].pc = "error"
      BY <1>0 DEF TypeOK, ReqState
    <3> QED BY <3>1, <3>2
  <2>4. \A c \in Checks : \/ runner'[c] = runner[c]
                          \/ runner'[c].pc = "killed" /\ runner[c].proc = p
    <3>1. runner' = [c \in Checks |->
                       IF runner[c].proc = p /\ runner[c].pc \notin RunDone
                       THEN [runner[c] EXCEPT !.pc = "killed"] ELSE runner[c]]
      BY <1>7 DEF Crash
    <3> SUFFICES ASSUME NEW c \in Checks
                 PROVE  \/ runner'[c] = runner[c]
                        \/ runner'[c].pc = "killed" /\ runner[c].proc = p
      OBVIOUS
    <3>2. [runner[c] EXCEPT !.pc = "killed"].pc = "killed"
      BY <1>0 DEF TypeOK, RunState
    <3>3. runner'[c] = IF runner[c].proc = p /\ runner[c].pc \notin RunDone
                       THEN [runner[c] EXCEPT !.pc = "killed"] ELSE runner[c]
      BY <3>1
    <3> QED BY <3>2, <3>3
  <2>5. InsertInv' BY <1>0, <2>1, <2>3 DEF InsertInv, ActiveFor, Active, tables
  <2>6. RowInv'
    <3>1. \A c \in Checks : runner[c].proc = p => status[c] # "absent"
      BY <1>0, NoneAssumption DEF RowInv
    <3>2. \A c \in Checks : runner'[c].pc # "none" \/ runner'[c].proc # None =>
            status'[c] # "absent"
      BY <1>0, <2>2, <2>4, <3>1 DEF RowInv
    <3>3. \A r \in Requests : req'[r].pc = "committed" => req'[r] = req[r] BY <2>3
    <3>4. \A q \in Procs : \A c \in todo'[q] : status'[c] # "absent"
      BY <1>0, <2>2 DEF RowInv
    <3>5. \A q \in Procs : \A c \in Checks : bootSeq'[q][c] # 0 =>
            c \in todo'[q] /\ proc'[q] = "starting"
      BY <1>0, <2>2 DEF RowInv
    <3> QED BY <1>0, <2>2, <3>2, <3>3, <3>4, <3>5 DEF RowInv
  <2>7. LockInv' BY <1>0, <2>2, <2>4 DEF LockInv, NextSequence, LockedPcs
  <2>8. StartInv' BY <1>0, <2>2, <2>4 DEF StartInv
  <2>9. EventsNumbered' BY <1>0, <2>2 DEF EventsNumbered
  <2>10. OneActivePerSubject' BY <1>0, <2>1 DEF OneActivePerSubject, Active, tables
  <2> QED BY <1>0, <2>5, <2>6, <2>7, <2>8, <2>9, <2>10 DEF SafetyInv
<1> QED BY <1>2, <1>3, <1>4, <1>6, <1>7 DEF BootStep

\* Every step keeps the invariant.
LEMMA NextSafety == SafetyInv /\ [Next]_vars => SafetyInv'
<1> SUFFICES ASSUME SafetyInv, [Next]_vars PROVE SafetyInv'
  OBVIOUS
<1>1. CASE Next
  BY <1>1, RequestSafety, RunnerSafety, ProcSafety DEF Next
<1>2. CASE UNCHANGED vars
  <2>0. UNCHANGED <<status, subject, session, events, msgs, req, runner, proc, todo,
                    bootSeq, crashes>>
    BY <1>2 DEF vars, tables, boot
  <2>1. TypeOK' BY <2>0 DEF SafetyInv, TypeOK
  <2>2. InsertInv' BY <2>0 DEF SafetyInv, InsertInv, ActiveFor, Active
  <2>3. RowInv' BY <2>0 DEF SafetyInv, RowInv
  <2>4. LockInv' BY <2>0 DEF SafetyInv, LockInv, NextSequence
  <2>5. StartInv' /\ EventsNumbered' BY <2>0 DEF SafetyInv, StartInv, EventsNumbered
  <2>6. OneActivePerSubject' BY <2>0 DEF SafetyInv, OneActivePerSubject, Active
  <2> QED BY <2>1, <2>2, <2>3, <2>4, <2>5, <2>6 DEF SafetyInv
<1> QED BY <1>1, <1>2

\* The inductive invariant holds in every reachable state, whatever the number
\* of processes, requests, checks and crashes.
THEOREM Safety == Spec => []SafetyInv
<1>1. Init => SafetyInv BY InitSafety
<1> QED BY <1>1, NextSafety, PTL DEF Spec

\* No two active checks of one subject (the partial unique index and the
\* lookups of start_check and create_check).
THEOREM OneActive == Spec => []OneActivePerSubject
<1>1. SafetyInv => OneActivePerSubject BY DEF SafetyInv
<1> QED BY <1>1, Safety, PTL

\* The events of a check are numbered without gap or duplicate in commit order
\* (append_event, _lock_check and the startup hook).
THEOREM Numbered == Spec => []EventsNumbered
<1>1. SafetyInv => EventsNumbered BY DEF SafetyInv
<1> QED BY <1>1, Safety, PTL

\* A step that leaves the status of a terminal check terminal.
LEMMA NextNeverRevives ==
  ASSUME SafetyInv, [Next]_vars, NEW c \in Checks, status[c] \in TerminalStatuses
  PROVE  ~Active(c)'
<1>0. TypeOK /\ InsertInv /\ StartInv BY DEF SafetyInv
<1>1. ASSUME status'[c] = status[c] \/ status'[c] \in TerminalStatuses PROVE ~Active(c)'
  BY <1>1 DEF Active, ActiveStatuses, TerminalStatuses
<1>2. ASSUME NEW r \in Requests, RequestStep(r) \/ RequestDbError(r) PROVE ~Active(c)'
  <2>1. CASE CommitCheck(r)
    <3>1. req[r].pc = "inserted" /\ status' = [status EXCEPT ![req[r].check] = "pending"]
      BY <2>1 DEF CommitCheck, ReqStep
    <3>2. req[r].check \in Checks /\ status[req[r].check] = "absent"
      BY <1>0, <3>1 DEF InsertInv
    <3> QED BY <1>0, <1>1, <3>1, <3>2 DEF TypeOK, TerminalStatuses
  <2>2. CASE ~CommitCheck(r)
    BY <1>1, <1>2, <2>2 DEF RequestStep, RequestDbError, Lookup, Recheck, InsertCheck,
       InsertConflict, ResolveConflict, Schedule, tables
  <2> QED BY <2>1, <2>2
<1>3. ASSUME NEW d \in Checks, RunnerStep(d) \/ RunnerFault(d) PROVE ~Active(c)'
  <2>1. CASE CommitStarted(d)
    <3>1. status' = [status EXCEPT ![d] = "running"] /\ status[d] = "pending"
      BY <1>0, <2>1 DEF CommitStarted, RunStep, StartInv
    <3> QED BY <1>0, <1>1, <3>1 DEF TypeOK, TerminalStatuses
  <2>2. CASE CommitTerminal(d)
    <3>1. status'[c] \in {status[c], runner[d].outcome}
      BY <1>0, <2>2 DEF CommitTerminal, CommitTerminalIf, TypeOK
    <3>2. runner[d].outcome \in Outcomes BY <1>0 DEF TypeOK, RunState
    <3> QED BY <1>1, <3>1, <3>2 DEF Outcomes, TerminalStatuses
  <2>3. CASE ~CommitStarted(d) /\ ~CommitTerminal(d)
    BY <1>1, <1>3, <2>3 DEF RunnerStep, RunnerFault, OpenCheckpointer, LockToStart,
       NodeCompletes, LockToCheckpoint, CommitCheckpoint, ReadBeforeTerminal, LockToFinish,
       CloseCheckpointer, OpenFails, GraphFails, CloseFails, RunnerDbError, tables
  <2> QED BY <2>1, <2>2, <2>3
<1>4. ASSUME NEW p \in Procs, BootStep(p) \/ Crash(p) PROVE ~Active(c)'
  <2>1. CASE BootCommit(p)
    BY <1>1, <2>1 DEF BootCommit, TerminalStatuses
  <2>2. CASE ~BootCommit(p)
    BY <1>1, <1>4, <2>2 DEF BootStep, BootRead, BootLock, BootDeadlock, Crash, tables
  <2> QED BY <2>1, <2>2
<1>5. CASE UNCHANGED vars BY <1>1, <1>5 DEF vars, tables
<1> QED BY <1>2, <1>3, <1>4, <1>5 DEF Next

\* No step makes a terminal check active again (mark_running's guard under the
\* row lock, mark_terminal's outcomes, the startup hook), however many
\* processes overlap.
THEOREM NotRevived == Spec => NeverRevived
<1>1. SafetyInv /\ [Next]_vars =>
        [\A c \in Checks : status[c] \in TerminalStatuses => ~Active(c)']_vars
  BY NextNeverRevives
<1> QED BY <1>1, Safety, PTL DEF Spec, NeverRevived

-----------------------------------------------------------------------------
(* What a step of a task does to its own check and to the others *)

\* Nothing of check d changes.
CheckStays(d) ==
    /\ status'[d] = status[d] /\ session'[d] = session[d]
    /\ events'[d] = events[d] /\ msgs'[d] = msgs[d]

\* What the task of c remembers for mark_terminal stays.
MemoryStays(c) ==
    /\ runner'[c].seen = runner[c].seen /\ runner'[c].outcome = runner[c].outcome
    /\ runner'[c].handler = runner[c].handler

Goes(c, from, to) == runner[c].pc = from /\ runner'[c].pc = to

Logs(c, type) == events'[c] = Append(events[c], [seq |-> runner[c].seq, type |-> type])

\* A move of the task that writes nothing, or nothing but its memory.
SilentMove(c) ==
    /\ CheckStays(c)
    /\ \/ /\ MemoryStays(c)
          /\ \/ Goes(c, "scheduled", "opened")
             \/ Goes(c, "opened", "starting") /\ status[c] = "pending"
             \/ Goes(c, "opened", "closing") /\ status[c] # "pending"
             \/ Goes(c, "graph", "failing")
             \/ Goes(c, "checkpoint", "failing")
             \/ Goes(c, "checkpoint", "checkpointing")
             \/ Goes(c, "deciding", "finalizing")
             \/ Goes(c, "closing", "done")
             \/ runner'[c].pc = "dead"
       \/ /\ Goes(c, "scheduled", "failing") \/ Goes(c, "closing", "failing")
          /\ runner'[c].handler = "outer"
       \/ /\ Goes(c, "finishing", "deciding") /\ runner'[c].outcome = "succeeded"
          /\ runner'[c].seen = status[c] /\ runner'[c].handler = runner[c].handler
       \/ /\ Goes(c, "failing", "deciding") /\ runner'[c].outcome = "failed"
          /\ runner'[c].seen = status[c] /\ runner'[c].handler = runner[c].handler

\* A commit of the task.
CommitMove(c) ==
    \/ /\ Goes(c, "starting", "graph") /\ MemoryStays(c)
       /\ status'[c] = "running" /\ Logs(c, "started")
       /\ session'[c] = session[c] /\ msgs'[c] = msgs[c]
    \/ /\ Goes(c, "graph", IF msgs[c] + 1 = NodeCount THEN "checkpoint" ELSE "graph")
       /\ MemoryStays(c) /\ msgs'[c] = msgs[c] + 1
       /\ status'[c] = status[c] /\ session'[c] = session[c] /\ events'[c] = events[c]
    \/ /\ Goes(c, "checkpointing", "finishing") /\ MemoryStays(c)
       /\ Logs(c, "checkpoint")
       /\ status'[c] = status[c] /\ session'[c] = session[c] /\ msgs'[c] = msgs[c]
    \/ /\ Goes(c, "finalizing", IF runner[c].handler = "outer" THEN "done" ELSE "closing")
       /\ MemoryStays(c) /\ msgs'[c] = msgs[c]
       /\ status'[c] = IF runner[c].seen \in ActiveStatuses THEN runner[c].outcome ELSE status[c]
       /\ session'[c] = SessionStatus(runner[c].outcome)
       /\ Logs(c, TerminalEvent(runner[c].outcome))

\* The frame of a step of the task of c: requests and processes stay, so do the
\* other checks and their tasks, and the task has not ended before.
TaskFrame(c) ==
    /\ UNCHANGED <<subject, req, proc, todo, bootSeq>>
    /\ \A d \in Checks : d # c => CheckStays(d) /\ runner'[d] = runner[d]
    /\ runner'[c].proc = runner[c].proc
    /\ runner[c].pc \notin RunDone \cup {"none"}

\* Every step of run_sop_quality_check and of its two handlers, and every
\* failure, is one of these moves within the frame.
LEMMA TaskMoves ==
  ASSUME TypeOK, NEW c \in Checks, RunnerStep(c) \/ RunnerFault(c)
  PROVE  TaskFrame(c) /\ (SilentMove(c) \/ CommitMove(c))
<1> USE DEF tables, boot
<1>0. /\ runner \in [Checks -> RunState] /\ runner[c] \in RunState
      /\ status \in [Checks -> Statuses] /\ session \in [Checks -> SessionStatuses]
      /\ events \in [Checks -> Seq(Event)] /\ msgs \in [Checks -> Nat]
  BY DEF TypeOK
<1>1. ASSUME UNCHANGED <<tables, req, boot>>, runner[c].pc \notin RunDone \cup {"none"},
             runner'[c].proc = runner[c].proc,
             \A d \in Checks : d # c => runner'[d] = runner[d]
      PROVE  TaskFrame(c) /\ CheckStays(c)
  BY <1>1 DEF TaskFrame, CheckStays
<1>2. ASSUME NEW from, NEW to, RunStep(c, from, to)
      PROVE  /\ Goes(c, from, to) /\ MemoryStays(c) /\ runner'[c].proc = runner[c].proc
             /\ \A d \in Checks : d # c => runner'[d] = runner[d]
  BY <1>0, <1>2 DEF RunStep, Goes, MemoryStays, RunState
<1>3. ASSUME NEW from, NEW to, LockStep(c, from, to)
      PROVE  /\ Goes(c, from, to) /\ MemoryStays(c) /\ runner'[c].proc = runner[c].proc
             /\ \A d \in Checks : d # c => runner'[d] = runner[d]
  BY <1>0, <1>3 DEF LockStep, Goes, MemoryStays, RunState
<1>4. ASSUME NEW from, NEW to, Goes(c, from, to), from \notin RunDone \cup {"none"}
      PROVE  runner[c].pc \notin RunDone \cup {"none"}
  BY <1>4 DEF Goes
<1>5. CASE OpenCheckpointer(c)
  BY <1>1, <1>2, <1>4, <1>5 DEF OpenCheckpointer, SilentMove, RunDone
<1>6. CASE LockToStart(c)
  BY <1>1, <1>2, <1>3, <1>4, <1>6 DEF LockToStart, SilentMove, RunDone
<1>7. CASE CloseCheckpointer(c)
  BY <1>1, <1>2, <1>4, <1>7 DEF CloseCheckpointer, SilentMove, RunDone
<1>8. CASE LockToCheckpoint(c)
  BY <1>1, <1>3, <1>4, <1>8 DEF LockToCheckpoint, SilentMove, RunDone
<1>9. CASE LockToFinish(c)
  BY <1>1, <1>3, <1>4, <1>9 DEF LockToFinish, SilentMove, RunDone
<1>10. CASE ReadBeforeTerminal(c)
  <2> DEFINE o == IF runner[c].pc = "finishing" THEN "succeeded" ELSE "failed"
  <2>1. runner' = [runner EXCEPT ![c].pc = "deciding", ![c].seen = status[c], ![c].outcome = o]
    BY <1>10 DEF ReadBeforeTerminal
  <2> HIDE DEF o
  <2>2. /\ runner'[c].pc = "deciding" /\ runner'[c].seen = status[c] /\ runner'[c].outcome = o
        /\ runner'[c].handler = runner[c].handler /\ runner'[c].proc = runner[c].proc
        /\ \A d \in Checks : d # c => runner'[d] = runner[d]
    BY <1>0, <2>1 DEF RunState
  <2>3. runner[c].pc \in {"finishing", "failing"} /\ UNCHANGED <<tables, req, boot>>
    BY <1>10 DEF ReadBeforeTerminal
  <2> QED BY <1>1, <2>2, <2>3 DEF SilentMove, Goes, RunDone, o
<1>11. CASE RunnerFault(c)
  <2>1. /\ UNCHANGED <<tables, req, boot>> /\ runner[c].pc \notin RunDone \cup {"none"}
        /\ \/ /\ runner' = [runner EXCEPT ![c].pc = "failing", ![c].handler = "outer"]
              /\ runner[c].pc \in {"scheduled", "closing"}
           \/ /\ runner' = [runner EXCEPT ![c].pc = "failing"]
              /\ runner[c].pc \in {"graph", "checkpoint"}
           \/ runner' = [runner EXCEPT ![c].pc = "dead"]
    BY <1>11 DEF RunnerFault, OpenFails, GraphFails, CloseFails, RunnerDbError, RunDone
  <2>2. CASE /\ runner' = [runner EXCEPT ![c].pc = "failing", ![c].handler = "outer"]
             /\ runner[c].pc \in {"scheduled", "closing"}
    <3>1. /\ runner'[c].pc = "failing" /\ runner'[c].handler = "outer"
          /\ runner'[c].proc = runner[c].proc
          /\ \A d \in Checks : d # c => runner'[d] = runner[d]
      BY <1>0, <2>2 DEF RunState
    <3> QED BY <1>1, <2>1, <2>2, <3>1 DEF SilentMove, Goes
  <2>3. CASE /\ runner' = [runner EXCEPT ![c].pc = "failing"]
             /\ runner[c].pc \in {"graph", "checkpoint"}
    <3>1. RunStep(c, runner[c].pc, "failing") BY <2>3 DEF RunStep
    <3> QED BY <1>1, <1>2, <2>1, <2>3, <3>1 DEF SilentMove, Goes
  <2>4. CASE runner' = [runner EXCEPT ![c].pc = "dead"]
    <3>1. RunStep(c, runner[c].pc, "dead") BY <2>4 DEF RunStep
    <3> QED BY <1>1, <1>2, <2>1, <3>1 DEF SilentMove, Goes
  <2> QED BY <2>1, <2>2, <2>3, <2>4
<1>12. CASE CommitStarted(c)
  <2>1. /\ Goes(c, "starting", "graph") /\ MemoryStays(c) /\ runner'[c].proc = runner[c].proc
        /\ \A d \in Checks : d # c => runner'[d] = runner[d]
    BY <1>2, <1>12 DEF CommitStarted
  <2>2. /\ status'[c] = "running" /\ Logs(c, "started")
        /\ \A d \in Checks : d # c => status'[d] = status[d] /\ events'[d] = events[d]
        /\ UNCHANGED <<subject, session, msgs, req, boot>>
    BY <1>0, <1>12 DEF CommitStarted, AppendEvent, Logs
  <2> QED BY <1>4, <2>1, <2>2 DEF TaskFrame, CheckStays, CommitMove, RunDone
<1>13. CASE NodeCompletes(c)
  <2>1. /\ Goes(c, "graph", IF msgs[c] + 1 = NodeCount THEN "checkpoint" ELSE "graph")
        /\ MemoryStays(c) /\ runner'[c].proc = runner[c].proc
        /\ \A d \in Checks : d # c => runner'[d] = runner[d]
    BY <1>2, <1>13 DEF NodeCompletes
  <2>2. /\ msgs'[c] = msgs[c] + 1 /\ \A d \in Checks : d # c => msgs'[d] = msgs[d]
        /\ UNCHANGED <<status, subject, session, events, req, boot>>
    BY <1>0, <1>13 DEF NodeCompletes
  <2> QED BY <1>4, <2>1, <2>2 DEF TaskFrame, CheckStays, CommitMove, RunDone
<1>14. CASE CommitCheckpoint(c)
  <2>1. /\ Goes(c, "checkpointing", "finishing") /\ MemoryStays(c)
        /\ runner'[c].proc = runner[c].proc
        /\ \A d \in Checks : d # c => runner'[d] = runner[d]
    BY <1>2, <1>14 DEF CommitCheckpoint
  <2>2. /\ Logs(c, "checkpoint") /\ \A d \in Checks : d # c => events'[d] = events[d]
        /\ UNCHANGED <<status, subject, session, msgs, req, boot>>
    BY <1>0, <1>14 DEF CommitCheckpoint, AppendEvent, Logs
  <2> QED BY <1>4, <2>1, <2>2 DEF TaskFrame, CheckStays, CommitMove, RunDone
<1>15. CASE CommitTerminal(c)
  <2>1. /\ Goes(c, "finalizing", IF runner[c].handler = "outer" THEN "done" ELSE "closing")
        /\ MemoryStays(c) /\ runner'[c].proc = runner[c].proc
        /\ \A d \in Checks : d # c => runner'[d] = runner[d]
    BY <1>2, <1>15 DEF CommitTerminal, CommitTerminalIf
  <2>2. /\ status'[c] = IF runner[c].seen \in ActiveStatuses THEN runner[c].outcome ELSE status[c]
        /\ session'[c] = SessionStatus(runner[c].outcome)
        /\ Logs(c, TerminalEvent(runner[c].outcome))
        /\ \A d \in Checks : d # c => /\ status'[d] = status[d] /\ events'[d] = events[d]
                                      /\ session'[d] = session[d]
        /\ UNCHANGED <<subject, msgs, req, boot>>
    BY <1>0, <1>15 DEF CommitTerminal, CommitTerminalIf, AppendEvent, Logs
  <2> QED BY <1>4, <2>1, <2>2 DEF TaskFrame, CheckStays, CommitMove, RunDone
<1> QED BY <1>5, <1>6, <1>7, <1>8, <1>9, <1>10, <1>11, <1>12, <1>13, <1>14, <1>15
        DEF RunnerStep

-----------------------------------------------------------------------------
(* What a step of a request does *)

\* Processes and the other requests stay.
RequestFrame(r) ==
    /\ UNCHANGED <<proc, todo, bootSeq>>
    /\ \A q \in Requests : q # r => req'[q] = req[q]
    /\ req'[r].proc = req[r].proc /\ req'[r].subj = req[r].subj

\* Nothing is committed; only a process that serves takes a request up.
LookMove(r) ==
    /\ UNCHANGED <<tables, runner>>
    /\ req[r].pc \notin ReqDone \cup {"committed"}
    /\ req'[r].pc # "committed"
    /\ req[r].pc = "idle" => proc[req[r].proc] = "up"

\* The row of check c is committed with the row of its session.
CreateMove(r, c) ==
    /\ req[r].pc = "inserted" /\ req'[r].pc = "committed" /\ req'[r].check = c
    /\ status'[c] = "pending" /\ session'[c] = "active" /\ msgs'[c] = msgs[c]
    /\ subject'[c] = req[r].subj
    /\ events'[c] = <<[seq |-> 1, type |-> "created"]>>
    /\ runner'[c] = [runner[c] EXCEPT !.proc = req[r].proc]
    /\ \A d \in Checks : d # c =>
          CheckStays(d) /\ runner'[d] = runner[d] /\ subject'[d] = subject[d]

\* The task of check c is scheduled.
ScheduleMove(r, c) ==
    /\ UNCHANGED tables
    /\ req[r].pc = "committed" /\ req'[r].pc = "created" /\ req[r].check = c
    /\ runner'[c] = [runner[c] EXCEPT !.pc = "scheduled"]
    /\ \A d \in Checks : d # c => runner'[d] = runner[d]

\* Every step of start_check is one of these moves within the frame.
LEMMA RequestMoves ==
  ASSUME SafetyInv, NEW r \in Requests, RequestStep(r) \/ RequestDbError(r)
  PROVE  /\ RequestFrame(r)
         /\ \/ LookMove(r)
            \/ \E c \in Checks : status[c] = "absent" /\ CreateMove(r, c)
            \/ \E c \in Checks : status[c] # "absent" /\ ScheduleMove(r, c)
<1>0. /\ req \in [Requests -> ReqState] /\ runner \in [Checks -> RunState]
      /\ status \in [Checks -> Statuses] /\ session \in [Checks -> SessionStatuses]
      /\ events \in [Checks -> Seq(Event)] /\ subject \in [Checks -> Subjects \cup {None}]
      /\ InsertInv /\ RowInv
  BY DEF SafetyInv, TypeOK
<1>1. ASSUME NEW from, NEW to, NEW c, ReqStep(r, from, to, c)
      PROVE  /\ req[r].pc = from /\ req'[r].pc = to /\ req'[r].check = c
             /\ \A q \in Requests : q # r => req'[q] = req[q]
             /\ req'[r].proc = req[r].proc /\ req'[r].subj = req[r].subj
  BY <1>0, <1>1 DEF ReqStep, ReqState
<1>2. ASSUME NEW from, NEW to, NEW c, ReqStep(r, from, to, c), UNCHANGED <<tables, runner, boot>>,
             from \notin ReqDone \cup {"committed"}, to # "committed",
             from = "idle" => proc[req[r].proc] = "up"
      PROVE  RequestFrame(r) /\ LookMove(r)
  BY <1>1, <1>2 DEF RequestFrame, LookMove, boot
<1>3. ASSUME NEW from, NEW to, JoinOrGoOn(r, from, to)
      PROVE  \E c : ReqStep(r, from, "joined", c) \/ ReqStep(r, from, to, c)
  BY <1>3 DEF JoinOrGoOn
<1>4. CASE Lookup(r) BY <1>2, <1>3, <1>4 DEF Lookup, ReqDone
<1>5. CASE Recheck(r) BY <1>2, <1>3, <1>5 DEF Recheck, ReqDone
<1>6. CASE ResolveConflict(r) BY <1>2, <1>3, <1>6 DEF ResolveConflict, ReqDone
<1>7. CASE InsertCheck(r) BY <1>2, <1>7 DEF InsertCheck, ReqDone
<1>8. CASE InsertConflict(r) BY <1>2, <1>8 DEF InsertConflict, ReqDone
<1>9. CASE RequestDbError(r)
  <2>1. ReqStep(r, req[r].pc, "error", None) BY <1>9 DEF RequestDbError, ReqStep
  <2>2. req[r].pc \notin ReqDone \cup {"committed", "idle"}
    BY <1>9 DEF RequestDbError, ReqDone
  <2> QED BY <1>2, <1>9, <2>1, <2>2 DEF RequestDbError
<1>10. CASE CommitCheck(r)
  <2> DEFINE c == req[r].check
  <2>1. ReqStep(r, "inserted", "committed", c) BY <1>10 DEF CommitCheck
  <2>2. c \in Checks /\ status[c] = "absent" BY <1>0, <1>1, <2>1 DEF InsertInv
  <2>3. RequestFrame(r) BY <1>1, <1>10, <2>1 DEF CommitCheck, RequestFrame, boot
  <2>4. /\ status'  = [status  EXCEPT ![c] = "pending"]
        /\ subject' = [subject EXCEPT ![c] = req[r].subj]
        /\ session' = [session EXCEPT ![c] = "active"]
        /\ events'  = [events  EXCEPT ![c] = <<[seq |-> 1, type |-> "created"]>>]
        /\ runner'  = [runner  EXCEPT ![c].proc = req[r].proc]
        /\ msgs' = msgs
    BY <1>10 DEF CommitCheck
  <2>5. runner'[c] = [runner[c] EXCEPT !.proc = req[r].proc]
    BY <1>0, <2>2, <2>4
  <2>6. /\ status'[c] = "pending" /\ session'[c] = "active" /\ subject'[c] = req[r].subj
        /\ events'[c] = <<[seq |-> 1, type |-> "created"]>>
        /\ \A d \in Checks : d # c =>
              CheckStays(d) /\ runner'[d] = runner[d] /\ subject'[d] = subject[d]
    BY <1>0, <2>2, <2>4 DEF CheckStays
  <2> HIDE DEF c
  <2>7. CreateMove(r, c) BY <1>1, <2>1, <2>4, <2>5, <2>6 DEF CreateMove
  <2> QED BY <2>2, <2>3, <2>7
<1>11. CASE Schedule(r)
  <2> DEFINE c == req[r].check
  <2>1. ReqStep(r, "committed", "created", c) BY <1>11 DEF Schedule
  <2>2. c \in Checks /\ status[c] # "absent" BY <1>0, <1>1, <2>1 DEF RowInv
  <2>3. RequestFrame(r) BY <1>1, <1>11, <2>1 DEF Schedule, RequestFrame, boot
  <2>4. runner' = [runner EXCEPT ![c].pc = "scheduled"] /\ UNCHANGED tables
    BY <1>11 DEF Schedule
  <2>5. /\ runner'[c] = [runner[c] EXCEPT !.pc = "scheduled"]
        /\ \A d \in Checks : d # c => runner'[d] = runner[d]
    BY <1>0, <2>2, <2>4
  <2>6. ScheduleMove(r, c) BY <1>1, <2>1, <2>4, <2>5 DEF ScheduleMove
  <2> QED BY <2>2, <2>3, <2>6
<1> QED BY <1>4, <1>5, <1>6, <1>7, <1>8, <1>9, <1>10, <1>11 DEF RequestStep

-----------------------------------------------------------------------------
(* What a step of a process does *)

\* The other processes stay, and so do the tables that the startup hook leaves
\* alone.
ProcFrame(p) ==
    /\ UNCHANGED <<subject, session, msgs>>
    /\ \A q \in Procs : q # p => proc'[q] = proc[q] /\ todo'[q] = todo[q]

\* The startup hook selects the active checks; it locks one; it gives up.
SelectMove(p) ==
    /\ UNCHANGED <<status, events, req, runner>>
    /\ proc[p] = "down" /\ proc'[p] = "starting" /\ todo'[p] = {c \in Checks : Active(c)}

LockMove(p) == UNCHANGED <<status, events, req, runner, proc, todo>>

AbortMove(p) ==
    /\ UNCHANGED <<status, events, req, runner>>
    /\ proc[p] = "starting" /\ proc'[p] = "down" /\ todo'[p] = {}

\* It interrupts what it has selected.
InterruptMove(p) ==
    /\ UNCHANGED <<req, runner>>
    /\ proc[p] = "starting" /\ proc'[p] = "up" /\ todo'[p] = {}
    /\ \A c \in Checks : IF c \in todo[p]
          THEN /\ status'[c] = "interrupted"
               /\ events'[c] = Append(events[c], [seq |-> bootSeq[p][c], type |-> "interrupted"])
          ELSE status'[c] = status[c] /\ events'[c] = events[c]

\* The process dies with its requests and its tasks.
CrashMove(p) ==
    /\ UNCHANGED <<status, events>>
    /\ proc'[p] = "down"
    /\ \A r \in Requests :
          IF req[r].proc = p /\ req[r].pc \notin ReqDone \cup {"idle"}
          THEN req'[r].pc = "error" /\ req'[r].proc = p ELSE req'[r] = req[r]
    /\ \A c \in Checks :
          IF runner[c].proc = p /\ runner[c].pc \notin RunDone
          THEN /\ runner'[c].pc = "killed" /\ runner'[c].proc = p /\ MemoryStays(c)
          ELSE runner'[c] = runner[c]

\* Every step of the lifespan hook, and the end of a process, is one of these.
LEMMA ProcMoves ==
  ASSUME TypeOK, NEW p \in Procs, BootStep(p) \/ Crash(p)
  PROVE  /\ ProcFrame(p)
         /\ \/ SelectMove(p) \/ LockMove(p) \/ AbortMove(p) \/ InterruptMove(p)
            \/ CrashMove(p)
<1> USE DEF tables
<1>0. /\ req \in [Requests -> ReqState] /\ runner \in [Checks -> RunState]
      /\ proc \in [Procs -> {"down", "starting", "up"}] /\ todo \in [Procs -> SUBSET Checks]
  BY DEF TypeOK
<1>1. CASE BootRead(p) BY <1>0, <1>1 DEF BootRead, ProcFrame, SelectMove
<1>2. ASSUME NEW c \in Checks, BootLock(p, c) PROVE ProcFrame(p) /\ LockMove(p)
  BY <1>2 DEF BootLock, ProcFrame, LockMove
<1>3. CASE BootDeadlock(p) BY <1>0, <1>3 DEF BootDeadlock, ProcFrame, AbortMove
<1>4. CASE BootCommit(p)
  BY <1>0, <1>4 DEF BootCommit, ProcFrame, InterruptMove
<1>5. CASE Crash(p)
  <2>1. /\ proc' = [proc EXCEPT ![p] = "down"] /\ todo' = [todo EXCEPT ![p] = {}]
        /\ UNCHANGED tables
    BY <1>5 DEF Crash
  <2>2. ASSUME NEW r \in Requests
        PROVE  IF req[r].proc = p /\ req[r].pc \notin ReqDone \cup {"idle"}
               THEN req'[r].pc = "error" /\ req'[r].proc = p ELSE req'[r] = req[r]
    <3>1. req'[r] = IF req[r].proc = p /\ req[r].pc \notin ReqDone \cup {"idle"}
                    THEN [req[r] EXCEPT !.pc = "error", !.check = None] ELSE req[r]
      BY <1>5 DEF Crash
    <3>2. req[r] \in ReqState BY <1>0
    <3> QED BY <3>1, <3>2 DEF ReqState
  <2>3. ASSUME NEW c \in Checks
        PROVE  IF runner[c].proc = p /\ runner[c].pc \notin RunDone
               THEN runner'[c].pc = "killed" /\ runner'[c].proc = p /\ MemoryStays(c)
               ELSE runner'[c] = runner[c]
    <3>1. runner'[c] = IF runner[c].proc = p /\ runner[c].pc \notin RunDone
                       THEN [runner[c] EXCEPT !.pc = "killed"] ELSE runner[c]
      BY <1>5 DEF Crash
    <3>2. runner[c] \in RunState BY <1>0
    <3> QED BY <3>1, <3>2 DEF RunState, MemoryStays
  <2> QED BY <1>0, <2>1, <2>2, <2>3 DEF ProcFrame, CrashMove
<1> QED BY <1>1, <1>2, <1>3, <1>4, <1>5 DEF BootStep

-----------------------------------------------------------------------------
(* An active check has an owner *)

\* The initial state satisfies the invariant of ownership.
LEMMA InitOwned == Init => OwnedInv
<1> SUFFICES ASSUME Init PROVE OwnedInv OBVIOUS
<1>1. SafetyInv BY InitSafety
<1>2. \A c \in Checks : status[c] = "absent" /\ runner[c] = NewRunner BY DEF Init
<1>3. \A r \in Requests : req[r].pc = "idle" BY DEF Init
<1>4. \A c \in Checks : ~Active(c) BY <1>2 DEF Active, ActiveStatuses
<1>5. ProcInv BY <1>2, <1>3, <1>4 DEF ProcInv, NewRunner, RunDone
<1>6. TaskInv BY <1>2, <1>4 DEF TaskInv, NewRunner
<1>7. ActiveIsOwned BY <1>4 DEF ActiveIsOwned
<1> QED BY <1>1, <1>5, <1>6, <1>7 DEF OwnedInv

\* Every step of a request keeps it: a committed check is handed to the task
\* that the same request schedules.
LEMMA RequestOwned ==
  ASSUME OwnedInv, NEW r \in Requests, RequestStep(r) \/ RequestDbError(r)
  PROVE  ProcInv' /\ TaskInv' /\ ActiveIsOwned'
<1>0. SafetyInv /\ TypeOK /\ RowInv /\ ProcInv /\ TaskInv /\ ActiveIsOwned /\ RequestFrame(r)
  BY RequestMoves DEF OwnedInv, SafetyInv
<1>1. /\ runner \in [Checks -> RunState] /\ req[r].proc \in Procs
      /\ \A q \in Requests : q # r => req'[q] = req[q]
      /\ req'[r].proc = req[r].proc /\ UNCHANGED <<proc, todo>>
  BY <1>0 DEF TypeOK, ReqState, RequestFrame
<1>2. CASE LookMove(r)
  <2>1. UNCHANGED <<status, runner>> BY <1>2 DEF LookMove, tables
  <2>2. \A q \in Requests : req'[q].pc = "committed" => q # r BY <1>2 DEF LookMove
  <2>3. req[r].pc \notin ReqDone \cup {"idle"} \/ proc[req[r].proc] = "up"
    BY <1>2 DEF LookMove
  <2>4. ProcInv'
    <3>1. \A q \in Requests : req'[q].pc \notin ReqDone \cup {"idle"} =>
            proc'[req'[q].proc] = "up"
      BY <1>0, <1>1, <2>3 DEF ProcInv
    <3>2. \A c \in Checks : Active(c)' <=> Active(c) BY <2>1 DEF Active
    <3> QED BY <1>0, <1>1, <2>1, <2>2, <3>1, <3>2 DEF ProcInv
  <2>5. TaskInv' BY <1>0, <2>1 DEF TaskInv, Active
  <2>6. req[r].pc # "committed" BY <1>2 DEF LookMove
  <2>7. ActiveIsOwned' BY <1>0, <1>1, <2>1, <2>6 DEF ActiveIsOwned, Active
  <2> QED BY <2>4, <2>5, <2>7
<1>3. ASSUME NEW c \in Checks, status[c] = "absent", CreateMove(r, c)
      PROVE  ProcInv' /\ TaskInv' /\ ActiveIsOwned'
  <2>1. /\ req[r].pc = "inserted" /\ req'[r].pc = "committed" /\ req'[r].check = c
        /\ status'[c] = "pending"
        /\ \A d \in Checks : d # c => status'[d] = status[d] /\ runner'[d] = runner[d]
    BY <1>3 DEF CreateMove, CheckStays
  <2>2. runner[c] = NewRunner BY <1>0, <1>3 DEF TaskInv
  <2>3. runner'[c].pc = "none" /\ runner'[c].proc = req[r].proc
    BY <1>3, <2>2 DEF CreateMove, NewRunner
  <2>4. proc[req[r].proc] = "up" BY <1>0, <2>1 DEF ProcInv, ReqDone
  <2>5. \A q \in Requests : req'[q].pc = "committed" /\ q # r => req'[q].check \in Checks \ {c}
    BY <1>0, <1>1, <1>3 DEF RowInv
  <2>6. \A d \in Checks : d # c => (Active(d)' <=> Active(d)) BY <2>1 DEF Active
  <2>7. ProcInv'
    <3>1. \A q \in Requests : req'[q].pc \notin ReqDone \cup {"idle"} =>
            proc'[req'[q].proc] = "up"
      BY <1>0, <1>1, <2>4 DEF ProcInv
    <3>2. \A q \in Requests : req'[q].pc = "committed" =>
            /\ runner'[req'[q].check].proc = req'[q].proc
            /\ runner'[req'[q].check].pc = "none"
            /\ \A q2 \in Requests : req'[q2].pc = "committed" /\ q2 # q =>
                  req'[q2].check # req'[q].check
      BY <1>0, <1>1, <2>1, <2>3, <2>5 DEF ProcInv
    <3>3. \A d \in Checks : runner'[d].pc \notin RunDone \cup {"none"} =>
            runner'[d].proc \in Procs /\ proc'[runner'[d].proc] = "up"
      BY <1>0, <1>1, <2>1, <2>3 DEF ProcInv
    <3>4. \A d \in Checks : Active(d)' =>
            /\ runner'[d].proc \in Procs
            /\ proc'[runner'[d].proc] = "starting" => d \in todo'[runner'[d].proc]
      BY <1>0, <1>1, <2>1, <2>3, <2>4, <2>6 DEF ProcInv
    <3> QED BY <3>1, <3>2, <3>3, <3>4 DEF ProcInv
  <2>8. TaskInv' BY <1>0, <2>1, <2>3, <2>6 DEF TaskInv
  <2>9. ActiveIsOwned' BY <1>0, <1>1, <2>1, <2>6 DEF ActiveIsOwned
  <2> QED BY <2>7, <2>8, <2>9
<1>4. ASSUME NEW c \in Checks, status[c] # "absent", ScheduleMove(r, c)
      PROVE  ProcInv' /\ TaskInv' /\ ActiveIsOwned'
  <2>1. /\ req[r].pc = "committed" /\ req'[r].pc = "created" /\ req[r].check = c
        /\ UNCHANGED status
        /\ \A d \in Checks : d # c => runner'[d] = runner[d]
    BY <1>4 DEF ScheduleMove, tables
  <2>2. runner'[c].pc = "scheduled" /\ runner'[c].proc = runner[c].proc
    BY <1>1, <1>4 DEF ScheduleMove, RunState
  <2>3. /\ runner[c].proc = req[r].proc /\ runner[c].pc = "none" /\ proc[req[r].proc] = "up"
        /\ \A q \in Requests : req'[q].pc = "committed" => req'[q].check # c
    BY <1>0, <1>1, <2>1 DEF ProcInv, ReqDone
  <2>4. \A d \in Checks : Active(d)' <=> Active(d) BY <2>1 DEF Active
  <2>5. ProcInv'
    <3>1. \A q \in Requests : req'[q].pc \notin ReqDone \cup {"idle"} =>
            proc'[req'[q].proc] = "up"
      BY <1>0, <1>1, <2>1 DEF ProcInv, ReqDone
    <3>2. \A q \in Requests : req'[q].pc = "committed" => q # r BY <2>1
    <3>3. \A q \in Requests : req'[q].pc = "committed" => req'[q].check \in Checks \ {c}
      BY <1>0, <1>1, <2>3, <3>2 DEF RowInv
    <3>4. \A q \in Requests : req'[q].pc = "committed" =>
            /\ runner'[req'[q].check].proc = req'[q].proc
            /\ runner'[req'[q].check].pc = "none"
            /\ \A q2 \in Requests : req'[q2].pc = "committed" /\ q2 # q =>
                  req'[q2].check # req'[q].check
      BY <1>0, <1>1, <2>1, <3>2, <3>3 DEF ProcInv
    <3>5. \A d \in Checks : runner'[d].pc \notin RunDone \cup {"none"} =>
            runner'[d].proc \in Procs /\ proc'[runner'[d].proc] = "up"
      BY <1>0, <1>1, <2>1, <2>2, <2>3 DEF ProcInv
    <3>6. \A d \in Checks : Active(d)' =>
            /\ runner'[d].proc \in Procs
            /\ proc'[runner'[d].proc] = "starting" => d \in todo'[runner'[d].proc]
      BY <1>0, <1>1, <2>1, <2>2, <2>4 DEF ProcInv
    <3> QED BY <3>1, <3>4, <3>5, <3>6 DEF ProcInv
  <2>6. TaskInv' BY <1>0, <1>4, <2>1, <2>2, <2>3, <2>4 DEF TaskInv
  <2>7. ActiveIsOwned'
    BY <1>0, <1>1, <2>1, <2>2, <2>4 DEF ActiveIsOwned, RunDone
  <2> QED BY <2>5, <2>6, <2>7
<1> QED BY <1>0, <1>2, <1>3, <1>4, RequestMoves

\* Every step of a task keeps it: the task lets go of its check only when the
\* check has ended, or dies.
LEMMA RunnerOwned ==
  ASSUME OwnedInv, NEW c \in Checks, RunnerStep(c) \/ RunnerFault(c)
  PROVE  ProcInv' /\ TaskInv' /\ ActiveIsOwned'
<1>0. /\ SafetyInv /\ TypeOK /\ RowInv /\ StartInv /\ ProcInv /\ TaskInv /\ ActiveIsOwned
      /\ TaskFrame(c) /\ (SilentMove(c) \/ CommitMove(c))
  BY TaskMoves DEF OwnedInv, SafetyInv
<1>1. /\ UNCHANGED <<req, proc, todo>>
      /\ \A d \in Checks : d # c => status'[d] = status[d] /\ runner'[d] = runner[d]
      /\ runner'[c].proc = runner[c].proc
      /\ runner[c].pc \notin RunDone \cup {"none"}
  BY <1>0 DEF TaskFrame, CheckStays
<1>2. runner'[c].pc # "none" /\ status[c] # "absent"
  BY <1>0, <1>1 DEF SilentMove, CommitMove, Goes, RowInv, RunDone
<1>3. Active(c)' => Active(c)
  <2>1. CASE SilentMove(c) BY <2>1 DEF SilentMove, CheckStays, Active
  <2>2. CASE CommitMove(c)
    <3>1. runner[c].outcome \in Outcomes BY <1>0 DEF TypeOK, RunState
    <3> QED BY <1>0, <2>2, <3>1 DEF CommitMove, Goes, StartInv, Active, ActiveStatuses, Outcomes
  <2> QED BY <1>0, <2>1, <2>2
<1>4. \A d \in Checks : d # c => (Active(d)' <=> Active(d)) BY <1>1 DEF Active
<1>5. \A r \in Requests : req[r].pc = "committed" => req[r].check \in Checks \ {c}
  BY <1>0, <1>1 DEF RowInv, ProcInv
<1>6. ProcInv'
  <2>1. \A r \in Requests : req'[r].pc = "committed" =>
          /\ runner'[req'[r].check].proc = req'[r].proc
          /\ runner'[req'[r].check].pc = "none"
          /\ \A q \in Requests : req'[q].pc = "committed" /\ q # r =>
                req'[q].check # req'[r].check
    BY <1>0, <1>1, <1>5 DEF ProcInv
  <2>2. \A d \in Checks : runner'[d].pc \notin RunDone \cup {"none"} =>
          runner'[d].proc \in Procs /\ proc'[runner'[d].proc] = "up"
    BY <1>0, <1>1 DEF ProcInv
  <2>3. \A d \in Checks : Active(d)' =>
          /\ runner'[d].proc \in Procs
          /\ proc'[runner'[d].proc] = "starting" => d \in todo'[runner'[d].proc]
    BY <1>0, <1>1, <1>3, <1>4 DEF ProcInv
  <2> QED BY <1>0, <1>1, <2>1, <2>2, <2>3 DEF ProcInv
<1>7. \A d \in Checks : d # c =>
        /\ runner'[d].pc \in {"none", "scheduled", "opened"} => status'[d] # "running"
        /\ runner'[d].pc \in {"deciding", "finalizing"} /\ runner'[d].seen \notin ActiveStatuses
             => ~Active(d)'
        /\ runner'[d].pc \in {"closing", "done"} => ~Active(d)'
        /\ status'[d] = "absent" => runner'[d] = NewRunner
  BY <1>0, <1>1, <1>4 DEF TaskInv
<1>8. /\ runner'[c].pc \in {"none", "scheduled", "opened"} => status'[c] # "running"
      /\ runner'[c].pc \in {"deciding", "finalizing"} /\ runner'[c].seen \notin ActiveStatuses
           => ~Active(c)'
      /\ runner'[c].pc \in {"closing", "done"} => ~Active(c)'
      /\ status'[c] # "absent"
  <2>1. CASE SilentMove(c)
    BY <1>0, <1>1, <1>2, <2>1
       DEF SilentMove, Goes, MemoryStays, CheckStays, TaskInv, Active, ActiveStatuses, RunDone
  <2>2. CASE CommitMove(c)
    <3>1. runner[c].outcome \in Outcomes BY <1>0 DEF TypeOK, RunState
    <3> QED BY <1>0, <1>2, <2>2, <3>1
            DEF CommitMove, Goes, MemoryStays, TaskInv, Active, ActiveStatuses, Outcomes
  <2> QED BY <1>0, <2>1, <2>2
<1>9. TaskInv' BY <1>7, <1>8 DEF TaskInv
<1>10. Active(c)' => runner'[c].pc \notin (RunDone \ {"dead"}) \cup {"none"}
  BY <1>0, <1>1, <1>2, <1>8 DEF SilentMove, CommitMove, Goes, RunDone
<1>11. ActiveIsOwned' BY <1>0, <1>1, <1>4, <1>10 DEF ActiveIsOwned
<1> QED BY <1>6, <1>9, <1>11

\* Every step of a process keeps it: a process that starts interrupts what its
\* predecessor has left before it serves.
LEMMA ProcOwned ==
  ASSUME OwnedInv, NEW p \in Procs, BootStep(p) \/ Crash(p)
  PROVE  ProcInv' /\ TaskInv' /\ ActiveIsOwned'
<1>0. /\ SafetyInv /\ TypeOK /\ RowInv /\ ProcInv /\ TaskInv /\ ActiveIsOwned /\ ProcFrame(p)
  BY ProcMoves DEF OwnedInv, SafetyInv
<1>1. /\ \A q \in Procs : q # p => proc'[q] = proc[q] /\ todo'[q] = todo[q]
      /\ todo[p] \subseteq Checks /\ req \in [Requests -> ReqState]
      /\ runner \in [Checks -> RunState]
  BY <1>0 DEF ProcFrame, TypeOK
<1>2. ASSUME UNCHANGED <<status, req, runner>>, proc'[p] # "up", proc[p] # "up",
             proc'[p] = "starting" => todo'[p] = {c \in Checks : Active(c)}
      PROVE  ProcInv' /\ TaskInv' /\ ActiveIsOwned'
  <2>1. \A c \in Checks : Active(c)' <=> Active(c) BY <1>2 DEF Active
  <2>2. \A r \in Requests : req[r].proc \in Procs BY <1>1 DEF ReqState
  <2>3. ProcInv' BY <1>0, <1>1, <1>2, <2>1, <2>2 DEF ProcInv
  <2>4. TaskInv' BY <1>0, <1>2, <2>1 DEF TaskInv
  <2>5. ActiveIsOwned' BY <1>0, <1>1, <1>2, <2>1 DEF ActiveIsOwned, ProcInv
  <2> QED BY <2>3, <2>4, <2>5
<1>3. CASE SelectMove(p) BY <1>2, <1>3 DEF SelectMove
<1>4. CASE AbortMove(p) BY <1>2, <1>4 DEF AbortMove
<1>5. CASE LockMove(p)
  BY <1>0, <1>5 DEF LockMove, ProcInv, TaskInv, ActiveIsOwned, Active
<1>6. CASE InterruptMove(p)
  <2>1. /\ UNCHANGED <<req, runner>> /\ proc[p] = "starting" /\ proc'[p] = "up"
        /\ \A c \in todo[p] : status'[c] = "interrupted"
        /\ \A c \in Checks : c \notin todo[p] => status'[c] = status[c]
    BY <1>1, <1>6 DEF InterruptMove
  <2>2. \A c \in Checks : Active(c)' => Active(c) /\ c \notin todo[p]
    BY <2>1 DEF Active, ActiveStatuses
  <2>3. \A c \in Checks : Active(c)' => runner[c].proc \in Procs \ {p}
    BY <1>0, <2>1, <2>2 DEF ProcInv
  <2>4. \A r \in Requests : req[r].proc \in Procs BY <1>1 DEF ReqState
  <2>5. ProcInv' BY <1>0, <1>1, <2>1, <2>2, <2>3, <2>4 DEF ProcInv
  <2>6. TaskInv'
    <3>1. \A c \in Checks : status'[c] \in {"running", "absent"} => status'[c] = status[c]
      BY <2>1
    <3> QED BY <1>0, <2>1, <2>2, <3>1 DEF TaskInv
  <2>7. ActiveIsOwned' BY <1>0, <1>1, <2>1, <2>2, <2>3 DEF ActiveIsOwned
  <2> QED BY <2>5, <2>6, <2>7
<1>7. CASE CrashMove(p)
  <2>1. /\ UNCHANGED status /\ proc'[p] = "down"
        /\ \A r \in Requests :
              \/ req'[r] = req[r]
              \/ req'[r].pc = "error" /\ req[r].proc = p /\ req'[r].proc = p
        /\ \A r \in Requests : req'[r].pc \notin ReqDone \cup {"idle"} =>
              req'[r] = req[r] /\ req[r].proc # p
    BY <1>7 DEF CrashMove, ReqDone
  <2>2. /\ \A c \in Checks : runner'[c].proc = runner[c].proc
        /\ \A c \in Checks : \/ runner'[c] = runner[c]
                             \/ runner'[c].pc = "killed" /\ runner[c].proc = p
        /\ \A c \in Checks : runner[c].proc = p => runner'[c].pc \in RunDone
    BY <1>7 DEF CrashMove, RunDone
  <2>3. \A c \in Checks : Active(c)' <=> Active(c) BY <2>1 DEF Active
  <2>4. \A r \in Requests : req'[r].pc = "committed" => req'[r] = req[r] /\ req[r].proc # p
    BY <2>1 DEF ReqDone
  <2>5. ProcInv'
    <3>1. \A r \in Requests : req'[r].pc \notin ReqDone \cup {"idle"} =>
            proc'[req'[r].proc] = "up"
      BY <1>0, <1>1, <2>1 DEF ProcInv, ReqState
    <3>2. \A r \in Requests : req'[r].pc = "committed" =>
            /\ runner'[req'[r].check].proc = req'[r].proc
            /\ runner'[req'[r].check].pc = "none"
            /\ \A q \in Requests : req'[q].pc = "committed" /\ q # r =>
                  req'[q].check # req'[r].check
      BY <1>0, <2>2, <2>4 DEF ProcInv, RowInv
    <3>3. \A c \in Checks : runner'[c].pc \notin RunDone \cup {"none"} =>
            runner'[c].proc \in Procs /\ proc'[runner'[c].proc] = "up"
      BY <1>0, <1>1, <2>2 DEF ProcInv, RunDone
    <3>4. \A c \in Checks : Active(c)' =>
            /\ runner'[c].proc \in Procs
            /\ proc'[runner'[c].proc] = "starting" => c \in todo'[runner'[c].proc]
      BY <1>0, <1>1, <2>1, <2>2, <2>3 DEF ProcInv
    <3> QED BY <3>1, <3>2, <3>3, <3>4 DEF ProcInv
  <2>6. TaskInv'
    <3>1. \A c \in Checks : status[c] = "absent" => runner'[c] = runner[c]
      BY <1>0, <2>2, NoneAssumption DEF TaskInv, NewRunner
    <3> QED BY <1>0, <2>1, <2>2, <2>3, <3>1 DEF TaskInv
  <2>7. ActiveIsOwned'
    <3> SUFFICES ASSUME NEW c \in Checks, Active(c)
                 PROVE  \/ runner'[c].pc \notin RunDone \cup {"none"}
                        \/ \E r \in Requests : req'[r].pc = "committed" /\ req'[r].check = c
                        \/ runner'[c].pc = "dead"
                        \/ proc'[runner'[c].proc] # "up"
      BY <2>3 DEF ActiveIsOwned
    <3>1. CASE runner[c].proc = p BY <2>1, <2>2, <3>1
    <3>2. CASE runner[c].proc # p
      <4>1. runner'[c] = runner[c] /\ proc'[runner[c].proc] = proc[runner[c].proc]
        BY <1>0, <1>1, <2>2, <3>2 DEF ProcInv
      <4>2. ASSUME NEW r \in Requests, req[r].pc = "committed", req[r].check = c
            PROVE  req'[r] = req[r]
        <5>1. req[r].proc # p BY <1>0, <3>2, <4>2 DEF ProcInv
        <5> QED BY <2>1, <5>1
      <4> QED BY <1>0, <4>1, <4>2 DEF ActiveIsOwned
    <3> QED BY <3>1, <3>2
  <2> QED BY <2>5, <2>6, <2>7
<1> QED BY <1>3, <1>4, <1>5, <1>6, <1>7, ProcMoves, <1>0

\* Every step keeps the invariant of ownership.
LEMMA NextOwned == OwnedInv /\ [Next]_vars => OwnedInv'
<1> SUFFICES ASSUME OwnedInv, [Next]_vars PROVE OwnedInv'
  OBVIOUS
<1>1. SafetyInv' BY NextSafety DEF OwnedInv
<1>2. CASE Next
  <2>1. ProcInv' /\ TaskInv' /\ ActiveIsOwned'
    BY <1>2, RequestOwned, RunnerOwned, ProcOwned DEF Next
  <2> QED BY <1>1, <2>1 DEF OwnedInv
<1>3. CASE UNCHANGED vars
  <2>1. UNCHANGED <<status, req, runner, proc, todo>> BY <1>3 DEF vars, tables, boot
  <2>2. ProcInv' BY <2>1 DEF OwnedInv, ProcInv, Active
  <2>3. TaskInv' BY <2>1 DEF OwnedInv, TaskInv, Active
  <2>4. ActiveIsOwned' BY <2>1 DEF OwnedInv, ActiveIsOwned, Active
  <2> QED BY <1>1, <2>2, <2>3, <2>4 DEF OwnedInv
<1> QED BY <1>2, <1>3

\* The invariant of ownership holds in every reachable state.
THEOREM Ownership == Spec => []OwnedInv
<1> QED BY InitOwned, NextOwned, PTL DEF Spec

\* No active check is forgotten while its process serves (the hand-over from
\* start_check to the background task, and the startup hook), however many
\* processes there are.
THEOREM Owned == Spec => []ActiveIsOwned
<1>1. OwnedInv => ActiveIsOwned BY DEF OwnedInv
<1> QED BY <1>1, Ownership, PTL

-----------------------------------------------------------------------------
(* A success is complete *)

\* An event of some type is still in the log after another has been appended.
LEMMA AppendKeeps ==
  ASSUME NEW log \in Seq(Event), NEW e \in Event
  PROVE  /\ Append(log, e) \in Seq(Event)
         /\ Len(Append(log, e)) = Len(log) + 1
         /\ Append(log, e)[Len(log) + 1] = e
         /\ \A i \in 1..Len(log) : Append(log, e)[i] = log[i]
OBVIOUS

\* The initial state satisfies the invariant of work.
LEMMA InitWork == Init => WorkInv
BY DEF Init, WorkInv, NewRunner

\* A step of a request keeps it: only a task that has not begun is scheduled.
LEMMA RequestWork ==
  ASSUME OwnedInv, WorkInv, NEW r \in Requests, RequestStep(r) \/ RequestDbError(r)
  PROVE  WorkInv'
<1>0. SafetyInv /\ TaskInv /\ ProcInv /\ runner \in [Checks -> RunState]
  BY DEF OwnedInv, SafetyInv, TypeOK
<1>1. CASE LookMove(r)
  BY <1>1 DEF LookMove, tables, WorkInv, Recorded
<1>2. ASSUME NEW c \in Checks, status[c] = "absent", CreateMove(r, c) PROVE WorkInv'
  <2>1. runner[c] = NewRunner BY <1>0, <1>2 DEF TaskInv
  <2>2. runner'[c].pc = "none" BY <1>2, <2>1 DEF CreateMove, NewRunner
  <2>3. msgs'[c] = 0 /\ status'[c] = "pending"
    BY <1>2, <2>1 DEF CreateMove, WorkInv, NewRunner
  <2>4. \A d \in Checks : d # c => CheckStays(d) /\ runner'[d] = runner[d]
    BY <1>2 DEF CreateMove
  <2> QED BY <2>2, <2>3, <2>4 DEF WorkInv, CheckStays, Recorded
<1>3. ASSUME NEW c \in Checks, ScheduleMove(r, c) PROVE WorkInv'
  <2>1. runner[c].pc = "none" BY <1>0, <1>3 DEF ScheduleMove, ProcInv
  <2>2. runner'[c].pc = "scheduled" BY <1>0, <1>3 DEF ScheduleMove, RunState
  <2>3. /\ UNCHANGED <<status, events, msgs>>
        /\ \A d \in Checks : d # c => runner'[d] = runner[d]
    BY <1>3 DEF ScheduleMove, tables
  <2> QED BY <2>1, <2>2, <2>3 DEF WorkInv, Recorded, RunDone
<1> QED BY <1>0, <1>1, <1>2, <1>3, RequestMoves

\* A step of a task keeps it.
LEMMA RunnerWork ==
  ASSUME OwnedInv, WorkInv, NEW c \in Checks, RunnerStep(c) \/ RunnerFault(c)
  PROVE  WorkInv'
<1>0. /\ TypeOK /\ TaskFrame(c) /\ (SilentMove(c) \/ CommitMove(c))
  BY TaskMoves DEF OwnedInv, SafetyInv
<1>1. /\ runner[c].outcome \in Outcomes /\ runner[c].seq \in Nat /\ events[c] \in Seq(Event)
      /\ msgs[c] \in Nat
  BY <1>0 DEF TypeOK, RunState
<1>2. \A d \in Checks : d # c => CheckStays(d) /\ runner'[d] = runner[d]
  BY <1>0 DEF TaskFrame
<1>3. ASSUME NEW t \in EventTypes, Logs(c, t)
      PROVE  (Recorded(c) \/ t = "checkpoint") => Recorded(c)'
  <2> DEFINE e == [seq |-> runner[c].seq, type |-> t]
  <2>1. e \in Event /\ e.type = t BY <1>1 DEF Event
  <2>2. events'[c] = Append(events[c], e) BY <1>3 DEF Logs
  <2> HIDE DEF e
  <2>3. /\ Len(events'[c]) = Len(events[c]) + 1 /\ Len(events[c]) \in Nat
        /\ events'[c][Len(events[c]) + 1] = e
        /\ \A i \in 1..Len(events[c]) : events'[c][i] = events[c][i]
    BY <1>1, <2>1, <2>2, AppendKeeps
  <2> QED BY <2>1, <2>3 DEF Recorded
<1>4. {"started", "checkpoint", "completed", "failed"} \subseteq EventTypes
  BY DEF EventTypes, TerminalEvents
<1> DEFINE W(d) ==
      LET pc == runner[d].pc
          whole == msgs[d] = NodeCount
      IN
      /\ pc \in {"none", "scheduled", "opened", "starting"} => msgs[d] = 0
      /\ pc = "graph" => msgs[d] < NodeCount
      /\ pc \in {"checkpoint", "checkpointing", "finishing"} => whole
      /\ pc = "finishing" => Recorded(d)
      /\ pc \in {"deciding", "finalizing"} /\ runner[d].outcome = "succeeded" =>
            whole /\ Recorded(d)
      /\ status[d] = "succeeded" =>
            /\ whole /\ Recorded(d)
            /\ pc \in {"failing", "deciding", "finalizing", "closing"} \cup RunDone
<1>5. W(c) BY DEF WorkInv
<1>6. CASE SilentMove(c)
  <2>1. CheckStays(c) /\ (Recorded(c)' <=> Recorded(c))
    BY <1>6 DEF SilentMove, CheckStays, Recorded
  <2>2. W(c)'
    BY <1>5, <1>6, <2>1 DEF SilentMove, Goes, MemoryStays, CheckStays, RunDone
  <2> QED BY <1>2, <2>2 DEF WorkInv, CheckStays, Recorded
<1>7. CASE CommitMove(c)
  <2>1. TerminalEvent(runner[c].outcome) \in EventTypes BY <1>4 DEF TerminalEvent
  <2>2. ASSUME Logs(c, TerminalEvent(runner[c].outcome)), Recorded(c) PROVE Recorded(c)'
    BY <1>3, <2>1, <2>2
  <2>3. W(c)'
    <3>1. CASE Goes(c, "starting", "graph") /\ status'[c] = "running" /\ msgs'[c] = msgs[c]
      BY <1>5, <3>1, NodeAssumption DEF Goes
    <3>2. CASE /\ Goes(c, "graph", IF msgs[c] + 1 = NodeCount THEN "checkpoint" ELSE "graph")
               /\ msgs'[c] = msgs[c] + 1 /\ status'[c] = status[c]
      BY <1>1, <1>5, <3>2, NodeAssumption DEF Goes, RunDone
    <3>3. CASE /\ Goes(c, "checkpointing", "finishing") /\ Logs(c, "checkpoint")
               /\ status'[c] = status[c] /\ msgs'[c] = msgs[c]
      BY <1>3, <1>4, <1>5, <3>3 DEF Goes, RunDone
    <3>4. CASE /\ Goes(c, "finalizing", IF runner[c].handler = "outer" THEN "done" ELSE "closing")
               /\ msgs'[c] = msgs[c] /\ status'[c] \in {runner[c].outcome, status[c]}
               /\ Logs(c, TerminalEvent(runner[c].outcome))
      BY <1>5, <2>2, <3>4 DEF Goes, RunDone
    <3> QED BY <1>7, <3>1, <3>2, <3>3, <3>4 DEF CommitMove
  <2> QED BY <1>2, <2>3 DEF WorkInv, CheckStays, Recorded
<1> QED BY <1>0, <1>6, <1>7

\* A step of a process keeps it: it ends tasks and interrupts checks.
LEMMA ProcWork ==
  ASSUME OwnedInv, WorkInv, NEW p \in Procs, BootStep(p) \/ Crash(p)
  PROVE  WorkInv'
<1>0. TypeOK /\ ProcFrame(p) BY ProcMoves DEF OwnedInv, SafetyInv
<1>1. UNCHANGED msgs BY <1>0 DEF ProcFrame
<1>2. CASE UNCHANGED <<status, events, runner>>
  BY <1>1, <1>2 DEF WorkInv, Recorded
<1>3. CASE InterruptMove(p)
  <2>1. ASSUME NEW c \in Checks, Recorded(c) PROVE Recorded(c)'
    <3> DEFINE e == [seq |-> bootSeq[p][c], type |-> "interrupted"]
    <3>1. e \in Event /\ events[c] \in Seq(Event)
      BY <1>0 DEF TypeOK, Event, EventTypes, TerminalEvents
    <3>2. events'[c] = Append(events[c], e) \/ events'[c] = events[c]
      BY <1>3 DEF InterruptMove
    <3> HIDE DEF e
    <3>3. \A i \in 1..Len(events[c]) : i \in 1..Len(events'[c]) /\ events'[c][i] = events[c][i]
      BY <3>1, <3>2, AppendKeeps
    <3> QED BY <2>1, <3>3 DEF Recorded
  <2>2. \A c \in Checks : status'[c] \in {status[c], "interrupted"} BY <1>3 DEF InterruptMove
  <2>3. UNCHANGED runner BY <1>3 DEF InterruptMove
  <2> QED BY <1>1, <2>1, <2>2, <2>3 DEF WorkInv
<1>4. CASE CrashMove(p)
  <2>1. /\ UNCHANGED <<status, events>>
        /\ \A c \in Checks : runner'[c] = runner[c] \/ runner'[c].pc = "killed"
    BY <1>4 DEF CrashMove
  <2> QED BY <1>1, <2>1 DEF WorkInv, Recorded, RunDone
<1> QED BY <1>0, <1>2, <1>3, <1>4, ProcMoves DEF SelectMove, LockMove, AbortMove

\* The work done for a check is known by how far its task has come.
THEOREM Work == Spec => []WorkInv
<1>1. OwnedInv /\ WorkInv /\ [Next]_vars => WorkInv'
  <2> SUFFICES ASSUME OwnedInv, WorkInv, [Next]_vars PROVE WorkInv'
    OBVIOUS
  <2>1. CASE Next BY <2>1, RequestWork, RunnerWork, ProcWork DEF Next
  <2>2. CASE UNCHANGED vars
    BY <2>2 DEF vars, tables, WorkInv, Recorded
  <2> QED BY <2>1, <2>2
<1> QED BY <1>1, InitWork, Ownership, PTL DEF Spec

\* A check is reported as succeeded only after every node of the graph has
\* stored its message and the checkpoint has been recorded, whatever fails and
\* however many processes there are (run_sop_quality_check).
THEOREM Complete == Spec => []SuccessIsComplete
<1>1. WorkInv => SuccessIsComplete BY DEF WorkInv, SuccessIsComplete, Recorded
<1> QED BY <1>1, Work, PTL

-----------------------------------------------------------------------------
(* One process: the status of a check by how far its task has come *)

\* The initial state satisfies the invariant.
LEMMA InitStatus == Init => StatusInv
BY NoneAssumption DEF Init, StatusInv, NewRunner, RunDone

\* A step of a request keeps it.
LEMMA RequestStatus ==
  ASSUME OneProcess, OwnedInv, StatusInv, NEW r \in Requests,
         RequestStep(r) \/ RequestDbError(r)
  PROVE  StatusInv'
<1>0. /\ SafetyInv /\ TaskInv /\ ProcInv /\ runner \in [Checks -> RunState]
      /\ req[r].proc \in Procs /\ RequestFrame(r)
  BY RequestMoves DEF OwnedInv, SafetyInv, TypeOK, ReqState
<1>1. UNCHANGED <<proc, todo>> BY <1>0 DEF RequestFrame
<1>2. CASE LookMove(r)
  <2>1. UNCHANGED <<status, runner>> BY <1>2 DEF LookMove, tables
  <2> QED BY <1>1, <2>1 DEF StatusInv, Active
<1>3. ASSUME req[r].pc \notin ReqDone \cup {"idle"}
      PROVE  \A p \in Procs : proc'[p] # "starting"
  BY <1>0, <1>1, <1>3 DEF ProcInv, OneProcess
<1>4. ASSUME NEW c \in Checks, status[c] = "absent", CreateMove(r, c) PROVE StatusInv'
  <2>1. runner[c] = NewRunner BY <1>0, <1>4 DEF TaskInv
  <2>2. runner'[c].pc = "none" /\ runner'[c].proc = req[r].proc /\ status'[c] = "pending"
    BY <1>4, <2>1 DEF CreateMove, NewRunner
  <2>3. /\ \A d \in Checks : d # c => status'[d] = status[d] /\ runner'[d] = runner[d]
        /\ req[r].pc = "inserted"
    BY <1>4 DEF CreateMove, CheckStays
  <2>4. proc[req[r].proc] = "up" BY <1>0, <2>3 DEF ProcInv, ReqDone
  <2> QED BY <1>0, <1>1, <1>3, <2>2, <2>3, <2>4 DEF StatusInv, Active, ReqDone
<1>5. ASSUME NEW c \in Checks, status[c] # "absent", ScheduleMove(r, c) PROVE StatusInv'
  <2>1. runner[c].pc = "none" BY <1>0, <1>5 DEF ScheduleMove, ProcInv
  <2>2. runner'[c].pc = "scheduled" /\ runner'[c].proc = runner[c].proc
    BY <1>0, <1>5 DEF ScheduleMove, RunState
  <2>3. /\ \A d \in Checks : d # c => runner'[d] = runner[d]
        /\ UNCHANGED status /\ req[r].pc = "committed"
    BY <1>5 DEF ScheduleMove, tables
  <2> QED BY <1>0, <1>1, <1>3, <1>5, <2>1, <2>2, <2>3 DEF StatusInv, Active, ReqDone, RunDone
<1> QED BY <1>0, <1>2, <1>4, <1>5, RequestMoves

\* A step of a task keeps it.
LEMMA RunnerStatus ==
  ASSUME OneProcess, OwnedInv, StatusInv, NEW c \in Checks, RunnerStep(c) \/ RunnerFault(c)
  PROVE  StatusInv'
<1>0. /\ TypeOK /\ RowInv /\ StartInv /\ TaskFrame(c) /\ (SilentMove(c) \/ CommitMove(c))
  BY TaskMoves DEF OwnedInv, SafetyInv
<1>1. /\ UNCHANGED <<proc, todo>>
      /\ \A d \in Checks : d # c => status'[d] = status[d] /\ runner'[d] = runner[d]
      /\ runner'[c].proc = runner[c].proc
      /\ runner[c].pc \notin RunDone \cup {"none"}
  BY <1>0 DEF TaskFrame, CheckStays
<1>2. status[c] # "absent" /\ runner[c].outcome \in Outcomes
  BY <1>0, <1>1 DEF RowInv, TypeOK, RunState
<1>3. /\ runner[c].proc \in Procs /\ proc[runner[c].proc] = "up"
      /\ \A p \in Procs : proc[p] # "starting"
  BY <1>1, <1>2 DEF StatusInv, OneProcess
<1> DEFINE S(d) ==
      LET pc == runner[d].pc IN
      /\ pc \notin RunDone /\ status[d] # "absent" =>
            runner[d].proc \in Procs /\ proc[runner[d].proc] = "up"
      /\ pc = "none" => status[d] \in {"absent", "pending"}
      /\ pc \in {"scheduled", "opened", "starting"} => status[d] = "pending"
      /\ pc \in {"graph", "checkpoint", "checkpointing", "finishing"} =>
            status[d] = "running"
      /\ pc = "closing" => status[d] \in Outcomes
      /\ pc \in {"failing", "deciding", "finalizing"} =>
            status[d] \in ActiveStatuses \cup Outcomes
      /\ pc \in {"failing", "deciding", "finalizing"} /\ ~Active(d) =>
            runner[d].handler = "outer"
      /\ pc \in {"deciding", "finalizing"} => runner[d].seen = status[d]
      /\ pc \in {"deciding", "finalizing"} /\ runner[d].outcome = "succeeded" =>
            status[d] = "running"
<1>4. S(c) BY DEF StatusInv
<1>5. S(c)'
  <2>1. CASE SilentMove(c)
    BY <1>1, <1>2, <1>3, <1>4, <2>1
       DEF SilentMove, CheckStays, Goes, MemoryStays, Active, ActiveStatuses, Outcomes, RunDone
  <2>2. CASE CommitMove(c)
    BY <1>1, <1>2, <1>3, <1>4, <2>2
       DEF CommitMove, Goes, MemoryStays, Active, ActiveStatuses, Outcomes, RunDone
  <2> QED BY <1>0, <2>1, <2>2
<1>6. \A d \in Checks : d # c => S(d)' BY <1>1 DEF StatusInv, Active
<1> QED BY <1>1, <1>3, <1>5, <1>6 DEF StatusInv

\* A step of the process keeps it: while it starts, no task runs.
LEMMA ProcStatus ==
  ASSUME OneProcess, OwnedInv, StatusInv, NEW p \in Procs, BootStep(p) \/ Crash(p)
  PROVE  StatusInv'
<1>0. TypeOK /\ TaskInv /\ ProcFrame(p) BY ProcMoves DEF OwnedInv, SafetyInv
<1>1. \A q \in Procs : q = p BY DEF OneProcess
<1>2. ASSUME proc[p] # "up", NEW c \in Checks, status[c] # "absent"
      PROVE  runner[c].pc \in RunDone
  BY <1>1, <1>2 DEF StatusInv
<1>3. \A c \in Checks : status[c] = "absent" => runner[c] = NewRunner
  BY <1>0 DEF TaskInv
<1>4. ASSUME UNCHANGED <<status, runner>>, proc[p] # "up",
             proc'[p] = "starting" => todo'[p] = {c \in Checks : Active(c)}
      PROVE  StatusInv'
  BY <1>1, <1>2, <1>4 DEF StatusInv, Active
<1>5. CASE SelectMove(p) BY <1>4, <1>5 DEF SelectMove
<1>6. CASE AbortMove(p) BY <1>4, <1>6 DEF AbortMove
<1>7. CASE LockMove(p) BY <1>7 DEF LockMove, StatusInv, Active
<1>8. CASE InterruptMove(p)
  <2>1. /\ UNCHANGED runner /\ proc[p] = "starting" /\ proc'[p] = "up"
        /\ \A c \in Checks : c \notin todo[p] => status'[c] = status[c]
        /\ todo[p] = {c \in Checks : Active(c)}
    BY <1>8 DEF InterruptMove, StatusInv
  <2>2. \A c \in Checks : status[c] = "absent" => status'[c] = "absent"
    BY <2>1 DEF Active, ActiveStatuses
  <2>3. \A c \in Checks : \/ runner'[c].pc \in RunDone
                          \/ status'[c] = "absent" /\ runner'[c].pc = "none"
    BY <1>2, <1>3, <2>1, <2>2 DEF NewRunner
  <2> QED BY <1>1, <2>1, <2>3 DEF StatusInv, RunDone
<1>9. CASE CrashMove(p)
  <2>1. UNCHANGED status /\ proc'[p] = "down" BY <1>9 DEF CrashMove
  <2>2. ASSUME NEW c \in Checks, status[c] # "absent" PROVE runner'[c].pc \in RunDone
    <3>1. CASE runner[c].pc \in RunDone BY <1>9, <3>1 DEF CrashMove
    <3>2. CASE runner[c].pc \notin RunDone
      <4>1. runner[c].proc = p BY <1>1, <2>2, <3>2 DEF StatusInv
      <4> QED BY <1>9, <3>2, <4>1 DEF CrashMove, RunDone
    <3> QED BY <3>1, <3>2
  <2>3. ASSUME NEW c \in Checks, status[c] = "absent" PROVE runner'[c].pc = "none"
    BY <1>3, <1>9, <2>3, NoneAssumption DEF CrashMove, NewRunner
  <2> QED BY <1>1, <2>1, <2>2, <2>3 DEF StatusInv, RunDone
<1> QED BY <1>0, <1>5, <1>6, <1>7, <1>8, <1>9, ProcMoves

\* In a service with one process the status of a check is known by how far its
\* task has come.
LEMMA NextStatus ==
  ASSUME OneProcess
  PROVE  OwnedInv /\ StatusInv /\ [Next]_vars => StatusInv'
<1> SUFFICES ASSUME OwnedInv, StatusInv, [Next]_vars PROVE StatusInv'
  OBVIOUS
<1>1. CASE Next BY <1>1, RequestStatus, RunnerStatus, ProcStatus DEF Next
<1>2. CASE UNCHANGED vars
  BY <1>2 DEF vars, tables, boot, StatusInv, Active
<1> QED BY <1>1, <1>2

-----------------------------------------------------------------------------
(* One process: the log and the session tell the outcome *)

\* What an appended event does to the terminal ones.
LEMMA AppendEnds ==
  ASSUME NEW c \in Checks, events[c] \in Seq(Event), NEW n, NEW t,
         [seq |-> n, type |-> t] \in Event,
         events'[c] = Append(events[c], [seq |-> n, type |-> t])
  PROVE  LET k == Len(events[c]) + 1 IN
         /\ Len(events'[c]) = k /\ events'[c][k].type = t
         /\ \A i \in 1..(k - 1) : events'[c][i] = events[c][i]
         /\ Ends(c)' = IF t \in TerminalEvents THEN Ends(c) \cup {k} ELSE Ends(c)
         /\ Ends(c) \subseteq 1..(k - 1)
<1> DEFINE e == [seq |-> n, type |-> t]
           k == Len(events[c]) + 1
<1>1. e.type = t /\ e \in Event OBVIOUS
<1> HIDE DEF e
<1>2. /\ Len(events'[c]) = k /\ events'[c][k] = e /\ Len(events[c]) \in Nat
      /\ \A i \in 1..Len(events[c]) : events'[c][i] = events[c][i]
  BY <1>1, AppendKeeps DEF e
<1>3. Ends(c)' = {i \in 1..Len(events'[c]) : events'[c][i].type \in TerminalEvents}
  BY DEF Ends
<1>4. \A i : i \in 1..k <=> i \in 1..Len(events[c]) \/ i = k BY <1>2
<1>5. Ends(c)' = IF t \in TerminalEvents THEN Ends(c) \cup {k} ELSE Ends(c)
  BY <1>1, <1>2, <1>3, <1>4 DEF Ends
<1>6. Ends(c) \subseteq 1..(k - 1) BY <1>2 DEF Ends
<1> QED BY <1>1, <1>2, <1>5, <1>6

\* The story of one check.
Story(c) ==
    /\ status[c] = "absent" => events[c] = <<>> /\ session[c] = "absent"
    /\ Active(c) => Ends(c) = {} /\ session[c] = "active"
    /\ status[c] \in TerminalStatuses => EndsOnce(c) \/ EndsTwice(c)

\* A check of which nothing changes keeps its story, unless its task wakes up.
LEMMA StoryStays ==
  ASSUME NEW c \in Checks, Story(c), CheckStays(c),
         runner[c].pc \in RunDone => runner'[c].pc \in RunDone
  PROVE  Story(c)'
<1>1. Ends(c)' = Ends(c) BY DEF Ends, CheckStays
<1>2. EndsOnce(c) => EndsOnce(c)' BY <1>1 DEF EndsOnce, CheckStays
<1>3. EndsTwice(c) => EndsTwice(c)' BY <1>1 DEF EndsTwice, CheckStays
<1> QED BY <1>1, <1>2, <1>3 DEF Story, CheckStays, Active

\* The initial state has no story to tell.
LEMMA InitStory == Init => StoryInv
BY DEF Init, StoryInv, Active, ActiveStatuses, TerminalStatuses

\* A step of a request keeps the stories.
LEMMA RequestStory ==
  ASSUME OwnedInv, StoryInv, NEW r \in Requests, RequestStep(r) \/ RequestDbError(r)
  PROVE  StoryInv'
<1>0. SafetyInv /\ ProcInv BY DEF OwnedInv
<1>1. \A c \in Checks : Story(c) BY DEF StoryInv, Story
<1>2. CASE LookMove(r)
  <2>1. \A c \in Checks : CheckStays(c) /\ runner'[c] = runner[c]
    BY <1>2 DEF LookMove, CheckStays, tables
  <2>2. \A c \in Checks : Story(c)' BY <1>1, <2>1, StoryStays
  <2> QED BY <2>2 DEF StoryInv, Story
<1>3. ASSUME NEW c \in Checks, CreateMove(r, c) PROVE StoryInv'
  <2>1. \A d \in Checks : d # c => Story(d)'
    BY <1>1, <1>3, StoryStays DEF CreateMove
  <2>2. /\ status'[c] = "pending" /\ session'[c] = "active"
        /\ events'[c] = <<[seq |-> 1, type |-> "created"]>>
    BY <1>3 DEF CreateMove
  <2>3. Ends(c)' = {} BY <2>2 DEF Ends, TerminalEvents
  <2>4. Story(c)' BY <2>2, <2>3 DEF Story, TerminalStatuses
  <2> QED BY <2>1, <2>4 DEF StoryInv, Story
<1>4. ASSUME NEW c \in Checks, ScheduleMove(r, c) PROVE StoryInv'
  <2>1. \A d \in Checks : CheckStays(d) /\ (d # c => runner'[d] = runner[d])
    BY <1>4 DEF ScheduleMove, CheckStays, tables
  <2>2. runner[c].pc = "none" BY <1>0, <1>4 DEF ScheduleMove, ProcInv
  <2>3. \A d \in Checks : Story(d)' BY <1>1, <2>1, <2>2, StoryStays DEF RunDone
  <2> QED BY <2>3 DEF StoryInv, Story
<1> QED BY <1>0, <1>2, <1>3, <1>4, RequestMoves

\* A step of a task keeps them: the task ends its check once, and after that
\* it may only fail to leave the checkpointer.
LEMMA RunnerStory ==
  ASSUME OwnedInv, StatusInv, StoryInv, NEW c \in Checks, RunnerStep(c) \/ RunnerFault(c)
  PROVE  StoryInv'
<1>0. /\ TypeOK /\ RowInv /\ TaskFrame(c) /\ (SilentMove(c) \/ CommitMove(c))
  BY TaskMoves DEF OwnedInv, SafetyInv
<1>1. \A d \in Checks : Story(d) BY DEF StoryInv, Story
<1>2. runner[c].pc \notin RunDone \cup {"none"} BY <1>0 DEF TaskFrame
<1>3. \A d \in Checks : d # c => Story(d)'
  BY <1>0, <1>1, StoryStays DEF TaskFrame
<1>4. /\ events[c] \in Seq(Event) /\ runner[c].seq \in Nat /\ Len(events[c]) \in Nat
      /\ runner[c].outcome \in Outcomes /\ status[c] \in Statuses
  BY <1>0 DEF TypeOK, RunState
<1>5. ~EndsTwice(c) /\ status[c] # "absent" BY <1>0, <1>2 DEF EndsTwice, RowInv
<1>6. ASSUME NEW t \in EventTypes
      PROVE  [seq |-> runner[c].seq, type |-> t] \in Event
  BY <1>4 DEF Event
<1>7. Story(c)'
  <2>1. CASE SilentMove(c)
    BY <1>1, <1>2, <2>1, StoryStays DEF SilentMove
  <2>2. CASE /\ Goes(c, "starting", "graph") /\ status'[c] = "running" /\ Logs(c, "started")
             /\ session'[c] = session[c]
    <3>1. status[c] = "pending" BY <2>2 DEF Goes, StatusInv
    <3>2. "started" \in EventTypes /\ "started" \notin TerminalEvents
      BY DEF EventTypes, TerminalEvents
    <3>3. Ends(c)' = Ends(c) BY <1>4, <1>6, <2>2, <3>2, AppendEnds DEF Logs
    <3> QED BY <1>1, <2>2, <3>1, <3>3 DEF Story, Active, ActiveStatuses, TerminalStatuses
  <2>3. CASE /\ Goes(c, "graph", IF msgs[c] + 1 = NodeCount THEN "checkpoint" ELSE "graph")
             /\ status'[c] = status[c] /\ session'[c] = session[c] /\ events'[c] = events[c]
    <3>1. status[c] = "running" BY <2>3 DEF Goes, StatusInv
    <3>2. Ends(c)' = Ends(c) BY <2>3 DEF Ends
    <3> QED BY <1>1, <2>3, <3>1, <3>2 DEF Story, Active, ActiveStatuses, TerminalStatuses
  <2>4. CASE /\ Goes(c, "checkpointing", "finishing") /\ Logs(c, "checkpoint")
             /\ status'[c] = status[c] /\ session'[c] = session[c]
    <3>1. status[c] = "running" BY <2>4 DEF Goes, StatusInv
    <3>2. "checkpoint" \in EventTypes /\ "checkpoint" \notin TerminalEvents
      BY DEF EventTypes, TerminalEvents
    <3>3. Ends(c)' = Ends(c) BY <1>4, <1>6, <2>4, <3>2, AppendEnds DEF Logs
    <3> QED BY <1>1, <2>4, <3>1, <3>3 DEF Story, Active, ActiveStatuses, TerminalStatuses
  <2>5. CASE /\ Goes(c, "finalizing", IF runner[c].handler = "outer" THEN "done" ELSE "closing")
             /\ status'[c] = IF runner[c].seen \in ActiveStatuses THEN runner[c].outcome
                             ELSE status[c]
             /\ session'[c] = SessionStatus(runner[c].outcome)
             /\ Logs(c, TerminalEvent(runner[c].outcome))
    <3> DEFINE t == TerminalEvent(runner[c].outcome)
               n == Len(events[c])
    <3>1. /\ runner[c].seen = status[c]
          /\ ~Active(c) => /\ runner[c].handler = "outer" /\ runner[c].outcome = "failed"
                           /\ status[c] \in Outcomes
      BY <1>4, <2>5 DEF Goes, StatusInv, Outcomes, Active, ActiveStatuses
    <3>2. t \in EventTypes /\ t \in TerminalEvents /\ t = EventOf(runner[c].outcome)
      BY <1>4 DEF TerminalEvent, EventTypes, TerminalEvents, Outcomes, EventOf
    <3>3. Logs(c, t) BY <2>5
    <3> HIDE DEF t
    <3>4. /\ Len(events'[c]) = n + 1 /\ events'[c][n + 1].type = t
          /\ \A i \in 1..n : events'[c][i] = events[c][i]
          /\ Ends(c)' = Ends(c) \cup {n + 1} /\ Ends(c) \subseteq 1..n
      BY <1>4, <1>6, <3>2, <3>3, AppendEnds DEF Logs
    <3>5. CASE Active(c)
      <4>1. Ends(c)' = {n + 1} BY <1>1, <3>4, <3>5 DEF Story
      <4>2. status'[c] = runner[c].outcome /\ status'[c] \in Outcomes
        BY <1>4, <2>5, <3>1, <3>5 DEF Active
      <4>3. EndsOnce(c)' BY <2>5, <3>2, <3>4, <4>1, <4>2 DEF EndsOnce, EventOf, Outcomes
      <4> QED BY <4>2, <4>3 DEF Story, Active, ActiveStatuses, Outcomes
    <3>6. CASE ~Active(c)
      <4>1. EndsOnce(c) /\ status'[c] = status[c] /\ status[c] \in Outcomes
        BY <1>1, <1>5, <2>5, <3>1, <3>6 DEF Story, Outcomes, TerminalStatuses, Active
      <4>2. /\ Ends(c) = {n} /\ n \in 1..n /\ events[c][n].type = EventOf(status[c])
        BY <3>4, <4>1 DEF EndsOnce
      <4>3. /\ Ends(c)' = {n, n + 1} /\ events'[c][n].type = EventOf(status'[c])
            /\ events'[c][n + 1].type = "failed" /\ session'[c] = "failed"
            /\ runner'[c].pc = "done"
        BY <2>5, <3>1, <3>2, <3>4, <3>6, <4>1, <4>2 DEF EventOf, SessionStatus, Goes
      <4>4. EndsTwice(c)' BY <1>4, <3>4, <4>3 DEF EndsTwice, EventOf, RunDone
      <4> QED BY <4>1, <4>4 DEF Story, Active, ActiveStatuses, Outcomes
    <3> QED BY <3>5, <3>6
  <2> QED BY <1>0, <2>1, <2>2, <2>3, <2>4, <2>5 DEF CommitMove
<1> QED BY <1>3, <1>7 DEF StoryInv, Story

\* A step of the process keeps them: it interrupts active checks only.
LEMMA ProcStory ==
  ASSUME OwnedInv, StatusInv, StoryInv, NEW p \in Procs, BootStep(p) \/ Crash(p)
  PROVE  StoryInv'
<1>0. TypeOK /\ ProcFrame(p) BY ProcMoves DEF OwnedInv, SafetyInv
<1>1. \A c \in Checks : Story(c) BY DEF StoryInv, Story
<1>2. ASSUME UNCHANGED <<status, events>>,
             \A c \in Checks : runner[c].pc \in RunDone => runner'[c].pc \in RunDone
      PROVE  StoryInv'
  <2>1. \A c \in Checks : CheckStays(c) BY <1>0, <1>2 DEF ProcFrame, CheckStays
  <2>2. \A c \in Checks : Story(c)' BY <1>1, <1>2, <2>1, StoryStays
  <2> QED BY <2>2 DEF StoryInv, Story
<1>3. CASE SelectMove(p) \/ LockMove(p) \/ AbortMove(p)
  BY <1>2, <1>3 DEF SelectMove, LockMove, AbortMove
<1>4. CASE CrashMove(p) BY <1>2, <1>4 DEF CrashMove
<1>5. CASE InterruptMove(p)
  <2>1. todo[p] = {c \in Checks : Active(c)} BY <1>5 DEF InterruptMove, StatusInv
  <2>2. ASSUME NEW c \in Checks, ~Active(c) PROVE Story(c)'
    BY <1>0, <1>1, <1>5, <2>1, <2>2, StoryStays DEF InterruptMove, ProcFrame, CheckStays
  <2>3. ASSUME NEW c \in Checks, Active(c) PROVE Story(c)'
    <3>1. /\ status'[c] = "interrupted" /\ session'[c] = session[c]
          /\ events'[c] = Append(events[c], [seq |-> bootSeq[p][c], type |-> "interrupted"])
      BY <1>0, <1>5, <2>1, <2>3 DEF InterruptMove, ProcFrame
    <3>2. /\ [seq |-> bootSeq[p][c], type |-> "interrupted"] \in Event
          /\ events[c] \in Seq(Event) /\ "interrupted" \in TerminalEvents
      BY <1>0 DEF TypeOK, Event, EventTypes, TerminalEvents
    <3>3. /\ Ends(c)' = Ends(c) \cup {Len(events'[c])}
          /\ events'[c][Len(events'[c])].type = "interrupted"
      BY <3>1, <3>2, AppendEnds
    <3>4. Ends(c) = {} /\ session[c] = "active" BY <1>1, <2>3 DEF Story
    <3>5. EndsOnce(c)' BY <3>1, <3>3, <3>4 DEF EndsOnce, EventOf
    <3> QED BY <3>1, <3>5 DEF Story, Active, ActiveStatuses
  <2> QED BY <2>2, <2>3 DEF StoryInv, Story
<1> QED BY <1>0, <1>3, <1>4, <1>5, ProcMoves

\* Everything that is invariant in a service with one process.
OutcomeInv == OwnedInv /\ StatusInv /\ StoryInv

\* The initial state satisfies it.
LEMMA InitOutcome == Init => OutcomeInv
BY InitOwned, InitStatus, InitStory DEF OutcomeInv

\* Every step keeps it.
LEMMA NextOutcome ==
  ASSUME OneProcess
  PROVE  OutcomeInv /\ [Next]_vars => OutcomeInv'
<1> SUFFICES ASSUME OutcomeInv, [Next]_vars PROVE OutcomeInv'
  OBVIOUS
<1>1. OwnedInv' /\ StatusInv' BY NextOwned, NextStatus DEF OutcomeInv
<1>2. CASE Next
  BY <1>1, <1>2, RequestStory, RunnerStory, ProcStory DEF Next, OutcomeInv
<1>3. CASE UNCHANGED vars
  <2>1. \A c \in Checks : CheckStays(c) /\ runner'[c] = runner[c]
    BY <1>3 DEF vars, tables, CheckStays
  <2>2. \A c \in Checks : Story(c)' BY <2>1, StoryStays DEF OutcomeInv, StoryInv, Story
  <2> QED BY <1>1, <2>2 DEF OutcomeInv, StoryInv, Story
<1> QED BY <1>2, <1>3

\* In a service with one process the outcome invariant holds in every
\* reachable state.
THEOREM Outcome ==
  ASSUME OneProcess
  PROVE  Spec => []OutcomeInv
<1> QED BY InitOutcome, NextOutcome, PTL DEF Spec

\* The log of a check tells its outcome: no terminal event while it is active,
\* the first one names the outcome, and only the failure to leave the
\* checkpointer may follow (mark_terminal, _mark_failed, the startup hook).
THEOREM LogOutcome ==
  ASSUME OneProcess
  PROVE  Spec => []LogTellsOutcome
<1>1. OutcomeInv => LogTellsOutcome
  <2> SUFFICES ASSUME OutcomeInv, NEW c \in Checks
               PROVE  /\ (Ends(c) # {}) <=> status[c] \in TerminalStatuses
                      /\ \A i \in 1..Len(events[c]) :
                           CASE \A j \in Ends(c) : i < j  -> TRUE
                             [] i \in Ends(c) /\ \A j \in Ends(c) : i <= j
                                  -> events[c][i].type = EventOf(status[c])
                             [] OTHER -> events[c][i].type = "failed" /\ i = Len(events[c])
    BY DEF LogTellsOutcome
  <2>1. Story(c) /\ status[c] \in Statuses /\ events[c] \in Seq(Event)
    BY DEF OutcomeInv, StoryInv, Story, OwnedInv, SafetyInv, TypeOK
  <2>2. CASE Ends(c) = {}
    BY <2>1, <2>2 DEF Story, EndsOnce, EndsTwice
  <2>3. CASE Ends(c) # {}
    <3>1. status[c] \in TerminalStatuses
      <4>1. status[c] = "absent" => Ends(c) = {} BY <2>1 DEF Story, Ends
      <4> QED BY <2>1, <2>3, <4>1 DEF Story, Active, Statuses
    <3>2. Len(events[c]) \in Nat BY <2>1
    <3>3. EndsOnce(c) \/ EndsTwice(c) BY <2>1, <3>1 DEF Story
    <3>4. CASE EndsOnce(c) BY <2>3, <3>1, <3>2, <3>4 DEF EndsOnce
    <3>5. CASE EndsTwice(c) BY <2>3, <3>1, <3>2, <3>5 DEF EndsTwice
    <3> QED BY <3>3, <3>4, <3>5
  <2> QED BY <2>2, <2>3
<1> QED BY <1>1, Outcome, PTL

\* The session of a check is closed with it and with the same outcome, and is
\* marked as failed exactly if the log says so.
THEOREM SessionOutcome ==
  ASSUME OneProcess
  PROVE  Spec => []SessionFollowsCheck
<1>1. OutcomeInv => SessionFollowsCheck
  <2> SUFFICES ASSUME OutcomeInv, NEW c \in Checks
               PROVE  LET failed == \E i \in Ends(c) : events[c][i].type = "failed" IN
                      /\ session[c] = "completed" <=> status[c] = "succeeded" /\ ~failed
                      /\ session[c] = "failed" <=> failed
    BY DEF SessionFollowsCheck
  <2>1. Story(c) /\ status[c] \in Statuses /\ Len(events[c]) \in Nat
    BY DEF OutcomeInv, StoryInv, Story, OwnedInv, SafetyInv, TypeOK
  <2>2. CASE status[c] = "absent" BY <2>1, <2>2 DEF Story, Ends
  <2>3. CASE Active(c) BY <2>1, <2>3 DEF Story, Active, ActiveStatuses
  <2>4. CASE status[c] \in TerminalStatuses
    <3>1. CASE EndsOnce(c)
      BY <2>4, <3>1 DEF EndsOnce, EventOf, SessionStatus, TerminalStatuses
    <3>2. CASE EndsTwice(c) BY <2>1, <2>4, <3>2 DEF EndsTwice, TerminalStatuses
    <3> QED BY <2>1, <2>4, <3>1, <3>2 DEF Story
  <2> QED BY <2>1, <2>2, <2>3, <2>4 DEF Statuses, Active
<1> QED BY <1>1, Outcome, PTL

-----------------------------------------------------------------------------
(* One process: the tables implement CheckSpec *)

\* The log of check c as far as a stream sends it.
ToldLog(c) == [i \in Told(c) |-> events[c][i].type]

BarLog == [c \in Checks |-> ToldLog(c)]

\* The types of a log with one more event.
LEMMA AppendTypes ==
  ASSUME NEW log \in Seq(Event), NEW e \in Event
  PROVE  [i \in 1..Len(Append(log, e)) |-> Append(log, e)[i].type]
           = Append([i \in 1..Len(log) |-> log[i].type], e.type)
<1> DEFINE f == [i \in 1..Len(log) |-> log[i].type]
           g == [i \in 1..Len(Append(log, e)) |-> Append(log, e)[i].type]
<1>1. \A x \in Event : x.type \in EventTypes BY DEF Event
<1>2. f \in Seq(EventTypes) /\ Len(f) = Len(log) /\ Len(log) \in Nat
  BY <1>1
<1>3. /\ Len(Append(log, e)) = Len(log) + 1 /\ Append(log, e) \in Seq(Event)
      /\ Append(log, e)[Len(log) + 1] = e
      /\ \A i \in 1..Len(log) : Append(log, e)[i] = log[i]
  BY AppendKeeps
<1>4. g \in Seq(EventTypes) /\ Len(g) = Len(log) + 1
  BY <1>1, <1>2, <1>3
<1>5. Append(f, e.type) \in Seq(EventTypes) /\ Len(Append(f, e.type)) = Len(log) + 1
  BY <1>1, <1>2
<1>6. ASSUME NEW i \in 1..(Len(log) + 1) PROVE g[i] = Append(f, e.type)[i]
  <2>1. CASE i = Len(log) + 1 BY <1>1, <1>2, <1>3, <2>1
  <2>2. CASE i \in 1..Len(log) BY <1>1, <1>2, <1>3, <2>2
  <2> QED BY <1>2, <2>1, <2>2
<1> QED BY <1>4, <1>5, <1>6

\* A check that has not ended is told in full.
LEMMA ToldInFull ==
  ASSUME NEW c \in Checks, Len(events[c]) \in Nat,
         Ends(c) = {} \/ Ends(c) = {Len(events[c])}
  PROVE  Told(c) = 1..Len(events[c])
BY DEF Told

\* What an event committed to an active check adds to its told log.
LEMMA ToldAppend ==
  ASSUME NEW c \in Checks, events[c] \in Seq(Event), Ends(c) = {}, NEW n, NEW t,
         [seq |-> n, type |-> t] \in Event,
         events'[c] = Append(events[c], [seq |-> n, type |-> t])
  PROVE  ToldLog(c)' = Append(ToldLog(c), t)
<1> DEFINE e == [seq |-> n, type |-> t]
<1>1. e \in Event /\ e.type = t /\ events'[c] = Append(events[c], e) OBVIOUS
<1>2. /\ Len(events'[c]) = Len(events[c]) + 1 /\ Len(events[c]) \in Nat
      /\ Ends(c)' = {} \/ Ends(c)' = {Len(events'[c])}
  BY AppendEnds
<1>3. Told(c) = 1..Len(events[c]) BY <1>2, ToldInFull
<1>4. Told(c)' = 1..Len(events'[c]) BY <1>2 DEF Told
<1> HIDE DEF e
<1>5. ToldLog(c) = [i \in 1..Len(events[c]) |-> events[c][i].type] BY <1>3 DEF ToldLog
<1>6. ToldLog(c)' = [i \in 1..Len(events'[c]) |-> events'[c][i].type] BY <1>4 DEF ToldLog
<1> QED BY <1>1, <1>5, <1>6, AppendTypes

\* A check of which nothing changes keeps its told log.
LEMMA ToldStays ==
  ASSUME NEW c \in Checks, events'[c] = events[c]
  PROVE  ToldLog(c)' = ToldLog(c)
BY DEF ToldLog, Told, Ends

\* A step that changes neither status, subject nor log is not seen.
LEMMA Unseen ==
  ASSUME UNCHANGED <<status, subject>>, \A c \in Checks : ToldLog(c)' = ToldLog(c)
  PROVE  UNCHANGED CS!specVars
<1>1. BarLog' = BarLog BY DEF BarLog
<1> QED BY <1>1 DEF CS!specVars, BarLog, ToldLog

\* The initial state is an initial state of CheckSpec.
LEMMA InitRefines == Init => CS!Init
<1> SUFFICES ASSUME Init PROVE CS!Init OBVIOUS
<1>1. \A c \in Checks : events[c] = <<>> BY DEF Init
<1>2. ASSUME NEW c \in Checks PROVE ToldLog(c) = <<>>
  <2>1. Told(c) = {} BY <1>1 DEF Told
  <2> QED BY <2>1 DEF ToldLog
<1>3. BarLog = [c \in Checks |-> <<>>] BY <1>2 DEF BarLog
<1> QED BY <1>3 DEF CS!Init, Init, BarLog, ToldLog

\* The commit of a new check creates it; no other step of a request is seen.
LEMMA RequestRefines ==
  ASSUME OutcomeInv, NEW r \in Requests, RequestStep(r) \/ RequestDbError(r)
  PROVE  [CS!Next]_CS!specVars
<1>0. SafetyInv /\ TypeOK /\ InsertInv BY DEF OutcomeInv, OwnedInv, SafetyInv
<1>1. CASE ~CommitCheck(r)
  <2>1. UNCHANGED tables
    BY <1>1 DEF RequestStep, RequestDbError, Lookup, Recheck, InsertCheck, InsertConflict,
       ResolveConflict, Schedule
  <2>2. \A c \in Checks : ToldLog(c)' = ToldLog(c) BY <2>1, ToldStays DEF tables
  <2> QED BY <2>1, <2>2, Unseen DEF tables
<1>2. CASE CommitCheck(r)
  <2>1. req[r].pc = "inserted" BY <1>2 DEF CommitCheck, ReqStep
  <2>2. PICK c \in Checks, s \in Subjects :
          /\ c = req[r].check /\ s = req[r].subj
          /\ status[c] = "absent" /\ ActiveFor(s) = {}
    BY <1>0, <2>1 DEF InsertInv, TypeOK, ReqState
  <2>3. /\ status'  = [status  EXCEPT ![c] = "pending"]
        /\ subject' = [subject EXCEPT ![c] = s]
        /\ events'  = [events  EXCEPT ![c] = <<[seq |-> 1, type |-> "created"]>>]
    BY <1>2, <2>2 DEF CommitCheck
  <2>4. /\ events'[c] = <<[seq |-> 1, type |-> "created"]>>
        /\ \A d \in Checks : d # c => events'[d] = events[d]
    BY <1>0, <2>2, <2>3 DEF TypeOK
  <2>5. \A d \in Checks : CS!IsActive(d) => subject[d] # s
    BY <2>2 DEF ActiveFor, Active, ActiveStatuses, CS!IsActive
  <2>6. ToldLog(c)' = <<"created">>
    <3>1. Len(events'[c]) = 1 /\ events'[c][1].type = "created" BY <2>4
    <3>2. Ends(c)' = {} BY <3>1 DEF Ends, TerminalEvents
    <3>3. Told(c)' = 1..1 BY <3>1, <3>2 DEF Told
    <3> QED BY <3>1, <3>3 DEF ToldLog
  <2>7. BarLog' = [BarLog EXCEPT ![c] = <<"created">>]
    BY <2>2, <2>4, <2>6, ToldStays DEF BarLog
  <2>8. CS!Create(c, s) BY <2>2, <2>3, <2>5, <2>7 DEF CS!Create, BarLog, ToldLog
  <2> QED BY <2>2, <2>8 DEF CS!Next
<1> QED BY <1>1, <1>2

\* A commit of a task starts, checkpoints or ends its check; the failure to
\* leave the checkpointer, and everything else it does, is not seen.
LEMMA RunnerRefines ==
  ASSUME OutcomeInv, NEW c \in Checks, RunnerStep(c) \/ RunnerFault(c)
  PROVE  [CS!Next]_CS!specVars
<1>0. /\ TypeOK /\ StatusInv /\ Story(c) /\ TaskFrame(c)
      /\ SilentMove(c) \/ CommitMove(c)
  BY TaskMoves DEF OutcomeInv, OwnedInv, SafetyInv, StoryInv, Story
<1>1. /\ UNCHANGED subject /\ runner[c].pc \notin RunDone \cup {"none"}
      /\ \A d \in Checks : d # c => status'[d] = status[d] /\ events'[d] = events[d]
  BY <1>0 DEF TaskFrame, CheckStays
<1>2. /\ status \in [Checks -> Statuses] /\ status' \in [Checks -> Statuses]
      /\ events[c] \in Seq(Event) /\ runner[c].seq \in Nat
      /\ runner[c].outcome \in Outcomes
  BY <1>0, RunnerTypeOK DEF TypeOK, RunState
<1>3. \A d \in Checks : d # c => ToldLog(d)' = ToldLog(d) BY <1>1, ToldStays
<1>4. ASSUME NEW t \in EventTypes, Logs(c, t), Active(c)
      PROVE  BarLog' = [BarLog EXCEPT ![c] = Append(@, t)]
  <2>1. [seq |-> runner[c].seq, type |-> t] \in Event BY <1>2 DEF Event
  <2>2. ToldLog(c)' = Append(ToldLog(c), t)
    BY <1>0, <1>2, <1>4, <2>1, ToldAppend DEF Story, Logs
  <2> QED BY <1>3, <2>2 DEF BarLog
<1>5. ASSUME status'[c] = status[c] PROVE UNCHANGED status
  BY <1>1, <1>2, <1>5
<1>6. ASSUME status'[c] = status[c], ToldLog(c)' = ToldLog(c)
      PROVE  UNCHANGED CS!specVars
  BY <1>1, <1>3, <1>5, <1>6, Unseen
<1>7. CASE SilentMove(c)
  <2>1. status'[c] = status[c] /\ events'[c] = events[c]
    BY <1>7 DEF SilentMove, CheckStays
  <2> QED BY <1>6, <2>1, ToldStays
<1>8. CASE Goes(c, "starting", "graph") /\ status'[c] = "running" /\ Logs(c, "started")
  <2>1. status[c] = "pending" /\ Active(c)
    BY <1>0, <1>8 DEF Goes, StatusInv, Active, ActiveStatuses
  <2>2. BarLog' = [BarLog EXCEPT ![c] = Append(@, "started")]
    BY <1>4, <1>8, <2>1 DEF EventTypes
  <2>3. status' = [status EXCEPT ![c] = "running"] BY <1>1, <1>2, <1>8
  <2>4. CS!Start(c) BY <1>1, <2>1, <2>2, <2>3 DEF CS!Start, BarLog, ToldLog
  <2> QED BY <2>4 DEF CS!Next
<1>9. CASE status'[c] = status[c] /\ events'[c] = events[c]
  BY <1>6, <1>9, ToldStays
<1>10. CASE /\ Goes(c, "checkpointing", "finishing") /\ Logs(c, "checkpoint")
            /\ status'[c] = status[c]
  <2>1. status[c] = "running" /\ Active(c)
    BY <1>0, <1>10 DEF Goes, StatusInv, Active, ActiveStatuses
  <2>2. BarLog' = [BarLog EXCEPT ![c] = Append(@, "checkpoint")]
    BY <1>4, <1>10, <2>1 DEF EventTypes
  <2>3. UNCHANGED status BY <1>5, <1>10
  <2>4. CS!Checkpoint(c) BY <1>1, <2>1, <2>2, <2>3 DEF CS!Checkpoint, BarLog, ToldLog
  <2> QED BY <2>4 DEF CS!Next
<1>11. CASE /\ runner[c].pc = "finalizing"
            /\ status'[c] = IF runner[c].seen \in ActiveStatuses THEN runner[c].outcome
                            ELSE status[c]
            /\ Logs(c, TerminalEvent(runner[c].outcome))
  <2>1. /\ runner[c].seen = status[c]
        /\ runner[c].outcome = "succeeded" => status[c] = "running"
        /\ status[c] \in ActiveStatuses \cup Outcomes
    BY <1>0, <1>11 DEF StatusInv
  <2>2. /\ TerminalEvent(runner[c].outcome) \in EventTypes
        /\ TerminalEvent(runner[c].outcome) \in TerminalEvents
    BY DEF TerminalEvent, EventTypes, TerminalEvents
  <2>3. CASE Active(c)
    <3>1. BarLog' = [BarLog EXCEPT ![c] = Append(@, TerminalEvent(runner[c].outcome))]
      BY <1>4, <1>11, <2>2, <2>3
    <3>2. status' = [status EXCEPT ![c] = runner[c].outcome]
      BY <1>1, <1>2, <1>11, <2>1, <2>3 DEF Active
    <3>3. CASE runner[c].outcome = "succeeded"
      <4>1. CS!Succeed(c)
        BY <1>1, <2>1, <3>1, <3>2, <3>3 DEF CS!Succeed, TerminalEvent, BarLog, ToldLog
      <4> QED BY <4>1 DEF CS!Next
    <3>4. CASE runner[c].outcome = "failed"
      <4>1. CS!IsActive(c) BY <2>3 DEF CS!IsActive, Active, ActiveStatuses
      <4>2. CS!Fail(c)
        BY <1>1, <3>1, <3>2, <3>4, <4>1 DEF CS!Fail, TerminalEvent, BarLog, ToldLog
      <4> QED BY <4>2 DEF CS!Next
    <3> QED BY <1>2, <3>3, <3>4 DEF Outcomes
  <2>4. CASE ~Active(c)
    <3> DEFINE n == Len(events[c])
    <3>1. status'[c] = status[c] /\ status[c] \in TerminalStatuses
      BY <1>11, <2>1, <2>4 DEF Active, Outcomes, TerminalStatuses
    <3>2. EndsOnce(c) BY <1>0, <1>1, <3>1 DEF Story, EndsTwice
    <3>3. [seq |-> runner[c].seq, type |-> TerminalEvent(runner[c].outcome)] \in Event
      BY <1>2, <2>2 DEF Event
    <3>4. /\ Ends(c)' = Ends(c) \cup {n + 1} /\ Len(events'[c]) = n + 1 /\ n \in Nat
          /\ \A i \in 1..n : events'[c][i] = events[c][i]
          /\ Ends(c) \subseteq 1..n
      BY <1>2, <1>11, <2>2, <3>3, AppendEnds DEF Logs
    <3>5. Ends(c) = {n} /\ Ends(c)' = {n, n + 1} /\ n \in 1..n
      BY <3>2, <3>4 DEF EndsOnce
    <3>6. Told(c)' = 1..n
      <4>1. \A i \in 1..(n + 1) : (\A j \in {n, n + 1} : i <= j) <=> i \in 1..n
        BY <3>4, <3>5
      <4> QED BY <3>4, <3>5, <4>1 DEF Told
    <3>7. Told(c) = 1..n BY <3>4, <3>5, ToldInFull
    <3>8. ToldLog(c)' = ToldLog(c) BY <3>4, <3>6, <3>7 DEF ToldLog
    <3> QED BY <1>6, <3>1, <3>8
  <2> QED BY <2>3, <2>4
<1> QED BY <1>0, <1>7, <1>8, <1>9, <1>10, <1>11 DEF CommitMove, Goes

\* The startup hook interrupts every active check at once; nothing else of a
\* process is seen.
LEMMA ProcRefines ==
  ASSUME OutcomeInv, NEW p \in Procs, BootStep(p) \/ Crash(p)
  PROVE  [CS!Next]_CS!specVars
<1>0. TypeOK /\ StatusInv /\ StoryInv /\ ProcFrame(p)
  BY ProcMoves DEF OutcomeInv, OwnedInv, SafetyInv
<1>1. UNCHANGED subject BY <1>0 DEF ProcFrame
<1>2. CASE UNCHANGED <<status, events>>
  BY <1>1, <1>2, Unseen, ToldStays
<1>3. CASE InterruptMove(p)
  <2>1. todo[p] = {c \in Checks : Active(c)} BY <1>0, <1>3 DEF InterruptMove, StatusInv
  <2>2. \A c \in Checks : CS!IsActive(c) <=> c \in todo[p]
    BY <2>1 DEF CS!IsActive, Active, ActiveStatuses
  <2>3. status \in [Checks -> Statuses] /\ status' \in [Checks -> Statuses]
    BY <1>0, ProcTypeOK DEF TypeOK
  <2>4. status' = [c \in Checks |-> IF CS!IsActive(c) THEN "interrupted" ELSE status[c]]
    BY <1>3, <2>2, <2>3 DEF InterruptMove
  <2>5. ASSUME NEW c \in Checks
        PROVE  ToldLog(c)' = IF CS!IsActive(c) THEN Append(ToldLog(c), "interrupted")
                             ELSE ToldLog(c)
    <3>1. CASE c \notin todo[p]
      BY <1>3, <2>2, <3>1, ToldStays DEF InterruptMove
    <3>2. CASE c \in todo[p]
      <4>1. /\ [seq |-> bootSeq[p][c], type |-> "interrupted"] \in Event
            /\ events[c] \in Seq(Event)
        BY <1>0 DEF TypeOK, Event, EventTypes, TerminalEvents
      <4>2. Ends(c) = {} BY <1>0, <2>1, <3>2 DEF StoryInv
      <4>3. events'[c] = Append(events[c], [seq |-> bootSeq[p][c], type |-> "interrupted"])
        BY <1>3, <3>2 DEF InterruptMove
      <4> QED BY <2>2, <3>2, <4>1, <4>2, <4>3, ToldAppend
    <3> QED BY <3>1, <3>2
  <2>6. BarLog' = [c \in Checks |-> IF CS!IsActive(c) THEN Append(BarLog[c], "interrupted")
                                    ELSE BarLog[c]]
    BY <2>5 DEF BarLog
  <2>7. CASE \E c \in Checks : CS!IsActive(c)
    <3>1. CS!InterruptAll
      BY <1>1, <2>4, <2>6, <2>7 DEF CS!InterruptAll, BarLog, ToldLog
    <3> QED BY <3>1 DEF CS!Next
  <2>8. CASE \A c \in Checks : ~CS!IsActive(c)
    <3>1. UNCHANGED status BY <2>3, <2>4, <2>8
    <3> QED BY <1>1, <2>5, <2>8, <3>1, Unseen
  <2> QED BY <2>7, <2>8
<1> QED BY <1>0, <1>2, <1>3, ProcMoves DEF SelectMove, LockMove, AbortMove, CrashMove

\* In a service with one process the tables implement CheckSpec, for those who
\* read the log as far as a stream sends it: a check runs at most once, ends once
\* and for good, and its log tells exactly that story.
THEOREM Refinement ==
  ASSUME OneProcess
  PROVE  Spec => ImplementsCheckSpec
<1>1. OutcomeInv /\ [Next]_vars => [CS!Next]_CS!specVars
  <2> SUFFICES ASSUME OutcomeInv, [Next]_vars PROVE [CS!Next]_CS!specVars
    OBVIOUS
  <2>1. CASE Next BY <2>1, RequestRefines, RunnerRefines, ProcRefines DEF Next
  <2>2. CASE UNCHANGED vars
    BY <2>2, Unseen, ToldStays DEF vars, tables
  <2> QED BY <2>1, <2>2
<1> QED BY <1>1, InitRefines, Outcome, PTL DEF Spec, ImplementsCheckSpec, CS!Spec

=============================================================================
