--------------------------- MODULE CheckObserver ---------------------------
(***************************************************************************)
(* A browser that follows one SOP quality check: the runner that commits   *)
(* lifecycle events and then publishes them, the event stream of the       *)
(* service (stream_events, app/services/sop_quality.py) with its broadcast *)
(* queue, the detail endpoint, and the hook useSopQualityCheck             *)
(* (frontend/src/features/sop-quality-checks/hooks.ts).                    *)
(*                                                                         *)
(* An event is its sequence number: the n-th of the log, see               *)
(* CheckLifecycle!EventsNumbered.                                          *)
(***************************************************************************)
EXTENDS Naturals, Sequences, FiniteSetsExt

CONSTANTS
    MaxDrops,   \* bound on the connections the network loses
    Faults      \* subset of {"net"}: requests for the detail may fail

ASSUME DropsAssumption == MaxDrops \in Nat
ASSUME NetAssumption   == Faults \subseteq {"net"}

VARIABLES
    status,     \* of the check, committed
    log,        \* types of its committed events
    published,  \* events the runner has handed to the broadcast
    stream,     \* the service's side of the connection
    wire,       \* events on their way to the browser
    reqs,       \* requests for the detail on their way
    hook,       \* state and refs of the hook
    drops

check  == <<status, log, published>>
server == <<stream, wire>>
vars   == <<check, server, reqs, hook, drops>>

-----------------------------------------------------------------------------
(* Data *)

TerminalStatuses == {"succeeded", "failed", "interrupted"}
Statuses         == {"pending", "running"} \cup TerminalStatuses
TerminalEvents   == {"completed", "failed", "interrupted"}
EventTypes       == {"created", "started", "checkpoint"} \cup TerminalEvents

\* seen: the status of the check object the stream has loaded; the session
\* keeps that object, and get_check returns it without reading the row again.
Stream == [pc : {"none", "load", "subscribe", "read", "status", "wait", "ended"},
           seen : Statuses, cursor : Nat, queue : Seq(Nat)]

NoStream == [pc |-> "none", seen |-> "pending", cursor |-> 0, queue |-> <<>>]

\* A request is stale once the hook has made a later one (detailRequestRef).
Request == [rank : {"latest", "stale"}, stage : {"sent", "half", "answered"},
            status : Statuses, seq : Nat]

NewRequest == [rank |-> "latest", stage |-> "sent", status |-> "pending", seq |-> 0]

\* cursor and terminal are refs; detail is the status of the detail shown, or
\* "none"; shown what isRunning tells; effect whether React has still to run
\* the stream's effect for a new detail; source the EventSource; error whether
\* the last request for the detail has failed.
Hook == [cursor : Nat, terminal : {"no", "yes"}, detail : Statuses \cup {"none"},
         shown : {"loading", "running", "ended"}, effect : {"due", "clean"},
         source : {"none", "open", "retry"}, error : {"no", "yes"}]

IsTerminal(n) == log[n] \in TerminalEvents

Running(s) == IF s \in TerminalStatuses THEN "ended" ELSE "running"

Init ==
    /\ status = "pending"
    /\ log = <<"created">>
    /\ published = 1
    /\ stream = NoStream
    /\ wire = <<>>
    /\ reqs = {NewRequest}
    /\ hook = [cursor |-> 0, terminal |-> "no", detail |-> "none", shown |-> "loading",
               effect |-> "clean", source |-> "none", error |-> "no"]
    /\ drops = 0

-----------------------------------------------------------------------------
(* The check *)

\* The runner commits the next event once it has published the last one.
Commit(from, to, type) ==
    /\ status = from
    /\ published = Len(log)
    /\ status' = to
    /\ log' = Append(log, type)
    /\ UNCHANGED <<published, server, reqs, hook, drops>>

Started      == Commit("pending", "running", "started")
Checkpointed == log[Len(log)] = "started" /\ Commit("running", "running", "checkpoint")
Completed    == log[Len(log)] = "checkpoint" /\ Commit("running", "succeeded", "completed")
Failed       == \E s \in {"pending", "running"} : Commit(s, "failed", "failed")

\* _publish_event puts the event into the queue of a subscriber.
Publish ==
    /\ published < Len(log)
    /\ published' = published + 1
    /\ stream' = [stream EXCEPT !.queue =
         IF stream.pc \in {"read", "status", "wait"} THEN Append(@, published + 1) ELSE @]
    /\ UNCHANGED <<status, log, wire, reqs, hook, drops>>

\* The process restarts: its streams end, its runner is gone, and the startup
\* hook interrupts the check; nobody publishes that.
Restart ==
    /\ status \notin TerminalStatuses
    /\ status' = "interrupted"
    /\ log' = Append(log, "interrupted")
    /\ published' = Len(log) + 1
    /\ stream' = IF stream.pc = "none" THEN stream ELSE [stream EXCEPT !.pc = "ended"]
    /\ UNCHANGED <<wire, reqs, hook, drops>>

-----------------------------------------------------------------------------
(* stream_events *)

LoadCheck ==
    /\ stream.pc = "load"
    /\ stream' = [stream EXCEPT !.pc = "subscribe", !.seen = status]
    /\ UNCHANGED <<check, wire, reqs, hook, drops>>

Subscribe ==
    /\ stream.pc = "subscribe"
    /\ stream' = [stream EXCEPT !.pc = "read"]
    /\ UNCHANGED <<check, wire, reqs, hook, drops>>

\* get_events_after: every event behind the cursor is sent; a terminal one is
\* the last.
ReadEvents ==
    LET new == [i \in 1..(Len(log) - stream.cursor) |-> stream.cursor + i] IN
    /\ stream.pc = "read"
    /\ IF stream.cursor >= Len(log)
       THEN stream' = [stream EXCEPT !.pc = "status"] /\ UNCHANGED wire
       ELSE /\ wire' = wire \o new
            /\ stream' = [stream EXCEPT !.cursor = Len(log),
                                        !.pc = IF IsTerminal(Len(log)) THEN "ended" ELSE "read"]
    /\ UNCHANGED <<check, reqs, hook, drops>>

\* get_check answers with the object loaded at the start.
TestStatus ==
    /\ stream.pc = "status"
    /\ stream' = [stream EXCEPT !.pc = IF stream.seen \in TerminalStatuses THEN "ended" ELSE "wait"]
    /\ UNCHANGED <<check, wire, reqs, hook, drops>>

\* The live event is sent; the cursor stays, so that the next poll may send
\* the event once more.
TakeLive ==
    LET n == Head(stream.queue) IN
    /\ stream.pc = "wait" /\ stream.queue # <<>>
    /\ wire' = Append(wire, n)
    /\ stream' = [stream EXCEPT !.queue = Tail(@),
                                !.pc = IF IsTerminal(n) THEN "ended" ELSE "read"]
    /\ UNCHANGED <<check, reqs, hook, drops>>

PollAgain ==
    /\ stream.pc = "wait"
    /\ stream' = [stream EXCEPT !.pc = "read"]
    /\ UNCHANGED <<check, wire, reqs, hook, drops>>

-----------------------------------------------------------------------------
(* GET /api/sop-quality-checks/{check_id}: two statements, two snapshots *)

ReadStatus(q) ==
    /\ q.stage = "sent"
    /\ reqs' = (reqs \ {q}) \cup {[q EXCEPT !.stage = "half", !.status = status]}
    /\ UNCHANGED <<check, server, hook, drops>>

ReadLatestSequence(q) ==
    /\ q.stage = "half"
    /\ reqs' = (reqs \ {q}) \cup {[q EXCEPT !.stage = "answered", !.seq = Len(log)]}
    /\ UNCHANGED <<check, server, hook, drops>>

-----------------------------------------------------------------------------
(* useSopQualityCheck *)

\* refreshDetail makes a request and with it every earlier one stale.
Refresh == {[q EXCEPT !.rank = "stale"] : q \in reqs} \cup {NewRequest}

\* A message, an error or an answer counts only while its source is current.
Current == hook.source = "open" /\ hook.terminal = "no"

ApplyDetail(q) ==
    /\ q.stage = "answered"
    /\ reqs' = reqs \ {q}
    /\ hook' = IF q.rank = "stale" THEN hook
               ELSE [hook EXCEPT !.cursor = q.seq, !.detail = q.status, !.shown = Running(q.status),
                         !.terminal = IF q.status \in TerminalStatuses THEN "yes" ELSE "no",
                         !.effect = "due"]
    /\ UNCHANGED <<check, server, drops>>

\* The error is shown; nothing else changes.
DetailFails(q) ==
    /\ "net" \in Faults
    /\ reqs' = reqs \ {q}
    /\ hook' = IF q.rank = "stale" THEN hook ELSE [hook EXCEPT !.error = "yes"]
    /\ UNCHANGED <<check, server, drops>>

\* Mutant: only what comes after the connection is streamed.
ConnectWithoutReplay ==
    /\ stream' = [NoStream EXCEPT !.pc = "load", !.cursor = Len(log)]
    /\ wire' = <<>>

\* A new connection of the browser; the service forgets the old one.
Connect ==
    /\ stream' = [NoStream EXCEPT !.pc = "load", !.cursor = hook.cursor]
    /\ wire' = <<>>

\* The effect of a new detail: the old source is closed, and a new one opened
\* unless the check has ended.
RunEffect ==
    /\ hook.effect = "due"
    /\ IF hook.detail \in TerminalStatuses \/ hook.terminal = "yes"
       THEN /\ hook' = [hook EXCEPT !.effect = "clean", !.source = "none"]
            /\ stream' = NoStream /\ wire' = <<>>
       ELSE /\ hook' = [hook EXCEPT !.effect = "clean", !.source = "open"]
            /\ Connect
    /\ UNCHANGED <<check, reqs, drops>>

\* Mutant: the cursor follows the last event.
NextCursorLast(cursor, n) == n

NextCursor(cursor, n) == Max({cursor, n})

\* handleCheckMessage.
Receive ==
    LET n == Head(wire) IN
    /\ hook.source = "open" /\ wire # <<>>
    /\ IF ~Current
       THEN wire' = Tail(wire) /\ UNCHANGED <<stream, hook, reqs>>
       ELSE IF IsTerminal(n)
       THEN /\ hook' = [hook EXCEPT !.cursor = NextCursor(@, n), !.terminal = "yes",
                            !.shown = "ended", !.source = "none", !.error = "no"]
            /\ reqs' = Refresh
            /\ stream' = NoStream /\ wire' = <<>>
       ELSE /\ hook' = [hook EXCEPT !.cursor = NextCursor(@, n),
                            !.shown = IF log[n] = "started" THEN "running" ELSE @,
                            !.error = IF log[n] = "checkpoint" THEN "no" ELSE @]
            /\ reqs' = IF log[n] = "checkpoint" THEN Refresh ELSE reqs
            /\ wire' = Tail(wire) /\ UNCHANGED stream
    /\ UNCHANGED <<check, drops>>

\* The service has ended the stream, or the network has lost it: the browser
\* reports an error and the hook tries again later.
SourceError ==
    /\ Current
    /\ \/ stream.pc = "ended" /\ wire = <<>> /\ UNCHANGED drops
       \/ drops < MaxDrops /\ drops' = drops + 1
    /\ hook' = [hook EXCEPT !.source = "retry"]
    /\ stream' = NoStream /\ wire' = <<>>
    /\ UNCHANGED <<check, reqs>>

\* Mutant: the timer of the hook is lost.
ReconnectGivesUp ==
    /\ hook.source = "retry"
    /\ hook' = [hook EXCEPT !.source = "none"]
    /\ UNCHANGED <<check, server, reqs, drops>>

Reconnect ==
    /\ hook.source = "retry"
    /\ IF hook.terminal = "yes" THEN /\ hook' = [hook EXCEPT !.source = "none"]
                                     /\ UNCHANGED server
                                ELSE /\ hook' = [hook EXCEPT !.source = "open"]
                                     /\ Connect
    /\ UNCHANGED <<check, reqs, drops>>

-----------------------------------------------------------------------------

RunnerStep == Started \/ Checkpointed \/ Completed \/ Failed \/ Publish
ServerStep == LoadCheck \/ Subscribe \/ ReadEvents \/ TestStatus \/ TakeLive \/ PollAgain
DetailStep == \E q \in reqs : ReadStatus(q) \/ ReadLatestSequence(q) \/ ApplyDetail(q)
HookStep   == RunEffect \/ Receive \/ SourceError \/ Reconnect

Next == \/ RunnerStep \/ Restart \/ ServerStep \/ DetailStep \/ HookStep
        \/ \E q \in reqs : DetailFails(q)

Spec == Init /\ [][Next]_vars

\* The event loop and the browser never stop: streams poll, requests are
\* answered, messages arrive, timers fire.  The check need not make progress.
Fairness ==
    /\ WF_vars(ServerStep) /\ WF_vars(DetailStep)
    /\ WF_vars(RunEffect) /\ WF_vars(Receive) /\ WF_vars(SourceError) /\ WF_vars(Reconnect)

FairSpec == Spec /\ Fairness

-----------------------------------------------------------------------------
(* Properties *)

\* The shape of the variables.
TypeOK ==
    /\ status \in Statuses
    /\ log \in Seq(EventTypes)
    /\ published \in 0..Len(log)
    /\ stream \in Stream
    /\ wire \in Seq(1..Len(log))
    /\ reqs \in SUBSET Request
    /\ hook \in Hook
    /\ drops \in 0..MaxDrops

\* Replay and live events together leave no gap: although the two overlap,
\* repeat events and survive lost connections, the next event a browser
\* handles is at most one beyond its cursor.
NoGap == Current /\ wire # <<>> => Head(wire) <= hook.cursor + 1

\* What the browser knows is never undone by repeated events or by late answers of
\* the detail endpoint: the cursor it reconnects with never goes back, and a check
\* that has been shown as ended is never shown as running again.
ViewNeverGoesBack ==
    [][hook'.cursor >= hook.cursor /\ (hook.shown = "ended" => hook'.shown = "ended")]_vars

\* The browser has the end of the log as its cursor without knowing of it: no
\* stream will send it that event.
Unaware == /\ status \in TerminalStatuses
           /\ hook.cursor = Len(log) /\ hook.shown = "running"

\* Once a check has ended, its observer shows that, or an error, or has got stuck
\* behind a detail that paired an old status with the sequence of the last event.
EndIsShownOrStuck ==
    status \in TerminalStatuses ~> hook.shown = "ended" \/ hook.error = "yes" \/ Unaware

-----------------------------------------------------------------------------
(* The inductive invariant behind the safety properties *)

\* The log is created, started, checkpoint and an end, cut short by a failure or
\* a restart, and the status tells whether it has its end.
LogInv ==
    /\ log # <<>> /\ Len(log) <= published + 1
    /\ status = "pending" => Len(log) = 1
    /\ \A i \in DOMAIN log :
          /\ log[i] = "created" => i = 1
          /\ log[i] = "started" => i = 2
          /\ log[i] = "checkpoint" => i = 3
          /\ log[i] \in TerminalEvents => status \in TerminalStatuses

\* Nobody is ahead of the log and the status.
BoundInv ==
    /\ \A i \in DOMAIN stream.queue : stream.queue[i] \in 1..Len(log)
    /\ \A q \in reqs :
          q.seq <= Len(log) /\ (q.status \in TerminalStatuses => status \in TerminalStatuses)
    /\ hook.cursor <= Len(log)

\* The hook opens a source only for a detail, and the ref of the end agrees with
\* what is shown.
HookInv ==
    /\ hook.detail = "none" => hook.source = "none" /\ hook.effect = "clean"
    /\ hook.terminal = "yes" <=> hook.shown = "ended"
    /\ hook.shown = "ended" => status \in TerminalStatuses

\* The request whose answer counts is one; it will tell no less than the browser
\* knows.  One that is under way while events arrive was made at the checkpoint
\* or at the end, after which no event comes that does not make another.
DetailInv ==
    \A q \in reqs : q.rank = "latest" =>
        /\ \A r \in reqs : r.rank = "latest" => r = q
        /\ q.stage = "answered" => q.seq >= hook.cursor
        /\ q.stage # "sent" /\ hook.shown = "ended" => q.status \in TerminalStatuses
        /\ hook.detail = "none" \/ hook.cursor >= 3 \/ hook.terminal = "yes"

\* With cursor c and wire w, event n is at most one beyond what comes before it.
Joins(w, c, n) == n <= c + 1 \/ \E j \in DOMAIN w : n <= w[j] + 1

\* So is every event on the wire, after the ones before it.
Gapless(w, c) ==
    \A i \in DOMAIN w : w[i] <= c + 1 \/ \E j \in 1..(i - 1) : w[i] <= w[j] + 1

\* The same holds of the next event that the stream would read, and of the next
\* one that it would take from the queue: what is in the queue while the stream
\* waits was published after everything before had been read.
StreamInv ==
    hook.terminal = "no" =>
        /\ Gapless(wire, hook.cursor)
        /\ Joins(wire, hook.cursor, stream.cursor + 1)
        /\ stream.pc \in {"status", "wait"} =>
              Joins(wire, hook.cursor,
                    IF stream.queue = <<>> THEN published + 1 ELSE Head(stream.queue))

ObserverInv == TypeOK /\ LogInv /\ BoundInv /\ HookInv /\ DetailInv /\ StreamInv

=============================================================================
