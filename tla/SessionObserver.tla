-------------------------- MODULE SessionObserver --------------------------
(***************************************************************************)
(* The transcript of one session on its way to a browser: the writer that  *)
(* commits a message per graph step and publishes it                       *)
(* (app/services/session_messages.py), the token deltas of the agent       *)
(* (app/core/agent_streaming.py), the stream of the service                *)
(* (app/services/sessions.py), and the hook useSessionStream with its      *)
(* reducer (frontend/src/features/sessions/).                              *)
(*                                                                         *)
(* Every step of the graph writes one message, so that the n-th step has   *)
(* the message with sequence n.                                            *)
(***************************************************************************)
EXTENDS Naturals, Sequences, FiniteSetsExt

CONSTANTS
    Steps,      \* number of graph steps
    AgentSteps, \* the steps that an agent streams
    MaxDeltas,  \* bound on the deltas of the session
    MaxDrops,   \* bound on the connections the network loses
    MaxMounts,  \* bound on the times a component shows the session
    Faults      \* subset of {"net"}: the request for the messages may fail

ASSUME StepsAssumption  == Steps \in Nat /\ AgentSteps \subseteq 1..Steps
ASSUME BoundsAssumption == MaxDeltas \in Nat /\ MaxDrops \in Nat /\ MaxMounts \in Nat
ASSUME NetAssumption    == Faults \subseteq {"net"}

VARIABLES
    status,     \* of the session, committed
    committed,  \* number of committed messages
    published,  \* number of messages handed to the broadcast
    runner,     \* "works", or "gone" with its process
    deltas,     \* deltas published so far
    stream,     \* the service's side of the connection
    wire,       \* events on their way to the browser
    reqs,       \* requests for the messages on their way
    hook,       \* state and refs of the hook
    drops, mounts,
    overtaken   \* history: the steps whose message was sent before their last delta

session == <<status, committed, published, runner, deltas>>
server  == <<stream, wire>>
vars    == <<session, server, reqs, hook, drops, mounts, overtaken>>

-----------------------------------------------------------------------------
(* Data *)

TerminalSessionStatuses == {"completed", "failed", "interrupted"}
Statuses == {"active"} \cup TerminalSessionStatuses

\* n is the sequence of a message, the step of a delta, 0 for the end.
Event == [type : {"message", "delta", "thinking", "end"}, n : Nat]

Message(n) == [type |-> "message", n |-> n]

\* seen: the status of the session object that the stream holds on to.
Stream == [pc : {"none", "subscribe", "read", "status", "wait", "ended"},
           seen : Statuses \cup {"none"}, cursor : Nat, queue : Seq(Event)]

NoStream == [pc |-> "none", seen |-> "none", cursor |-> 0, queue |-> <<>>]

\* A request whose component has left is cancelled.
Request == [rank : {"current", "cancelled"}, stage : {"sent", "answered"}, upto : Nat]

\* messages are the sequences shown, in the order shown; buffers the steps with
\* live text; thinking those that have shown the marker.
Hook == [phase : {"idle", "hydrating", "streaming", "retry", "closed", "error"},
         cursor : Nat, messages : Seq(Nat), buffers : SUBSET Nat, thinking : SUBSET Nat]

NoHook == [phase |-> "idle", cursor |-> 0, messages |-> <<>>, buffers |-> {}, thinking |-> {}]

UpTo(n) == [i \in 1..n |-> i]

Init ==
    /\ status = "active" /\ committed = 0 /\ published = 0
    /\ runner = "works" /\ deltas = 0
    /\ stream = NoStream /\ wire = <<>>
    /\ reqs = {} /\ hook = NoHook
    /\ drops = 0 /\ mounts = 0 /\ overtaken = {}

-----------------------------------------------------------------------------
(* The runner *)

Subscribed == stream.pc \in {"read", "status", "wait"}

\* SessionBroadcast.publish: into the queue of whoever has subscribed.
Publish(e) == stream' = IF Subscribed THEN [stream EXCEPT !.queue = Append(@, e)] ELSE stream

Works == runner = "works" /\ status = "active" /\ published = committed

\* append_step_message: the message is committed first.
WriteMessage ==
    /\ Works /\ committed < Steps
    /\ committed' = committed + 1
    /\ UNCHANGED <<status, published, runner, deltas, server, reqs, hook, drops, mounts, overtaken>>

PublishMessage ==
    /\ runner = "works" /\ published < committed
    /\ published' = published + 1
    /\ Publish(Message(published + 1))
    /\ UNCHANGED <<status, committed, runner, deltas, wire, reqs, hook, drops, mounts, overtaken>>

\* The agent of the step at work streams a token, or shows that it thinks.
PublishDelta(type) ==
    /\ Works /\ committed + 1 \in AgentSteps
    /\ deltas < MaxDeltas
    /\ deltas' = deltas + 1
    /\ Publish([type |-> type, n |-> committed + 1])
    /\ UNCHANGED <<status, committed, published, runner, wire, reqs, hook, drops, mounts, overtaken>>

\* The end of the check sets the status; nobody publishes that.
Finish(final) ==
    /\ Works /\ (final = "completed" => committed = Steps)
    /\ status' = final
    /\ UNCHANGED <<committed, published, runner, deltas, server, reqs, hook, drops, mounts, overtaken>>

\* The process ends: the runner is gone, the streams break, and the session
\* stays active (see CheckLifecycle!SessionFollowsCheck).
Restart ==
    /\ runner = "works" /\ status = "active"
    /\ runner' = "gone"
    /\ stream' = IF stream.pc = "none" THEN stream ELSE [stream EXCEPT !.pc = "ended"]
    /\ UNCHANGED <<status, committed, published, deltas, wire, reqs, hook, drops, mounts, overtaken>>

-----------------------------------------------------------------------------
(* stream_events *)

Subscribe ==
    /\ stream.pc = "subscribe"
    /\ stream' = [stream EXCEPT !.pc = "read"]
    /\ UNCHANGED <<session, wire, reqs, hook, drops, mounts, overtaken>>

\* get_messages_after: all messages behind the cursor are sent.
ReadMessages ==
    /\ stream.pc = "read"
    /\ IF stream.cursor >= committed
       THEN stream' = [stream EXCEPT !.pc = "status"] /\ UNCHANGED wire
       ELSE /\ wire' = wire \o [i \in 1..(committed - stream.cursor) |-> Message(stream.cursor + i)]
            /\ stream' = [stream EXCEPT !.cursor = committed]
    /\ UNCHANGED <<session, reqs, hook, drops, mounts, overtaken>>

\* get_session: the first answer stays in the local variable, hence in the
\* identity map, and every later call returns that object as it was read.
TestStatus ==
    LET seen == IF stream.seen = "none" THEN status ELSE stream.seen IN
    /\ stream.pc = "status"
    /\ IF seen \in TerminalSessionStatuses
       THEN /\ wire' = Append(wire, [type |-> "end", n |-> 0])
            /\ stream' = [stream EXCEPT !.pc = "ended", !.seen = seen]
       ELSE /\ stream' = [stream EXCEPT !.pc = "wait", !.seen = seen]
            /\ UNCHANGED wire
    /\ UNCHANGED <<session, reqs, hook, drops, mounts, overtaken>>

\* message_event_sequence: a live message advances the cursor, a delta does not.
TakeLive ==
    LET e == Head(stream.queue) IN
    /\ stream.pc = "wait" /\ stream.queue # <<>>
    /\ wire' = Append(wire, e)
    /\ stream' = [stream EXCEPT !.pc = "read", !.queue = Tail(@),
                                !.cursor = IF e.type = "message" THEN Max({@, e.n}) ELSE @]
    /\ overtaken' = IF e.type = "delta" /\ e.n <= stream.cursor THEN overtaken \cup {e.n}
                  ELSE overtaken
    /\ UNCHANGED <<session, reqs, hook, drops, mounts>>

PollAgain ==
    /\ stream.pc = "wait"
    /\ stream' = [stream EXCEPT !.pc = "read"]
    /\ UNCHANGED <<session, wire, reqs, hook, drops, mounts, overtaken>>

-----------------------------------------------------------------------------
(* useSessionStream *)

\* The component starts to show the session and asks for its messages.
Mount ==
    /\ hook.phase = "idle" /\ mounts < MaxMounts
    /\ mounts' = mounts + 1
    /\ hook' = [NoHook EXCEPT !.phase = "hydrating"]
    /\ reqs' = reqs \cup {[rank |-> "current", stage |-> "sent", upto |-> 0]}
    /\ UNCHANGED <<session, server, drops, overtaken>>

\* The clean-up of both effects, and the reset for another session.
Unmount ==
    /\ hook.phase # "idle"
    /\ hook' = NoHook
    /\ reqs' = {[q EXCEPT !.rank = "cancelled"] : q \in reqs}
    /\ stream' = NoStream /\ wire' = <<>>
    /\ UNCHANGED <<session, drops, mounts, overtaken>>

ListMessages(q) ==
    /\ q.stage = "sent"
    /\ reqs' = (reqs \ {q}) \cup {[q EXCEPT !.stage = "answered", !.upto = committed]}
    /\ UNCHANGED <<session, server, hook, drops, mounts, overtaken>>

Connect(cursor) ==
    /\ stream' = [NoStream EXCEPT !.pc = "subscribe", !.cursor = cursor]
    /\ wire' = <<>>

\* hydrateSessionViewState; the second effect then opens the stream.
Hydrate(q) ==
    /\ q.stage = "answered"
    /\ reqs' = reqs \ {q}
    /\ IF q.rank = "cancelled" THEN UNCHANGED <<hook, server>>
       ELSE /\ hook' = [hook EXCEPT !.phase = "streaming", !.cursor = q.upto,
                                    !.messages = UpTo(q.upto)]
            /\ Connect(q.upto)
    /\ UNCHANGED <<session, drops, mounts, overtaken>>

\* The error is shown; there is no second attempt.
HydrateFails(q) ==
    /\ "net" \in Faults
    /\ reqs' = reqs \ {q}
    /\ hook' = IF q.rank = "cancelled" THEN hook ELSE [hook EXCEPT !.phase = "error"]
    /\ UNCHANGED <<session, server, drops, mounts, overtaken>>

\* Mutant: a repeated message is shown again.
ReduceRepeats(h, e) ==
    [h EXCEPT !.messages = IF e.type = "message" THEN Append(@, e.n) ELSE @,
              !.buffers  = IF e.type = "delta" THEN @ \cup {e.n} ELSE @ \ {e.n},
              !.thinking = IF e.type = "thinking" THEN @ \cup {e.n} ELSE @]

\* reduceSessionStreamEvent: a message replaces the live text of its step, but
\* one that is known already changes nothing.
Reduce(h, e) ==
    IF e.type = "message" /\ \E i \in DOMAIN h.messages : h.messages[i] = e.n THEN h
    ELSE [h EXCEPT !.messages = IF e.type = "message" THEN Append(@, e.n) ELSE @,
                   !.buffers  = CASE e.type = "message" -> @ \ {e.n}
                                  [] e.type = "delta" -> @ \cup {e.n}
                                  [] OTHER -> @,
                   !.thinking = IF e.type = "thinking" THEN @ \cup {e.n} ELSE @]

\* The listeners: onmessage and the named listener both take a message event.
Receive ==
    LET e    == Head(wire)
        once == Reduce(hook, e)
    IN
    /\ hook.phase = "streaming" /\ wire # <<>>
    /\ IF e.type = "end"
       THEN /\ hook' = [hook EXCEPT !.phase = "closed"]
            /\ stream' = NoStream /\ wire' = <<>>
       ELSE /\ hook' = IF e.type = "message"
                       THEN [Reduce(once, e) EXCEPT !.cursor = Max({@, e.n})]
                       ELSE once
            /\ wire' = Tail(wire)
            /\ UNCHANGED stream
    /\ UNCHANGED <<session, reqs, drops, mounts, overtaken>>

\* The stream has ended or the network has lost it.
SourceError ==
    /\ hook.phase = "streaming"
    /\ \/ stream.pc = "ended" /\ wire = <<>> /\ UNCHANGED drops
       \/ drops < MaxDrops /\ drops' = drops + 1
    /\ hook' = [hook EXCEPT !.phase = "retry"]
    /\ stream' = NoStream /\ wire' = <<>>
    /\ UNCHANGED <<session, reqs, mounts, overtaken>>

\* Mutant: the timer fires, and no new source is opened.
ReconnectToNothing ==
    /\ hook.phase = "retry"
    /\ hook' = [hook EXCEPT !.phase = "streaming"]
    /\ UNCHANGED <<session, server, reqs, drops, mounts, overtaken>>

Reconnect ==
    /\ hook.phase = "retry"
    /\ hook' = [hook EXCEPT !.phase = "streaming"]
    /\ Connect(hook.cursor)
    /\ UNCHANGED <<session, reqs, drops, mounts, overtaken>>

-----------------------------------------------------------------------------
(* The view: effectiveState and projectSessionStateToSopView. While the session is
   followed its check is running; ORDERED_STEPS is the order of the steps. *)

Stored(h) == {h.messages[i] : i \in DOMAIN h.messages}
Seen(h)   == Stored(h) \cup h.buffers \cup h.thinking

\* Mutant: the step at work is the last that has a message.
LastSeenStored(h) == Max(Stored(h) \cup {0})

\* The step at work: the last with the thinking marker, which nothing clears; else the
\* last with live text; else the last message.
LastSeen(h) == IF h.thinking # {} THEN Max(h.thinking)
               ELSE IF h.buffers # {} THEN Max(h.buffers)
               ELSE Max(Stored(h) \cup {0})

\* The text of a step: live text is only shown for the step at work.
Text(h, n) == IF n = LastSeen(h) /\ n \in h.buffers THEN "live"
              ELSE IF n \in Stored(h) THEN "whole"
              ELSE "none"

Status(h, n) == IF n = LastSeen(h) THEN "running" ELSE "done"

-----------------------------------------------------------------------------

RunnerStep == \/ WriteMessage \/ PublishMessage
              \/ \E type \in {"delta", "thinking"} : PublishDelta(type)
              \/ \E final \in {"completed", "failed"} : Finish(final)
ServerStep == Subscribe \/ ReadMessages \/ TestStatus \/ TakeLive \/ PollAgain
Hydration  == \E q \in reqs : ListMessages(q) \/ Hydrate(q)

Next == \/ RunnerStep \/ Restart \/ ServerStep \/ Hydration
        \/ Mount \/ Unmount \/ Receive \/ SourceError \/ Reconnect
        \/ \E q \in reqs : HydrateFails(q)

Spec == Init /\ [][Next]_vars

\* The event loop and the browser go on; the runner and the user need not.
Fairness == /\ WF_vars(ServerStep) /\ WF_vars(Hydration)
            /\ WF_vars(Receive) /\ WF_vars(SourceError) /\ WF_vars(Reconnect)

FairSpec == Spec /\ Fairness

-----------------------------------------------------------------------------
(* Properties *)

\* The shape of the variables.
TypeOK ==
    /\ status \in Statuses /\ committed \in 0..Steps /\ published \in 0..committed
    /\ runner \in {"works", "gone"} /\ deltas \in 0..MaxDeltas
    /\ stream \in Stream /\ wire \in Seq(Event)
    /\ reqs \in SUBSET Request /\ hook \in Hook
    /\ drops \in 0..MaxDrops /\ mounts \in 0..MaxMounts
    /\ overtaken \subseteq AgentSteps

\* The transcript in the browser is a prefix of the committed one, each message
\* once and in order, and the cursor is its end: whatever replay, live events,
\* doubled listeners and reconnections repeat.
TranscriptInOrder ==
    /\ hook.messages = UpTo(Len(hook.messages))
    /\ Len(hook.messages) <= committed
    /\ hook.cursor = Len(hook.messages)

\* Every committed message reaches a browser that follows the session, unless
\* the browser leaves, is told that the session has ended, or shows an error.
MessagesAreShown ==
    \A n \in 1..Steps :
        committed >= n /\ hook.phase \in {"hydrating", "streaming", "retry"}
            ~> Len(hook.messages) >= n \/ hook.phase \in {"idle", "closed", "error"}

\* A step that is shown as done has its whole text, and so has every step whose message
\* has come: docs/frontend.md has live text discarded "when the matching persisted
\* message arrives". The exception are deltas that the service sends after the message:
\* it reads the table again before each event of its queue.
DoneIsWhole ==
    \A n \in Seen(hook) :
        Status(hook, n) = "done" \/ n \in Stored(hook) \ overtaken => Text(hook, n) = "whole"

-----------------------------------------------------------------------------
(* The inductive invariant behind the safety properties *)

\* In the code one step of the graph, review_sop, is an agent's.
OneAgentStep == \A m, n \in AgentSteps : m = n

\* Without a stream nothing is on the wire; a hook that has not got its messages
\* yet is blank, and has the one request that counts.
HookInv ==
    /\ stream.pc = "none" => stream = NoStream /\ wire = <<>>
    /\ hook.phase \in {"idle", "hydrating"} => hook = [NoHook EXCEPT !.phase = hook.phase]
    /\ hook.phase = "idle" => stream.pc = "none"
    /\ \A q \in reqs : q.upto <= committed
    /\ \A q \in reqs : q.rank = "current" =>
          hook.phase = "hydrating" /\ \A r \in reqs : r.rank = "current" => r = q

\* What a queue or a wire holds: committed messages and the agent's events.
Proper(e, last) ==
    /\ e.type = "message" => e.n \in 1..last
    /\ e.type \in {"delta", "thinking"} => e.n \in AgentSteps

\* Everything is behind the stream's cursor, and that behind the table.
CursorInv ==
    /\ \A i \in DOMAIN stream.queue : Proper(stream.queue[i], committed)
    /\ \A i \in DOMAIN wire : Proper(wire[i], committed)
    /\ stream.pc # "none" => hook.cursor <= stream.cursor /\ stream.cursor <= committed
    /\ \A i \in DOMAIN wire : wire[i].type = "message" => wire[i].n <= stream.cursor

\* With cursor c and wire w, message n is at most one beyond what comes before it.
Joins(w, c, n) ==
    n <= c + 1 \/ \E j \in DOMAIN w : w[j].type = "message" /\ n <= w[j].n + 1

\* So is every message on the wire, after the ones before it.
Gapless(w, c) ==
    \A i \in DOMAIN w : w[i].type = "message" =>
        w[i].n <= c + 1 \/ \E j \in 1..(i - 1) : w[j].type = "message" /\ w[i].n <= w[j].n + 1

\* The same holds of the message that the stream would read next, and of the one
\* that it would take from its queue.
StreamInv ==
    /\ Gapless(wire, hook.cursor)
    /\ stream.pc # "none" => Joins(wire, hook.cursor, stream.cursor + 1)
    /\ stream.pc \in {"status", "wait"} =>
          IF stream.queue = <<>> THEN Joins(wire, hook.cursor, published + 1)
          ELSE Head(stream.queue).type = "message" =>
                 Joins(wire, hook.cursor, Head(stream.queue).n)

\* The i-th event on the wire comes after the message of its step.
Late(w, c, i) ==
    w[i].n <= c \/ \E j \in 1..(i - 1) : w[j].type = "message" /\ w[i].n <= w[j].n

\* Live text that is shown or on its way although the message has come is overtaken.
LiveInv ==
    /\ \A i \in DOMAIN wire :
          wire[i].type = "delta" /\ Late(wire, hook.cursor, i) => wire[i].n \in overtaken
    /\ \A n \in hook.buffers : n <= hook.cursor => n \in overtaken
    /\ hook.buffers \cup hook.thinking \subseteq AgentSteps

TranscriptInv ==
    TypeOK /\ TranscriptInOrder /\ HookInv /\ CursorInv /\ StreamInv /\ LiveInv

=============================================================================
