----------------------- MODULE SessionObserver_proofs -----------------------
(***************************************************************************)
(* Theorems about SessionObserver: for any number of steps, deltas, mounts *)
(* and lost connections the transcript in the browser is a prefix of the   *)
(* committed one, and what it shows as done is whole.                      *)
(***************************************************************************)
EXTENDS SessionObserver, TLAPS

-----------------------------------------------------------------------------
(* Operators *)

\* A cursor that takes a message moves to the later of the two.
LEMMA MaxIs ==
    ASSUME NEW c \in Nat, NEW n \in Nat
    PROVE  Max({c, n}) = IF n <= c THEN c ELSE n
<1>1. \E x \in {c, n} : \A y \in {c, n} : x >= y
  <2>1. CASE c >= n  BY <2>1
  <2>2. CASE n >= c  BY <2>2
  <2> QED  BY <2>1, <2>2
<1> DEFINE P(x) == x \in {c, n} /\ \A y \in {c, n} : x >= y
<1>2. P(CHOOSE x \in {c, n} : \A y \in {c, n} : x >= y)
  BY <1>1
<1> QED  BY <1>2 DEF Max

\* The transcript up to a message.
LEMMA UpToIs ==
    ASSUME NEW n \in Nat
    PROVE  /\ UpTo(n) \in Seq(Nat) /\ Len(UpTo(n)) = n /\ DOMAIN UpTo(n) = 1..n
           /\ \A i \in 1..n : UpTo(n)[i] = i
           /\ Append(UpTo(n), n + 1) = UpTo(n + 1)
<1>1. UpTo(n) \in Seq(Nat) /\ Len(UpTo(n)) = n  BY DEF UpTo
<1>2. Append(UpTo(n), n + 1) = UpTo(n + 1)
  <2>1. UpTo(n + 1) \in Seq(Nat) /\ Len(UpTo(n + 1)) = n + 1  BY DEF UpTo
  <2>2. Append(UpTo(n), n + 1) \in Seq(Nat) /\ Len(Append(UpTo(n), n + 1)) = n + 1
    BY <1>1
  <2>3. \A i \in 1..(n + 1) : Append(UpTo(n), n + 1)[i] = UpTo(n + 1)[i]
    BY <1>1 DEF UpTo
  <2> QED  BY <2>1, <2>2, <2>3
<1> QED  BY <1>1, <1>2 DEF UpTo

\* A queue into which another event is put.
LEMMA AppendIs ==
    ASSUME NEW S, NEW q \in Seq(S), NEW e \in S
    PROVE  /\ Append(q, e) \in Seq(S) /\ Append(q, e) # <<>>
           /\ Head(Append(q, e)) = IF q = <<>> THEN e ELSE Head(q)
           /\ \A i \in DOMAIN Append(q, e) :
                 Append(q, e)[i] = e \/ (i \in DOMAIN q /\ Append(q, e)[i] = q[i])
<1>1. Append(q, e) \in Seq(S) /\ Len(Append(q, e)) = Len(q) + 1 /\ Len(q) \in Nat
  OBVIOUS
<1>2. \A i \in 1..Len(q) : Append(q, e)[i] = q[i]  OBVIOUS
<1>3. Append(q, e)[Len(q) + 1] = e  OBVIOUS
<1>4. Append(q, e) # <<>> /\ Head(Append(q, e)) = Append(q, e)[1]  BY <1>1
<1>5. Head(Append(q, e)) = IF q = <<>> THEN e ELSE Head(q)
  <2>1. CASE q = <<>>  BY <1>3, <1>4, <2>1
  <2>2. CASE q # <<>>
    <3>1. 1 \in 1..Len(q) /\ Head(q) = q[1]  BY <2>2
    <3> QED  BY <1>2, <1>4, <2>2, <3>1
  <2> QED  BY <2>1, <2>2
<1> QED  BY <1>1, <1>2, <1>3, <1>4, <1>5

\* Nothing on the wire leaves no gap.
LEMMA GaplessEmpty ==
    ASSUME NEW c \in Nat
    PROVE  Gapless(<<>>, c) /\ Joins(<<>>, c, c + 1)
  BY DEF Gapless, Joins

\* An earlier message joins where a later one does.
LEMMA JoinsEarlier ==
    ASSUME NEW w \in Seq(Event), NEW c \in Nat, NEW n \in Nat, NEW m \in Nat,
           m <= n, Joins(w, c, n)
    PROVE  Joins(w, c, m)
<1>1. \A j \in DOMAIN w : w[j] \in Event  OBVIOUS
<1>2. \A j \in DOMAIN w : w[j].n \in Nat  BY <1>1 DEF Event
<1> QED  BY <1>2 DEF Joins

\* An event is added that joins if it is a message.
LEMMA GaplessAppend ==
    ASSUME NEW w \in Seq(Event), NEW c \in Nat, NEW e \in Event,
           e.type = "message" => Joins(w, c, e.n)
    PROVE  /\ Gapless(w, c) => Gapless(Append(w, e), c)
           /\ \A m \in Nat : Joins(w, c, m) => Joins(Append(w, e), c, m)
           /\ e.type = "message" => Joins(Append(w, e), c, e.n + 1)
           /\ DOMAIN Append(w, e) = 1..(Len(w) + 1) /\ DOMAIN w = 1..Len(w) /\ Len(w) \in Nat
           /\ \A i \in 1..Len(w) : Append(w, e)[i] = w[i]
           /\ Append(w, e)[Len(w) + 1] = e
<1> DEFINE v == Append(w, e)
<1>1. /\ DOMAIN v = 1..(Len(w) + 1) /\ DOMAIN w = 1..Len(w) /\ Len(w) \in Nat
      /\ \A i \in 1..Len(w) : v[i] = w[i]
      /\ v[Len(w) + 1] = e /\ e.n \in Nat
  BY DEF Event
<1> HIDE DEF v
<1>2. ASSUME Gapless(w, c), NEW i \in DOMAIN v, v[i].type = "message"
      PROVE  v[i].n <= c + 1
             \/ \E j \in 1..(i - 1) : v[j].type = "message" /\ v[i].n <= v[j].n + 1
  <2>1. CASE i \in 1..Len(w)
    <3>1. w[i].n <= c + 1 \/ \E j \in 1..(i - 1) : w[j].type = "message" /\ w[i].n <= w[j].n + 1
      BY <1>1, <1>2, <2>1 DEF Gapless
    <3>2. \A j \in 1..(i - 1) : v[j] = w[j]  BY <1>1, <2>1
    <3> QED  BY <1>1, <2>1, <3>1, <3>2
  <2>2. CASE i = Len(w) + 1
    <3>1. Joins(w, c, e.n) /\ v[i] = e /\ i - 1 = Len(w)  BY <1>1, <1>2, <2>2
    <3> QED  BY <1>1, <3>1 DEF Joins
  <2> QED  BY <1>1, <1>2, <2>1, <2>2
<1>3. \A m \in Nat : Joins(w, c, m) => Joins(v, c, m)  BY <1>1 DEF Joins
<1>4. e.type = "message" => Joins(v, c, e.n + 1)
  <2>1. Len(w) + 1 \in DOMAIN v /\ e.n + 1 <= v[Len(w) + 1].n + 1  BY <1>1
  <2> QED  BY <1>1, <2>1 DEF Joins
<1> QED  BY <1>1, <1>2, <1>3, <1>4 DEF Gapless, v

\* The run of the k messages after m.
LEMMA MessageRun ==
    ASSUME NEW m \in Nat, NEW k \in Nat
    PROVE  \E new \in Seq(Event) :
              /\ new = [i \in 1..k |-> Message(m + i)] /\ Len(new) = k
              /\ \A i \in 1..k : new[i] = Message(m + i)
<1> DEFINE new == [i \in 1..k |-> Message(m + i)]
<1>1. \A i \in 1..k : Message(m + i) \in Event  BY DEF Message, Event
<1>2. new \in [1..k -> Event]  BY <1>1
<1>3. new \in Seq(Event)  BY <1>2
<1>4. Len(new) = k  BY <1>2
<1> QED  BY <1>3, <1>4

\* Two sequences of events joined.
LEMMA Joined ==
    ASSUME NEW w \in Seq(Event), NEW u \in Seq(Event)
    PROVE  w \o u \in Seq(Event) /\ Len(w \o u) = Len(w) + Len(u)
OBVIOUS

\* v is w with the k messages after m at its end.
Extended(v, w, m, k) ==
    /\ v \in Seq(Event) /\ DOMAIN v = 1..(Len(w) + k) /\ DOMAIN w = 1..Len(w)
    /\ Len(w) \in Nat
    /\ \A i \in 1..Len(w) : v[i] = w[i]
    /\ \A i \in 1..k : v[Len(w) + i] = Message(m + i)

\* What a run of k messages adds to the wire.
LEMMA RunAdded ==
    ASSUME NEW w \in Seq(Event), NEW m \in Nat, NEW k \in Nat,
           NEW new \in Seq(Event), Len(new) = k, \A i \in 1..k : new[i] = Message(m + i),
           NEW v, v = w \o new
    PROVE  Extended(v, w, m, k)
<1>1. /\ v \in Seq(Event) /\ DOMAIN v = 1..(Len(w) + k)
      /\ Len(w) \in Nat /\ DOMAIN w = 1..Len(w)
  <2>1. w \o new \in Seq(Event) /\ Len(w \o new) = Len(w) + Len(new)  BY Joined
  <2>2. DOMAIN (w \o new) = 1..Len(w \o new) /\ DOMAIN w = 1..Len(w) /\ Len(w) \in Nat
    BY <2>1
  <2> QED  BY <2>1, <2>2
<1>2. \A i \in 1..Len(w) : v[i] = w[i]  OBVIOUS
<1>3. ASSUME NEW i \in 1..k
      PROVE  v[Len(w) + i] = Message(m + i)
  <2>1. /\ Len(w) + i \in (Len(w) + 1)..(Len(w) + Len(new)) /\ (Len(w) + i) - Len(w) = i
    OBVIOUS
  <2>2. (w \o new)[Len(w) + i] = new[(Len(w) + i) - Len(w)]  BY <2>1
  <2> QED  BY <2>1, <2>2
<1> QED  BY <1>1, <1>2, <1>3 DEF Extended

\* A run of k messages is added.
LEMMA GaplessRun ==
    ASSUME NEW w \in Seq(Event), NEW c \in Nat, NEW m \in Nat, NEW k \in Nat, k >= 1,
           Joins(w, c, m + 1), Gapless(w, c), NEW v, Extended(v, w, m, k)
    PROVE  Gapless(v, c) /\ Joins(v, c, m + k + 1)
<1>1. \A i \in 1..k : /\ Message(m + i) \in Event /\ Message(m + i).n = m + i
                      /\ Message(m + i).type = "message"
  BY DEF Message, Event
<1>3. /\ v \in Seq(Event) /\ DOMAIN v = 1..(Len(w) + k) /\ DOMAIN w = 1..Len(w)
      /\ Len(w) \in Nat
      /\ \A i \in 1..Len(w) : v[i] = w[i]
  BY DEF Extended
<1>4. \A i \in 1..k : v[Len(w) + i] = Message(m + i)  BY DEF Extended
<1>6. ASSUME NEW i \in DOMAIN v, v[i].type = "message"
      PROVE  v[i].n <= c + 1
             \/ \E j \in 1..(i - 1) : v[j].type = "message" /\ v[i].n <= v[j].n + 1
  <2>1. CASE i \in 1..Len(w)
    <3>1. w[i].n <= c + 1 \/ \E j \in 1..(i - 1) : w[j].type = "message" /\ w[i].n <= w[j].n + 1
      BY <1>3, <1>6, <2>1 DEF Gapless
    <3>2. \A j \in 1..(i - 1) : v[j] = w[j]  BY <1>3, <2>1
    <3> QED  BY <1>3, <2>1, <3>1, <3>2
  <2>2. CASE i = Len(w) + 1
    <3>1. 1 \in 1..k /\ v[i].n = m + 1  BY <1>1, <1>4, <2>2
    <3>2. \A j \in DOMAIN w : j \in 1..(i - 1) /\ v[j] = w[j]  BY <1>3, <2>2
    <3> QED  BY <3>1, <3>2 DEF Joins
  <2>3. CASE i > Len(w) + 1
    <3>1. PICK n \in 2..k : i = Len(w) + n
      <4>1. i - Len(w) \in 2..k /\ i = Len(w) + (i - Len(w))  BY <1>3, <1>6, <2>3
      <4> QED  BY <4>1
    <3>2. n \in 1..k /\ n - 1 \in 1..k  BY <3>1
    <3>3. /\ v[i].n = m + n /\ v[Len(w) + (n - 1)].n = m + (n - 1)
          /\ v[Len(w) + (n - 1)].type = "message"
      BY <1>1, <1>4, <3>1, <3>2
    <3>4. Len(w) + (n - 1) \in 1..(i - 1)  BY <1>3, <3>1
    <3>5. v[i].n <= v[Len(w) + (n - 1)].n + 1  BY <3>1, <3>3
    <3> QED  BY <3>3, <3>4, <3>5
  <2>4. i \in 1..Len(w) \/ i = Len(w) + 1 \/ i > Len(w) + 1  BY <1>3, <1>6
  <2> QED  BY <2>1, <2>2, <2>3, <2>4
<1>7. Joins(v, c, m + k + 1)
  <2>1. k \in 1..k  OBVIOUS
  <2>2. v[Len(w) + k].n = m + k /\ v[Len(w) + k].type = "message"  BY <1>1, <1>4, <2>1
  <2>3. Len(w) + k \in DOMAIN v /\ m + k + 1 <= v[Len(w) + k].n + 1  BY <1>3, <2>2
  <2> QED  BY <2>2, <2>3 DEF Joins
<1>8. Gapless(v, c)  BY <1>6 DEF Gapless
<1> QED  BY <1>7, <1>8

\* The first event is handled; the cursor is no less than it if it is a message.
LEMMA GaplessTail ==
    ASSUME NEW w \in Seq(Event), w # <<>>, NEW c \in Nat, NEW d \in Nat,
           c <= d, Head(w).type = "message" => Head(w).n <= d
    PROVE  /\ Gapless(w, c) => Gapless(Tail(w), d)
           /\ \A n \in Nat : Joins(w, c, n) => Joins(Tail(w), d, n)
           /\ Tail(w) \in Seq(Event)
           /\ DOMAIN Tail(w) = 1..(Len(w) - 1) /\ DOMAIN w = 1..Len(w) /\ Len(w) \in Nat
           /\ \A i \in 1..(Len(w) - 1) : Tail(w)[i] = w[i + 1]
           /\ Head(w) = w[1] /\ 1 \in DOMAIN w /\ Head(w) \in Event
<1> DEFINE v == Tail(w)
<1>1. /\ DOMAIN v = 1..(Len(w) - 1) /\ DOMAIN w = 1..Len(w) /\ Len(w) \in Nat
      /\ \A i \in 1..(Len(w) - 1) : v[i] = w[i + 1]
      /\ Head(w) = w[1] /\ \A i \in 1..Len(w) : w[i] \in Event
      /\ v \in Seq(Event) /\ 1 \in DOMAIN w
  OBVIOUS
<1>0. \A i \in 1..Len(w) : w[i].n \in Nat  BY <1>1 DEF Event
<1> HIDE DEF v
<1>2. ASSUME NEW n \in Nat, NEW l \in Nat, l < Len(w), NEW j \in 1..(l + 1),
             w[j].type = "message", n <= w[j].n + 1
      PROVE  n <= d + 1 \/ \E i \in 1..l : v[i].type = "message" /\ n <= v[i].n + 1
  <2>1. CASE j = 1  BY <1>0, <1>1, <1>2, <2>1
  <2>2. CASE j # 1
    <3>1. j - 1 \in 1..l /\ v[j - 1] = w[j]  BY <1>1, <1>2, <2>2
    <3> QED  BY <1>2, <3>1
  <2> QED  BY <2>1, <2>2
<1>3. ASSUME Gapless(w, c), NEW i \in DOMAIN v, v[i].type = "message"
      PROVE  v[i].n <= d + 1
             \/ \E j \in 1..(i - 1) : v[j].type = "message" /\ v[i].n <= v[j].n + 1
  <2>1. i + 1 \in DOMAIN w /\ v[i] = w[i + 1] /\ v[i].n \in Nat  BY <1>0, <1>1, <1>3
  <2>2. v[i].n <= c + 1
        \/ \E j \in 1..((i + 1) - 1) : w[j].type = "message" /\ v[i].n <= w[j].n + 1
    BY <1>3, <2>1 DEF Gapless
  <2>3. CASE v[i].n <= c + 1  BY <2>1, <2>3
  <2>4. ASSUME NEW j \in 1..((i + 1) - 1), w[j].type = "message", v[i].n <= w[j].n + 1
        PROVE  v[i].n <= d + 1
               \/ \E h \in 1..(i - 1) : v[h].type = "message" /\ v[i].n <= v[h].n + 1
    <3>1. i - 1 \in Nat /\ i - 1 < Len(w) /\ j \in 1..((i - 1) + 1)  BY <1>1, <1>3, <2>4
    <3> QED  BY <1>2, <2>1, <2>4, <3>1
  <2> QED  BY <2>2, <2>3, <2>4
<1>4. ASSUME NEW n \in Nat, Joins(w, c, n)
      PROVE  Joins(v, d, n)
  <2>1. CASE n <= c + 1  BY <2>1 DEF Joins
  <2>2. ASSUME NEW j \in DOMAIN w, w[j].type = "message", n <= w[j].n + 1
        PROVE  Joins(v, d, n)
    <3>1. Len(w) - 1 \in Nat /\ Len(w) - 1 < Len(w) /\ j \in 1..((Len(w) - 1) + 1)
      BY <1>1, <2>2
    <3> QED  BY <1>1, <1>2, <2>2, <3>1 DEF Joins
  <2> QED  BY <1>4, <2>1, <2>2 DEF Joins
<1> QED  BY <1>1, <1>3, <1>4 DEF Gapless, v

\* A stream that is gone or has just begun.
LEMMA NewStreams ==
    ASSUME NEW c \in Nat
    PROVE  LET s == [NoStream EXCEPT !.pc = "subscribe", !.cursor = c] IN
           /\ NoStream \in Stream /\ s \in Stream
           /\ NoStream.pc = "none" /\ NoStream.cursor = 0 /\ NoStream.queue = <<>>
           /\ s.pc = "subscribe" /\ s.cursor = c /\ s.queue = <<>>
<1>1. <<>> \in Seq(Event)  OBVIOUS
<1>2. NoStream \in Stream  BY <1>1 DEF NoStream, Stream
<1>3. [NoStream EXCEPT !.pc = "subscribe", !.cursor = c] \in Stream
  BY <1>2 DEF Stream
<1> QED  BY <1>2, <1>3 DEF NoStream

\* A hook that shows nothing yet.
LEMMA BlankHook ==
    ASSUME NEW p \in {"idle", "hydrating"}
    PROVE  LET h == [NoHook EXCEPT !.phase = p] IN
           /\ h \in Hook /\ NoHook \in Hook
           /\ h.phase = p /\ h.cursor = 0 /\ h.messages = <<>> /\ h.buffers = {}
           /\ h.thinking = {}
           /\ NoHook.phase = "idle" /\ NoHook.cursor = 0 /\ NoHook.messages = <<>>
           /\ NoHook.buffers = {} /\ NoHook.thinking = {}
           /\ [NoHook EXCEPT !.phase = "idle"] = NoHook
<1>1. <<>> \in Seq(Nat)  OBVIOUS
<1>2. NoHook \in Hook  BY <1>1 DEF NoHook, Hook
<1>3. [NoHook EXCEPT !.phase = p] \in Hook  BY <1>2 DEF Hook
<1> QED  BY <1>2, <1>3 DEF NoHook

LEMMA EmptyTranscript == UpTo(0) = <<>>
<1>1. UpTo(0) \in Seq(Nat) /\ Len(UpTo(0)) = 0  BY DEF UpTo
<1> QED  BY <1>1

-----------------------------------------------------------------------------
(* The initial state *)

\* Types that several proofs need.
LEMMA Types ==
    ASSUME TypeOK
    PROVE  /\ committed \in Nat /\ published \in Nat /\ published <= committed
           /\ Steps \in Nat /\ committed <= Steps
           /\ stream \in Stream /\ stream.cursor \in Nat /\ stream.queue \in Seq(Event)
           /\ wire \in Seq(Event) /\ \A i \in DOMAIN wire : wire[i] \in Event
           /\ hook \in Hook /\ hook.cursor \in Nat /\ hook.messages \in Seq(Nat)
           /\ hook.buffers \subseteq Nat /\ hook.thinking \subseteq Nat
           /\ AgentSteps \subseteq Nat
  BY StepsAssumption DEF TypeOK, Stream, Hook

LEMMA Initial == Init => TranscriptInv
<1> SUFFICES ASSUME Init PROVE TranscriptInv
  OBVIOUS
<1> USE DEF Init
<1>1. /\ NoStream \in Stream /\ NoStream.pc = "none" /\ NoStream.queue = <<>>
      /\ NoHook \in Hook /\ NoHook.phase = "idle" /\ NoHook.cursor = 0
      /\ NoHook.messages = <<>> /\ NoHook.buffers = {} /\ NoHook.thinking = {}
      /\ [NoHook EXCEPT !.phase = "idle"] = NoHook
  BY NewStreams, BlankHook
<1>2. <<>> \in Seq(Event)  OBVIOUS
<1>3. TypeOK
  BY <1>1, <1>2, StepsAssumption, BoundsAssumption DEF TypeOK, Statuses
<1>4. TranscriptInOrder  BY <1>1, EmptyTranscript DEF TranscriptInOrder
<1>5. HookInv  BY <1>1 DEF HookInv
<1>6. CursorInv /\ LiveInv  BY <1>1 DEF CursorInv, LiveInv
<1>7. StreamInv  BY <1>1, GaplessEmpty DEF StreamInv
<1> QED  BY <1>3, <1>4, <1>5, <1>6, <1>7 DEF TranscriptInv

-----------------------------------------------------------------------------
(* The runner *)

\* A message is committed, or the session ends.
LEMMA TableKeeps ==
    ASSUME TranscriptInv, WriteMessage \/ \E final \in {"completed", "failed"} : Finish(final)
    PROVE  TranscriptInv'
<1> USE DEF TranscriptInv
<1>1. /\ published' = published /\ runner' = runner /\ deltas' = deltas /\ stream' = stream
      /\ wire' = wire /\ reqs' = reqs /\ hook' = hook /\ drops' = drops /\ mounts' = mounts
      /\ overtaken' = overtaken
  BY DEF WriteMessage, Finish, server
<1>2. /\ committed' \in 0..Steps /\ committed <= committed' /\ status' \in Statuses
  BY Types, SMTT(30) DEF WriteMessage, Finish, TypeOK, Statuses, TerminalSessionStatuses
<1>3. committed \in Nat /\ committed' \in Nat /\ hook.cursor \in Nat /\ stream.cursor \in Nat
      /\ Len(hook.messages) \in Nat
  BY <1>2, Types
<1>4. TypeOK'  BY <1>1, <1>2, <1>3 DEF TypeOK
<1>5. TranscriptInOrder'  BY <1>1, <1>2, <1>3 DEF TranscriptInOrder
<1>6. HookInv'
  <2>1. \A q \in reqs : q.upto \in Nat  BY DEF TypeOK, Request
  <2> QED  BY <1>1, <1>2, <1>3, <2>1 DEF HookInv
<1>7. CursorInv'
  <2>1. ASSUME NEW e, Proper(e, committed) PROVE Proper(e, committed')
    BY <1>2, <1>3, <2>1 DEF Proper
  <2> QED  BY <1>1, <1>2, <1>3, <2>1 DEF CursorInv
<1>8. StreamInv' /\ LiveInv'  BY <1>1 DEF StreamInv, LiveInv, Late
<1> QED  BY <1>4, <1>5, <1>6, <1>7, <1>8

\* SessionBroadcast.publish.
LEMMA PublishKeeps ==
    ASSUME TranscriptInv, PublishMessage \/ \E type \in {"delta", "thinking"} : PublishDelta(type)
    PROVE  TranscriptInv'
<1> USE DEF TranscriptInv
<1>1. /\ status' = status /\ committed' = committed /\ runner' = runner
      /\ wire' = wire /\ reqs' = reqs /\ hook' = hook /\ drops' = drops /\ mounts' = mounts
      /\ overtaken' = overtaken
  BY DEF PublishMessage, PublishDelta
<1>2. PICK e \in Event :
         /\ Publish(e) /\ Proper(e, committed)
         /\ e.type = "message" => e.n = published + 1
         /\ published' \in 0..committed /\ deltas' \in 0..MaxDeltas
         /\ published' # published => e.type = "message"
  <2>1. CASE PublishMessage
    <3>1. Message(published + 1) \in Event /\ Proper(Message(published + 1), committed)
          /\ Message(published + 1).type = "message" /\ Message(published + 1).n = published + 1
      BY <2>1, Types DEF PublishMessage, Message, Event, Proper
    <3> QED  BY <2>1, <3>1, Types DEF PublishMessage, TypeOK
  <2>2. ASSUME NEW type \in {"delta", "thinking"}, PublishDelta(type)
        PROVE  \E e \in Event :
                  /\ Publish(e) /\ Proper(e, committed)
                  /\ e.type = "message" => e.n = published + 1
                  /\ published' \in 0..committed /\ deltas' \in 0..MaxDeltas
                  /\ published' # published => e.type = "message"
    <3> DEFINE e == [type |-> type, n |-> committed + 1]
    <3>1. e \in Event /\ Proper(e, committed) /\ e.type # "message"
      BY <2>2, Types DEF PublishDelta, Event, Proper
    <3>2. Publish(e) /\ published' = published /\ deltas' \in 0..MaxDeltas
      BY <2>2, BoundsAssumption DEF PublishDelta, TypeOK
    <3> QED  BY <3>1, <3>2 DEF TypeOK
  <2> QED  BY <2>1, <2>2
<1>3. /\ stream.queue \in Seq(Event) /\ stream \in Stream  BY Types
<1>4. /\ Append(stream.queue, e) \in Seq(Event) /\ Append(stream.queue, e) # <<>>
      /\ Head(Append(stream.queue, e)) = IF stream.queue = <<>> THEN e ELSE Head(stream.queue)
      /\ \A i \in DOMAIN Append(stream.queue, e) :
            \/ Append(stream.queue, e)[i] = e
            \/ i \in DOMAIN stream.queue /\ Append(stream.queue, e)[i] = stream.queue[i]
  BY <1>3, AppendIs
<1>5. \/ ~Subscribed /\ stream' = stream
      \/ /\ Subscribed /\ stream' = [stream EXCEPT !.queue = Append(stream.queue, e)]
         /\ stream' \in Stream /\ stream'.pc = stream.pc /\ stream'.cursor = stream.cursor
         /\ stream'.queue = Append(stream.queue, e) /\ stream'.pc # "none"
  BY <1>2, <1>3, <1>4 DEF Publish, Stream, Subscribed
<1>6. TypeOK'  BY <1>1, <1>2, <1>3, <1>5 DEF TypeOK
<1>7. TranscriptInOrder' /\ LiveInv'  BY <1>1 DEF TranscriptInOrder, LiveInv, Late
<1>8. HookInv'  BY <1>1, <1>5 DEF HookInv
<1>9. CursorInv'
  <2>1. \A i \in DOMAIN stream'.queue : Proper(stream'.queue[i], committed)
    BY <1>2, <1>4, <1>5 DEF CursorInv
  <2> QED  BY <1>1, <1>5, <2>1 DEF CursorInv
<1>10. StreamInv'
  <2>1. CASE ~Subscribed
    BY <1>1, <1>5, <2>1 DEF StreamInv, Subscribed
  <2>2. CASE Subscribed
    BY <1>1, <1>2, <1>4, <1>5, <2>2 DEF StreamInv, Subscribed
  <2> QED  BY <2>1, <2>2
<1> QED  BY <1>6, <1>7, <1>8, <1>9, <1>10

\* The process ends.
LEMMA RestartKeeps ==
    ASSUME TranscriptInv, Restart
    PROVE  TranscriptInv'
<1> USE DEF TranscriptInv
<1>1. /\ status' = status /\ committed' = committed /\ published' = published
      /\ deltas' = deltas /\ runner' = "gone"
      /\ wire' = wire /\ reqs' = reqs /\ hook' = hook /\ drops' = drops /\ mounts' = mounts
      /\ overtaken' = overtaken
      /\ stream' = IF stream.pc = "none" THEN stream ELSE [stream EXCEPT !.pc = "ended"]
  BY DEF Restart
<1>2. /\ stream' \in Stream /\ stream'.cursor = stream.cursor /\ stream'.queue = stream.queue
      /\ stream'.pc \in {"none", "ended"} /\ (stream'.pc = "none" <=> stream.pc = "none")
      /\ stream.pc = "none" => stream' = stream
  BY <1>1, Types DEF Stream
<1>3. TypeOK'  BY <1>1, <1>2 DEF TypeOK
<1>4. TranscriptInOrder' /\ LiveInv'  BY <1>1 DEF TranscriptInOrder, LiveInv, Late
<1>5. HookInv' /\ CursorInv'  BY <1>1, <1>2 DEF HookInv, CursorInv
<1>6. StreamInv'  BY <1>1, <1>2 DEF StreamInv
<1> QED  BY <1>3, <1>4, <1>5, <1>6

-----------------------------------------------------------------------------
(* stream_events *)

\* The steps that send nothing.
LEMMA QuietKeeps ==
    ASSUME TranscriptInv, Subscribe \/ PollAgain
    PROVE  TranscriptInv'
<1> USE DEF TranscriptInv
<1>1. /\ status' = status /\ committed' = committed /\ published' = published
      /\ deltas' = deltas /\ runner' = runner
      /\ wire' = wire /\ reqs' = reqs /\ hook' = hook /\ drops' = drops /\ mounts' = mounts
      /\ overtaken' = overtaken
  BY DEF Subscribe, PollAgain, session
<1>2. /\ stream' \in Stream /\ stream'.cursor = stream.cursor /\ stream'.queue = stream.queue
      /\ stream'.pc = "read" /\ stream.pc # "none"
  BY Types DEF Subscribe, PollAgain, Stream
<1>3. TypeOK'  BY <1>1, <1>2 DEF TypeOK
<1>4. TranscriptInOrder' /\ LiveInv'  BY <1>1 DEF TranscriptInOrder, LiveInv, Late
<1>5. HookInv' /\ CursorInv'  BY <1>1, <1>2 DEF HookInv, CursorInv
<1>6. StreamInv'  BY <1>1, <1>2 DEF StreamInv
<1> QED  BY <1>3, <1>4, <1>5, <1>6

\* An event is sent: what the wire then satisfies.
LEMMA Sent ==
    ASSUME TranscriptInv, NEW e \in Event, Proper(e, committed),
           e.type = "message" => Joins(wire, hook.cursor, e.n),
           NEW w, w = Append(wire, e), NEW o, overtaken \subseteq o, stream.pc # "none",
           e.type = "delta" /\ e.n <= stream.cursor => e.n \in o
    PROVE  /\ w \in Seq(Event) /\ Gapless(w, hook.cursor)
           /\ \A m \in Nat : Joins(wire, hook.cursor, m) => Joins(w, hook.cursor, m)
           /\ e.type = "message" => Joins(w, hook.cursor, e.n + 1)
           /\ \A i \in DOMAIN w : Proper(w[i], committed)
           /\ \A i \in DOMAIN w : w[i] = e \/ (i \in DOMAIN wire /\ w[i] = wire[i])
           /\ \A i \in DOMAIN w :
                 w[i].type = "delta" /\ Late(w, hook.cursor, i) => w[i].n \in o
<1> USE DEF TranscriptInv
<1>1. wire \in Seq(Event) /\ hook.cursor \in Nat  BY Types
<1>2. /\ Gapless(wire, hook.cursor) => Gapless(w, hook.cursor)
      /\ \A m \in Nat : Joins(wire, hook.cursor, m) => Joins(w, hook.cursor, m)
      /\ e.type = "message" => Joins(w, hook.cursor, e.n + 1)
      /\ DOMAIN w = 1..(Len(wire) + 1) /\ DOMAIN wire = 1..Len(wire) /\ Len(wire) \in Nat
      /\ \A i \in 1..Len(wire) : w[i] = wire[i]
      /\ w[Len(wire) + 1] = e
  BY <1>1, GaplessAppend
<1>3. w \in Seq(Event)  BY <1>1, AppendIs
<1>4. \A i \in DOMAIN w : i = Len(wire) + 1 \/ i \in DOMAIN wire  BY <1>2
<1>5. ASSUME NEW i \in DOMAIN w, w[i].type = "delta", Late(w, hook.cursor, i)
      PROVE  w[i].n \in o
  <2>1. CASE i \in DOMAIN wire
    <3>1. \A j \in 1..(i - 1) : w[j] = wire[j] /\ w[i] = wire[i]  BY <1>2, <2>1
    <3>2. w[i] = wire[i]  BY <1>2, <2>1
    <3>3. Late(wire, hook.cursor, i)  BY <1>5, <3>1, <3>2 DEF Late
    <3> QED  BY <1>5, <2>1, <3>2, <3>3 DEF LiveInv
  <2>2. CASE i = Len(wire) + 1
    <3>1. w[i] = e /\ e.n \in Nat  BY <1>2, <2>2 DEF Event
    <3>2. \A j \in 1..(i - 1) : j \in DOMAIN wire /\ w[j] = wire[j]  BY <1>2, <2>2
    <3>3. \A j \in DOMAIN wire : wire[j].n \in Nat
      <4>1. \A j \in DOMAIN wire : wire[j] \in Event  BY <1>1
      <4> QED  BY <4>1 DEF Event
    <3>4. e.n <= hook.cursor \/ \E j \in DOMAIN wire : wire[j].type = "message" /\ e.n <= wire[j].n
      BY <1>5, <3>1, <3>2 DEF Late
    <3>5. stream.cursor \in Nat /\ hook.cursor <= stream.cursor
          /\ \A j \in DOMAIN wire : wire[j].type = "message" => wire[j].n <= stream.cursor
      BY Types DEF CursorInv
    <3>6. e.n <= stream.cursor  BY <1>1, <3>1, <3>3, <3>4, <3>5
    <3> QED  BY <1>5, <3>1, <3>6
  <2> QED  BY <1>4, <2>1, <2>2
<1>6. \A i \in DOMAIN w : Proper(w[i], committed)
  BY <1>2, <1>4 DEF CursorInv
<1> QED  BY <1>2, <1>3, <1>4, <1>5, <1>6 DEF StreamInv

\* get_session.
LEMMA TestStatusKeeps ==
    ASSUME TranscriptInv, TestStatus
    PROVE  TranscriptInv'
<1> USE DEF TranscriptInv
<1> DEFINE end == [type |-> "end", n |-> 0]
<1>1. /\ status' = status /\ committed' = committed /\ published' = published
      /\ deltas' = deltas /\ runner' = runner
      /\ reqs' = reqs /\ hook' = hook /\ drops' = drops /\ mounts' = mounts
      /\ overtaken' = overtaken /\ stream.pc = "status"
  BY DEF TestStatus, session
<1>2. /\ stream' \in Stream /\ stream'.cursor = stream.cursor /\ stream'.queue = stream.queue
      /\ \/ stream'.pc = "wait" /\ wire' = wire
         \/ stream'.pc = "ended" /\ wire' = Append(wire, end)
  <2>1. PICK seen \in Statuses \cup {"none"} :
          \/ stream' = [stream EXCEPT !.pc = "ended", !.seen = seen] /\ wire' = Append(wire, end)
          \/ stream' = [stream EXCEPT !.pc = "wait", !.seen = seen] /\ wire' = wire
    BY Types DEF TestStatus, Stream, TypeOK
  <2> QED  BY <2>1, Types DEF Stream
<1>3. TranscriptInOrder' /\ HookInv'  BY <1>1, <1>2 DEF TranscriptInOrder, HookInv
<1>4. CASE stream'.pc = "wait" /\ wire' = wire
  <2>1. TypeOK' /\ CursorInv'  BY <1>1, <1>2, <1>4 DEF TypeOK, CursorInv
  <2>2. StreamInv' /\ LiveInv'  BY <1>1, <1>2, <1>4 DEF StreamInv, LiveInv, Late
  <2> QED  BY <1>3, <2>1, <2>2
<1>5. CASE stream'.pc = "ended" /\ wire' = Append(wire, end)
  <2>1. end \in Event /\ end.type = "end"  BY DEF Event
  <2>2. Proper(end, committed)  BY DEF Proper
  <2> HIDE DEF end
  <2>3. /\ wire' \in Seq(Event) /\ Gapless(wire', hook.cursor)
        /\ \A m \in Nat : Joins(wire, hook.cursor, m) => Joins(wire', hook.cursor, m)
        /\ \A i \in DOMAIN wire' : Proper(wire'[i], committed)
        /\ \A i \in DOMAIN wire' : wire'[i] = end \/ (i \in DOMAIN wire /\ wire'[i] = wire[i])
        /\ \A i \in DOMAIN wire' :
              wire'[i].type = "delta" /\ Late(wire', hook.cursor, i) => wire'[i].n \in overtaken
    BY <1>1, <1>5, <2>1, <2>2, Sent
  <2>4. TypeOK' /\ CursorInv'  BY <1>1, <1>2, <1>5, <2>1, <2>3 DEF TypeOK, CursorInv
  <2>5. stream.cursor + 1 \in Nat  BY Types
  <2>6. StreamInv'  BY <1>1, <1>2, <1>5, <2>3, <2>5 DEF StreamInv
  <2>7. LiveInv'
    <3>1. \A i \in DOMAIN wire' : Late(wire, hook.cursor, i)' <=> Late(wire', hook.cursor, i)
      BY <1>1 DEF Late
    <3> QED  BY <1>1, <2>3, <3>1 DEF LiveInv
  <2> QED  BY <1>3, <2>4, <2>6, <2>7
<1> QED  BY <1>2, <1>4, <1>5

\* A live event.
LEMMA TakeLiveKeeps ==
    ASSUME TranscriptInv, TakeLive
    PROVE  TranscriptInv'
<1> USE DEF TranscriptInv
<1>1. PICK e : e = Head(stream.queue)  OBVIOUS
<1>2. /\ status' = status /\ committed' = committed /\ published' = published
      /\ deltas' = deltas /\ runner' = runner
      /\ reqs' = reqs /\ hook' = hook /\ drops' = drops /\ mounts' = mounts
      /\ stream.pc = "wait" /\ stream.queue # <<>> /\ wire' = Append(wire, e)
      /\ overtaken' = IF e.type = "delta" /\ e.n <= stream.cursor THEN overtaken \cup {e.n}
                      ELSE overtaken
  BY <1>1 DEF TakeLive, session
<1>3. /\ stream \in Stream /\ stream.queue \in Seq(Event) /\ stream.cursor \in Nat
      /\ committed \in Nat /\ hook.cursor \in Nat
  BY Types
<1>4. /\ e \in Event /\ Proper(e, committed) /\ e.n \in Nat
      /\ Tail(stream.queue) \in Seq(Event)
      /\ \A i \in DOMAIN Tail(stream.queue) :
            i + 1 \in DOMAIN stream.queue /\ Tail(stream.queue)[i] = stream.queue[i + 1]
  <2>1. /\ Head(stream.queue) \in Event /\ Head(stream.queue) = stream.queue[1]
        /\ 1 \in DOMAIN stream.queue
        /\ Tail(stream.queue) \in Seq(Event)
        /\ \A i \in DOMAIN Tail(stream.queue) :
              i + 1 \in DOMAIN stream.queue /\ Tail(stream.queue)[i] = stream.queue[i + 1]
    BY <1>2, <1>3
  <2> QED  BY <1>1, <2>1 DEF CursorInv, Event
<1>5. PICK c \in Nat : c = IF e.type = "message" THEN Max({stream.cursor, e.n}) ELSE stream.cursor
  BY <1>3, <1>4, MaxIs
<1>6. /\ c >= stream.cursor /\ (e.type = "message" => e.n <= c)
      /\ c # stream.cursor => e.type = "message" /\ c = e.n
      /\ stream.cursor <= committed => c <= committed
  BY <1>3, <1>4, <1>5, MaxIs, SMTT(30) DEF Proper
<1>7. stream' = [stream EXCEPT !.pc = "read", !.queue = Tail(stream.queue), !.cursor = c]
  BY <1>1, <1>5 DEF TakeLive
<1>8. /\ stream' \in Stream /\ stream'.pc = "read" /\ stream'.queue = Tail(stream.queue)
      /\ stream'.cursor = c
  BY <1>3, <1>4, <1>7 DEF Stream
<1>9. /\ wire' \in Seq(Event) /\ Gapless(wire', hook.cursor)
      /\ \A m \in Nat : Joins(wire, hook.cursor, m) => Joins(wire', hook.cursor, m)
      /\ e.type = "message" => Joins(wire', hook.cursor, e.n + 1)
      /\ \A i \in DOMAIN wire' : Proper(wire'[i], committed)
      /\ \A i \in DOMAIN wire' : wire'[i] = e \/ (i \in DOMAIN wire /\ wire'[i] = wire[i])
      /\ \A i \in DOMAIN wire' :
            wire'[i].type = "delta" /\ Late(wire', hook.cursor, i) => wire'[i].n \in overtaken'
  <2>1. e.type = "message" => Joins(wire, hook.cursor, e.n)
    BY <1>1, <1>2 DEF StreamInv
  <2>2. overtaken \subseteq overtaken' /\ stream.pc # "none"
        /\ (e.type = "delta" /\ e.n <= stream.cursor => e.n \in overtaken')
    BY <1>2
  <2>3. e \in Event /\ Proper(e, committed) /\ wire' = Append(wire, e)  BY <1>2, <1>4
  <2>4. PICK o : o = overtaken'  OBVIOUS
  <2>5. overtaken \subseteq o /\ (e.type = "delta" /\ e.n <= stream.cursor => e.n \in o)
        /\ stream.pc # "none"
    BY <2>2, <2>4
  <2>6. /\ wire' \in Seq(Event) /\ Gapless(wire', hook.cursor)
        /\ \A m \in Nat : Joins(wire, hook.cursor, m) => Joins(wire', hook.cursor, m)
        /\ e.type = "message" => Joins(wire', hook.cursor, e.n + 1)
        /\ \A i \in DOMAIN wire' : Proper(wire'[i], committed)
        /\ \A i \in DOMAIN wire' : wire'[i] = e \/ (i \in DOMAIN wire /\ wire'[i] = wire[i])
        /\ \A i \in DOMAIN wire' :
              wire'[i].type = "delta" /\ Late(wire', hook.cursor, i) => wire'[i].n \in o
    BY <2>1, <2>3, <2>5, Sent
  <2> QED  BY <2>4, <2>6
<1>10. TypeOK'
  <2>1. overtaken' \subseteq AgentSteps  BY <1>2, <1>4 DEF TypeOK, Proper
  <2> QED  BY <1>2, <1>8, <1>9, <2>1 DEF TypeOK
<1>11. TranscriptInOrder' /\ HookInv'  BY <1>2, <1>8 DEF TranscriptInOrder, HookInv
<1>12. CursorInv'
  <2>1. \A i \in DOMAIN stream'.queue : Proper(stream'.queue[i], committed)
    BY <1>4, <1>8 DEF CursorInv
  <2>2. \A i \in DOMAIN wire' : wire'[i].type = "message" => wire'[i].n <= c
    <3>1. \A i \in DOMAIN wire : wire[i].n \in Nat
      <4>1. \A i \in DOMAIN wire : wire[i] \in Event  BY Types
      <4> QED  BY <4>1 DEF Event
    <3> QED  BY <1>3, <1>6, <1>9, <3>1 DEF CursorInv
  <2>3. hook.cursor <= c /\ c <= committed  BY <1>2, <1>3, <1>6 DEF CursorInv
  <2> QED  BY <1>2, <1>8, <1>9, <2>1, <2>2, <2>3 DEF CursorInv
<1>13. StreamInv'
  <2>1. Joins(wire', hook.cursor, c + 1)
    <3>1. stream.cursor + 1 \in Nat  BY <1>3
    <3> QED  BY <1>2, <1>6, <1>9, <3>1 DEF StreamInv
  <2> QED  BY <1>2, <1>8, <1>9, <2>1 DEF StreamInv
<1>14. LiveInv'
  <2>1. \A i \in DOMAIN wire' : Late(wire, hook.cursor, i)' <=> Late(wire', hook.cursor, i)
    BY <1>2 DEF Late
  <2>2. overtaken \subseteq overtaken'  BY <1>2
  <2> QED  BY <1>2, <1>9, <2>1, <2>2 DEF LiveInv
<1> QED  BY <1>10, <1>11, <1>12, <1>13, <1>14

\* get_messages_after.
LEMMA ReadKeeps ==
    ASSUME TranscriptInv, ReadMessages
    PROVE  TranscriptInv'
<1> USE DEF TranscriptInv
<1>1. /\ status' = status /\ committed' = committed /\ published' = published
      /\ deltas' = deltas /\ runner' = runner
      /\ reqs' = reqs /\ hook' = hook /\ drops' = drops /\ mounts' = mounts
      /\ overtaken' = overtaken /\ stream.pc = "read"
  BY DEF ReadMessages, session
<1>2. /\ stream \in Stream /\ stream.queue \in Seq(Event) /\ stream.cursor \in Nat
      /\ committed \in Nat /\ published \in Nat /\ published <= committed
      /\ hook.cursor \in Nat /\ wire \in Seq(Event)
      /\ hook.cursor <= stream.cursor /\ stream.cursor <= committed
  BY <1>1, Types DEF CursorInv
<1>3. Joins(wire, hook.cursor, stream.cursor + 1) /\ Gapless(wire, hook.cursor)
  BY <1>1 DEF StreamInv
<1>4. TranscriptInOrder'  BY <1>1 DEF TranscriptInOrder
<1>5. CASE stream.cursor >= committed
  <2>1. /\ wire' = wire /\ stream' \in Stream /\ stream'.cursor = stream.cursor
        /\ stream'.queue = stream.queue /\ stream'.pc = "status"
    BY <1>2, <1>5 DEF ReadMessages, Stream
  <2>2. TypeOK' /\ CursorInv'  BY <1>1, <2>1 DEF TypeOK, CursorInv
  <2>3. HookInv' /\ LiveInv'  BY <1>1, <2>1 DEF HookInv, LiveInv, Late
  <2>4. CASE stream.queue = <<>>
    <3>1. published + 1 \in Nat /\ stream.cursor + 1 \in Nat /\ published + 1 <= stream.cursor + 1
      BY <1>2, <1>5
    <3>2. Joins(wire, hook.cursor, published + 1)  BY <1>2, <1>3, <3>1, JoinsEarlier
    <3>3. StreamInv'  BY <1>1, <1>3, <2>1, <2>4, <3>2 DEF StreamInv
    <3> QED  BY <1>4, <2>2, <2>3, <3>3
  <2>5. CASE stream.queue # <<>>
    <3>1. Head(stream.queue) = stream.queue[1] /\ 1 \in DOMAIN stream.queue  BY <1>2, <2>5
    <3>2. Proper(Head(stream.queue), committed)  BY <3>1 DEF CursorInv
    <3>3. ASSUME Head(stream.queue).type = "message"
          PROVE  Joins(wire, hook.cursor, Head(stream.queue).n)
      <4>1. Head(stream.queue).n \in 1..committed  BY <3>2, <3>3 DEF Proper
      <4>2. /\ Head(stream.queue).n \in Nat /\ stream.cursor + 1 \in Nat
            /\ Head(stream.queue).n <= stream.cursor + 1
        BY <1>2, <1>5, <4>1
      <4> QED  BY <1>2, <1>3, <4>2, JoinsEarlier
    <3>4. StreamInv'  BY <1>1, <1>3, <2>1, <2>5, <3>3 DEF StreamInv
    <3> QED  BY <1>4, <2>2, <2>3, <3>4
  <2> QED  BY <2>4, <2>5
<1>6. CASE stream.cursor < committed
  <2>1. PICK k \in Nat : k = committed - stream.cursor /\ k >= 1 /\ stream.cursor + k + 1 = committed + 1
    <3>1. committed - stream.cursor \in Nat  BY <1>2, <1>6
    <3> QED  BY <1>2, <1>6, <3>1
  <2>2. ~(stream.cursor >= committed)  BY <1>2, <1>6
  <2>3. /\ wire' = wire \o [i \in 1..k |-> Message(stream.cursor + i)]
        /\ stream' = [stream EXCEPT !.cursor = committed]
    <3>1. /\ wire' = wire \o [i \in 1..(committed - stream.cursor) |-> Message(stream.cursor + i)]
          /\ stream' = [stream EXCEPT !.cursor = committed]
      BY <2>2 DEF ReadMessages
    <3> QED  BY <2>1, <3>1, Zenon
  <2>4. /\ stream' \in Stream /\ stream'.pc = "read" /\ stream'.queue = stream.queue
        /\ stream'.cursor = committed
    BY <1>1, <1>2, <2>3 DEF Stream
  <2>5. /\ Gapless(wire', hook.cursor) /\ Joins(wire', hook.cursor, stream.cursor + k + 1)
        /\ wire' \in Seq(Event)
        /\ DOMAIN wire' = 1..(Len(wire) + k) /\ DOMAIN wire = 1..Len(wire) /\ Len(wire) \in Nat
        /\ \A i \in 1..Len(wire) : wire'[i] = wire[i]
        /\ \A i \in DOMAIN wire' : i \notin DOMAIN wire =>
              \E h \in 1..k : wire'[i] = Message(stream.cursor + h)
    <3>1. PICK new \in Seq(Event) :
             /\ new = [i \in 1..k |-> Message(stream.cursor + i)] /\ Len(new) = k
             /\ \A i \in 1..k : new[i] = Message(stream.cursor + i)
      BY <1>2, MessageRun
    <3>2. wire' = wire \o new  BY <2>3, <3>1
    <3>3. Extended(wire', wire, stream.cursor, k)  BY <1>2, <3>1, <3>2, RunAdded
    <3>4. Gapless(wire', hook.cursor) /\ Joins(wire', hook.cursor, stream.cursor + k + 1)
      BY <1>2, <1>3, <2>1, <3>3, GaplessRun
    <3>5. /\ wire' \in Seq(Event) /\ DOMAIN wire' = 1..(Len(wire) + k)
          /\ DOMAIN wire = 1..Len(wire) /\ Len(wire) \in Nat
          /\ \A i \in 1..Len(wire) : wire'[i] = wire[i]
          /\ \A i \in 1..k : wire'[Len(wire) + i] = Message(stream.cursor + i)
      BY <3>3 DEF Extended
    <3>6. ASSUME NEW i \in DOMAIN wire', i \notin DOMAIN wire
          PROVE  \E h \in 1..k : wire'[i] = Message(stream.cursor + h)
      <4>1. i - Len(wire) \in 1..k /\ i = Len(wire) + (i - Len(wire))  BY <3>5, <3>6
      <4>2. wire'[i] = Message(stream.cursor + (i - Len(wire)))  BY <3>5, <4>1
      <4> QED  BY <4>1, <4>2
    <3> QED  BY <3>4, <3>5, <3>6
  <2>6. \A i \in DOMAIN wire' : i \notin DOMAIN wire =>
           wire'[i].type = "message" /\ wire'[i].n \in 1..committed
    <3>1. \A h \in 1..k : /\ Message(stream.cursor + h).type = "message"
                          /\ Message(stream.cursor + h).n = stream.cursor + h
                          /\ stream.cursor + h \in 1..committed
      BY <1>2, <2>1, SMTT(30) DEF Message
    <3> QED  BY <2>5, <3>1
  <2>7. TypeOK'  BY <1>1, <2>4, <2>5 DEF TypeOK
  <2>8. HookInv'  BY <1>1, <2>4 DEF HookInv
  <2>9. CursorInv'
    <3>1. \A i \in DOMAIN wire : wire[i].type = "message" => wire[i].n \in 1..committed
      BY DEF CursorInv, Proper
    <3>2. \A i \in DOMAIN wire' : Proper(wire'[i], committed)
      BY <2>5, <2>6 DEF CursorInv, Proper
    <3>3. \A i \in DOMAIN wire' : wire'[i].type = "message" => wire'[i].n <= committed
      BY <1>2, <2>5, <2>6, <3>1
    <3>4. hook.cursor <= committed  BY <1>2
    <3>5. \A i \in DOMAIN stream'.queue : Proper(stream'.queue[i], committed)
      BY <2>4 DEF CursorInv
    <3>6. committed <= committed  BY <1>2
    <3> QED  BY <1>1, <2>4, <3>2, <3>3, <3>4, <3>5, <3>6 DEF CursorInv
  <2>10. StreamInv'  BY <1>1, <2>1, <2>4, <2>5 DEF StreamInv
  <2>11. LiveInv'
    <3>1. ASSUME NEW i \in DOMAIN wire', wire'[i].type = "delta", Late(wire', hook.cursor, i)
          PROVE  wire'[i].n \in overtaken
      <4>1. i \in DOMAIN wire  BY <2>6, <3>1
      <4>2. wire'[i] = wire[i] /\ \A j \in 1..(i - 1) : wire'[j] = wire[j]
        BY <2>5, <4>1
      <4>3. Late(wire, hook.cursor, i)  BY <3>1, <4>2 DEF Late
      <4> QED  BY <3>1, <4>1, <4>2, <4>3 DEF LiveInv
    <3>2. \A i \in DOMAIN wire' : Late(wire, hook.cursor, i)' <=> Late(wire', hook.cursor, i)
      BY <1>1 DEF Late
    <3> QED  BY <1>1, <3>1, <3>2 DEF LiveInv
  <2> QED  BY <1>4, <2>7, <2>8, <2>9, <2>10, <2>11
<1> QED  BY <1>2, <1>5, <1>6

-----------------------------------------------------------------------------
(* useSessionStream *)

\* What the hook does to the rest of the state.
Browses ==
    /\ status' = status /\ committed' = committed /\ published' = published
    /\ deltas' = deltas /\ runner' = runner /\ overtaken' = overtaken
    /\ drops' \in 0..MaxDrops /\ mounts' \in 0..MaxMounts

\* The stream is closed, or another is opened at the cursor.
LEMMA TurnKeeps ==
    ASSUME TranscriptInv, Browses, TypeOK', TranscriptInOrder', HookInv',
           wire' = <<>>, stream'.queue = <<>>,
           \/ stream' = NoStream
           \/ stream'.pc = "subscribe" /\ stream'.cursor = hook'.cursor,
           hook'.cursor <= committed,
           \A n \in hook'.buffers : n <= hook'.cursor => n \in overtaken,
           hook'.buffers \cup hook'.thinking \subseteq AgentSteps
    PROVE  TranscriptInv'
<1> USE DEF TranscriptInv, Browses
<1>1. hook'.cursor \in Nat  BY DEF TypeOK, Hook
<1>2. stream'.pc \in {"none", "subscribe"}
      /\ (stream'.pc # "none" => stream'.cursor = hook'.cursor)
  BY NewStreams
<1>3. CursorInv'
  <2>1. hook'.cursor <= hook'.cursor  BY <1>1
  <2> QED  BY <1>2, <2>1 DEF CursorInv
<1>4. StreamInv'  BY <1>1, <1>2, GaplessEmpty DEF StreamInv
<1>5. LiveInv'  BY DEF LiveInv
<1> QED  BY <1>3, <1>4, <1>5

LEMMA MountKeeps ==
    ASSUME TranscriptInv, Mount
    PROVE  TranscriptInv'
<1> USE DEF TranscriptInv
<1> DEFINE new == [rank |-> "current", stage |-> "sent", upto |-> 0]
<1>1. /\ Browses /\ stream' = stream /\ wire' = wire /\ reqs' = reqs \cup {new}
      /\ hook' = [NoHook EXCEPT !.phase = "hydrating"] /\ hook.phase = "idle"
  BY BoundsAssumption DEF Mount, Browses, session, server, TypeOK
<1>2. /\ stream' = NoStream /\ wire' = <<>> /\ NoStream.queue = <<>>
  BY <1>1, NewStreams DEF HookInv
<1>3. /\ hook' \in Hook /\ hook'.phase = "hydrating" /\ hook'.cursor = 0
      /\ hook'.messages = <<>> /\ hook'.buffers = {} /\ hook'.thinking = {}
  BY <1>1, BlankHook
<1>4. new \in Request /\ new.upto = 0  BY DEF Request
<1>5. TypeOK'  BY <1>1, <1>3, <1>4 DEF TypeOK, Browses
<1>6. committed \in Nat  BY Types
<1>7. TranscriptInOrder'
  BY <1>1, <1>3, <1>6, EmptyTranscript DEF TranscriptInOrder, Browses
<1>8. HookInv'
  <2>1. \A q \in reqs : q.rank # "current"  BY <1>1 DEF HookInv
  <2>2. \A q \in reqs' : q.upto <= committed
    BY <1>1, <1>4, <1>6 DEF HookInv
  <2> QED  BY <1>1, <1>2, <1>3, <2>1, <2>2 DEF HookInv, Browses
<1> QED  BY <1>1, <1>2, <1>3, <1>5, <1>6, <1>7, <1>8, TurnKeeps

LEMMA UnmountKeeps ==
    ASSUME TranscriptInv, Unmount
    PROVE  TranscriptInv'
<1> USE DEF TranscriptInv
<1>1. /\ Browses /\ stream' = NoStream /\ wire' = <<>> /\ hook' = NoHook
      /\ reqs' = {[q EXCEPT !.rank = "cancelled"] : q \in reqs}
  BY DEF Unmount, Browses, session, TypeOK
<1>2. /\ NoHook \in Hook /\ NoHook.phase = "idle" /\ NoHook.cursor = 0
      /\ NoHook.messages = <<>> /\ NoHook.buffers = {} /\ NoHook.thinking = {}
      /\ [NoHook EXCEPT !.phase = "idle"] = NoHook
      /\ NoStream \in Stream /\ NoStream.pc = "none" /\ NoStream.queue = <<>>
  BY BlankHook, NewStreams
<1>3. \A q \in reqs' : /\ q \in Request /\ q.rank = "cancelled"
                       /\ \E p \in reqs : q.upto = p.upto
  <2>1. \A q \in reqs : LET r == [q EXCEPT !.rank = "cancelled"] IN
           r \in Request /\ r.rank = "cancelled" /\ r.upto = q.upto
    BY DEF TypeOK, Request
  <2> QED  BY <1>1, <2>1
<1>4. <<>> \in Seq(Event)  OBVIOUS
<1>5. TypeOK'  BY <1>1, <1>2, <1>3, <1>4 DEF TypeOK, Browses
<1>6. committed \in Nat  BY Types
<1>7. TranscriptInOrder'
  BY <1>1, <1>2, <1>6, EmptyTranscript DEF TranscriptInOrder, Browses
<1>8. HookInv'  BY <1>1, <1>2, <1>3 DEF HookInv, Browses
<1> QED  BY <1>1, <1>2, <1>5, <1>6, <1>7, <1>8, TurnKeeps

LEMMA ListKeeps ==
    ASSUME TranscriptInv, NEW q \in reqs, ListMessages(q)
    PROVE  TranscriptInv'
<1> USE DEF TranscriptInv
<1> DEFINE r == [q EXCEPT !.stage = "answered", !.upto = committed]
<1>1. /\ status' = status /\ committed' = committed /\ published' = published
      /\ deltas' = deltas /\ runner' = runner /\ overtaken' = overtaken
      /\ drops' = drops /\ mounts' = mounts /\ stream' = stream /\ wire' = wire /\ hook' = hook
      /\ reqs' = (reqs \ {q}) \cup {r}
  BY DEF ListMessages, session, server
<1>2. committed \in Nat  BY Types
<1>3. r \in Request /\ r.rank = q.rank /\ r.upto = committed
  BY <1>2 DEF TypeOK, Request
<1> HIDE DEF r
<1>4. TypeOK'  BY <1>1, <1>3 DEF TypeOK
<1>5. TranscriptInOrder' /\ CursorInv'  BY <1>1 DEF TranscriptInOrder, CursorInv
<1>6. StreamInv' /\ LiveInv'  BY <1>1 DEF StreamInv, LiveInv, Late
<1>7. HookInv'
  <2>1. \A p \in reqs' : p = r \/ (p \in reqs /\ p # q)  BY <1>1
  <2>2. \A p \in reqs' : p.upto <= committed  BY <1>2, <1>3, <2>1 DEF HookInv
  <2>3. \A p \in reqs : p # q /\ p.rank = "current" => q.rank # "current"  BY DEF HookInv
  <2>4. \A p \in reqs' : p.rank = "current" =>
           hook.phase = "hydrating" /\ \A o \in reqs' : o.rank = "current" => o = p
    BY <1>3, <2>1, <2>3 DEF HookInv
  <2> QED  BY <1>1, <2>2, <2>4 DEF HookInv
<1> QED  BY <1>4, <1>5, <1>6, <1>7

\* hydrateSessionViewState.
LEMMA HydrateKeeps ==
    ASSUME TranscriptInv, NEW q \in reqs, Hydrate(q)
    PROVE  TranscriptInv'
<1> USE DEF TranscriptInv
<1>1. Browses /\ reqs' = reqs \ {q}
  BY DEF Hydrate, Browses, session, TypeOK
<1>2. /\ q \in Request /\ q.rank \in {"current", "cancelled"} /\ q.upto \in Nat
      /\ q.upto <= committed /\ committed \in Nat /\ hook \in Hook
  BY Types DEF TypeOK, Request, HookInv
<1>3. CASE q.rank = "cancelled"
  <2>1. hook' = hook /\ stream' = stream /\ wire' = wire  BY <1>3 DEF Hydrate, server
  <2>2. TypeOK' /\ TranscriptInOrder' /\ HookInv' /\ CursorInv'
    BY <1>1, <2>1 DEF TypeOK, TranscriptInOrder, HookInv, CursorInv, Browses
  <2>3. StreamInv' /\ LiveInv'  BY <1>1, <2>1 DEF StreamInv, LiveInv, Late, Browses
  <2> QED  BY <2>2, <2>3
<1>4. CASE q.rank = "current"
  <2>1. /\ hook.phase = "hydrating" /\ hook.buffers = {} /\ hook.thinking = {}
        /\ \A p \in reqs' : p.rank # "current"
    BY <1>1, <1>4, BlankHook DEF HookInv
  <2>2. /\ hook' = [hook EXCEPT !.phase = "streaming", !.cursor = q.upto,
                                !.messages = UpTo(q.upto)]
        /\ stream' = [NoStream EXCEPT !.pc = "subscribe", !.cursor = q.upto] /\ wire' = <<>>
    BY <1>4 DEF Hydrate, Connect
  <2>3. UpTo(q.upto) \in Seq(Nat) /\ Len(UpTo(q.upto)) = q.upto  BY <1>2, UpToIs
  <2>4. /\ hook' \in Hook /\ hook'.phase = "streaming" /\ hook'.cursor = q.upto
        /\ hook'.messages = UpTo(q.upto) /\ hook'.buffers = {} /\ hook'.thinking = {}
    BY <1>2, <2>1, <2>2, <2>3 DEF Hook
  <2>5. /\ stream' \in Stream /\ stream'.pc = "subscribe" /\ stream'.cursor = q.upto
        /\ stream'.queue = <<>>
    BY <1>2, <2>2, NewStreams
  <2>6. <<>> \in Seq(Event)  OBVIOUS
  <2>7. TypeOK'  BY <1>1, <2>2, <2>4, <2>5, <2>6 DEF TypeOK, Browses
  <2>8. TranscriptInOrder'  BY <1>1, <1>2, <2>3, <2>4 DEF TranscriptInOrder, Browses
  <2>9. HookInv'  BY <1>1, <2>1, <2>4, <2>5 DEF HookInv, Browses
  <2> QED  BY <1>1, <1>2, <2>2, <2>4, <2>5, <2>7, <2>8, <2>9, TurnKeeps
<1> QED  BY <1>2, <1>3, <1>4

\* The hook goes to another phase and keeps what it shows.
LEMMA Phased ==
    ASSUME TranscriptInv, NEW p \in {"streaming", "retry", "closed", "error"},
           hook' = [hook EXCEPT !.phase = p]
    PROVE  /\ hook' \in Hook /\ hook'.phase = p /\ hook'.cursor = hook.cursor
           /\ hook'.messages = hook.messages /\ hook'.buffers = hook.buffers
           /\ hook'.thinking = hook.thinking
  BY Types DEF TranscriptInv, Hook

LEMMA HydrateFailsKeeps ==
    ASSUME TranscriptInv, NEW q \in reqs, HydrateFails(q)
    PROVE  TranscriptInv'
<1> USE DEF TranscriptInv
<1>1. /\ Browses /\ reqs' = reqs \ {q} /\ stream' = stream /\ wire' = wire
      /\ hook' = IF q.rank = "cancelled" THEN hook ELSE [hook EXCEPT !.phase = "error"]
  BY DEF HydrateFails, Browses, session, server, TypeOK
<1>2. /\ hook' \in Hook /\ hook'.cursor = hook.cursor
      /\ hook'.messages = hook.messages /\ hook'.buffers = hook.buffers
      /\ hook'.thinking = hook.thinking
      /\ hook' = hook \/ (hook'.phase = "error" /\ q.rank = "current")
  BY <1>1, Phased, Types DEF TypeOK, Request
<1>3. TypeOK' /\ TranscriptInOrder' /\ CursorInv'
  BY <1>1, <1>2 DEF TypeOK, TranscriptInOrder, CursorInv, Browses
<1>4. StreamInv' /\ LiveInv'  BY <1>1, <1>2 DEF StreamInv, LiveInv, Late, Browses
<1>5. HookInv'  BY <1>1, <1>2 DEF HookInv, Browses
<1> QED  BY <1>3, <1>4, <1>5

LEMMA LossKeeps ==
    ASSUME TranscriptInv, SourceError \/ Reconnect
    PROVE  TranscriptInv'
<1> USE DEF TranscriptInv
<1>1. Browses /\ reqs' = reqs /\ wire' = <<>> /\ hook.phase \in {"streaming", "retry"}
  BY BoundsAssumption DEF SourceError, Reconnect, Connect, Browses, session, TypeOK
<1>2. PICK p \in {"streaming", "retry"} : hook' = [hook EXCEPT !.phase = p]
  BY DEF SourceError, Reconnect
<1>3. /\ hook' \in Hook /\ hook'.phase = p /\ hook'.cursor = hook.cursor
      /\ hook'.messages = hook.messages /\ hook'.buffers = hook.buffers
      /\ hook'.thinking = hook.thinking
  BY <1>2, Phased
<1>4. /\ \/ stream' = NoStream
         \/ stream'.pc = "subscribe" /\ stream'.cursor = hook.cursor
      /\ stream' \in Stream /\ stream'.queue = <<>>
  <2>1. hook.cursor \in Nat  BY Types
  <2>2. \/ stream' = NoStream
        \/ stream' = [NoStream EXCEPT !.pc = "subscribe", !.cursor = hook.cursor]
    BY DEF SourceError, Reconnect, Connect
  <2> QED  BY <2>1, <2>2, NewStreams, ZenonT(60)
<1>5. <<>> \in Seq(Event)  OBVIOUS
<1>6. TypeOK'  BY <1>1, <1>3, <1>4, <1>5 DEF TypeOK, Browses
<1>7. TranscriptInOrder'  BY <1>1, <1>3 DEF TranscriptInOrder, Browses
<1>8. HookInv'
  <2>1. \A q \in reqs : q.rank # "current"  BY <1>1 DEF HookInv
  <2>2. stream'.pc = "none" => stream' = NoStream  BY <1>4
  <2> QED  BY <1>1, <1>3, <2>1, <2>2 DEF HookInv, Browses
<1>9. hook.cursor <= committed  BY DEF TranscriptInOrder
<1>10. /\ \A n \in hook.buffers : n <= hook.cursor => n \in overtaken
       /\ hook.buffers \cup hook.thinking \subseteq AgentSteps
  BY DEF LiveInv
<1> QED  BY <1>1, <1>3, <1>4, <1>6, <1>7, <1>8, <1>9, <1>10, TurnKeeps

\* A message that joins is shown once, however often it comes.
LEMMA Reduced ==
    ASSUME TranscriptInv, NEW e \in Event, e.type = "message", e.n >= 1, e.n <= hook.cursor + 1,
           NEW h, h = [Reduce(Reduce(hook, e), e) EXCEPT !.cursor = Max({@, e.n})]
    PROVE  /\ h \in Hook /\ h.phase = hook.phase /\ h.thinking = hook.thinking
           /\ h.cursor = IF e.n <= hook.cursor THEN hook.cursor ELSE e.n
           /\ h.messages = UpTo(h.cursor)
           /\ h.buffers = IF e.n <= hook.cursor THEN hook.buffers ELSE hook.buffers \ {e.n}
<1> USE DEF TranscriptInv
<1>1. /\ hook \in Hook /\ hook.cursor \in Nat /\ e.n \in Nat /\ hook.messages = UpTo(hook.cursor)
      /\ hook.messages \in Seq(Nat)
  BY Types DEF Event, TranscriptInOrder
<1>2. DOMAIN hook.messages = 1..hook.cursor /\ \A i \in 1..hook.cursor : hook.messages[i] = i
  BY <1>1, UpToIs
<1>3. CASE e.n <= hook.cursor
  <2>1. \E i \in DOMAIN hook.messages : hook.messages[i] = e.n
    <3>1. e.n \in 1..hook.cursor  BY <1>1, <1>3
    <3> QED  BY <1>2, <3>1
  <2>2. Reduce(hook, e) = hook  BY <2>1 DEF Reduce
  <2>3. h = [hook EXCEPT !.cursor = Max({hook.cursor, e.n})]  BY <2>2
  <2>4. Max({hook.cursor, e.n}) = hook.cursor  BY <1>1, <1>3, MaxIs
  <2> QED  BY <1>1, <1>3, <2>3, <2>4 DEF Hook
<1>4. CASE e.n = hook.cursor + 1
  <2> DEFINE g == [hook EXCEPT !.messages = Append(@, e.n), !.buffers = @ \ {e.n}]
  <2>1. ~\E i \in DOMAIN hook.messages : hook.messages[i] = e.n
    BY <1>1, <1>2, <1>4
  <2>2. Append(hook.messages, e.n) = UpTo(e.n) /\ UpTo(e.n) \in Seq(Nat)
    BY <1>1, <1>4, UpToIs
  <2>3. PICK r : r = Reduce(hook, e)  OBVIOUS
  <2>4. r = [hook EXCEPT !.messages = UpTo(e.n), !.buffers = hook.buffers \ {e.n},
                         !.thinking = hook.thinking]
    BY <2>1, <2>2, <2>3 DEF Reduce
  <2>5. /\ r \in Hook /\ r.phase = hook.phase /\ r.cursor = hook.cursor
        /\ r.messages = UpTo(e.n) /\ r.buffers = hook.buffers \ {e.n}
        /\ r.thinking = hook.thinking
    BY <1>1, <2>2, <2>4 DEF Hook
  <2>6. \E i \in DOMAIN r.messages : r.messages[i] = e.n
    <3>1. e.n \in 1..e.n  BY <1>1
    <3>2. DOMAIN UpTo(e.n) = 1..e.n /\ UpTo(e.n)[e.n] = e.n  BY <1>1, <3>1, UpToIs
    <3> QED  BY <2>5, <3>1, <3>2
  <2>7. Reduce(r, e) = r  BY <2>6 DEF Reduce
  <2>8. h = [r EXCEPT !.cursor = Max({hook.cursor, e.n})]  BY <2>3, <2>5, <2>7
  <2>9. Max({hook.cursor, e.n}) = e.n /\ ~(e.n <= hook.cursor)
    <3>1. ~(e.n <= hook.cursor)  BY <1>1, <1>4
    <3> QED  BY <1>1, <3>1, MaxIs
  <2> QED  BY <1>1, <2>5, <2>8, <2>9 DEF Hook
<1> QED  BY <1>1, <1>3, <1>4

\* What the hook shows after an event that is no message.
LEMMA ReducedLive ==
    ASSUME TranscriptInv, NEW e \in Event, e.type \in {"delta", "thinking"}, NEW h, h = Reduce(hook, e)
    PROVE  /\ h \in Hook /\ h.phase = hook.phase /\ h.cursor = hook.cursor
           /\ h.messages = hook.messages
           /\ h.buffers = IF e.type = "delta" THEN hook.buffers \cup {e.n} ELSE hook.buffers
           /\ h.thinking = IF e.type = "thinking" THEN hook.thinking \cup {e.n} ELSE hook.thinking
<1>1. hook \in Hook /\ hook.buffers \subseteq Nat /\ hook.thinking \subseteq Nat /\ e.n \in Nat
  BY Types DEF TranscriptInv, Event
<1>2. CASE e.type = "delta"
  <2>1. PICK b \in SUBSET Nat : b = hook.buffers \cup {e.n}  BY <1>1
  <2>2. h = [hook EXCEPT !.messages = hook.messages, !.buffers = b, !.thinking = hook.thinking]
    BY <1>2, <2>1 DEF Reduce
  <2> QED  BY <1>1, <1>2, <2>1, <2>2 DEF Hook
<1>3. CASE e.type = "thinking"
  <2>1. PICK b \in SUBSET Nat : b = hook.thinking \cup {e.n}  BY <1>1
  <2>2. h = [hook EXCEPT !.messages = hook.messages, !.buffers = hook.buffers, !.thinking = b]
    BY <1>3, <2>1 DEF Reduce
  <2> QED  BY <1>1, <1>3, <2>1, <2>2 DEF Hook
<1> QED  BY <1>2, <1>3

\* The listeners of the hook.
LEMMA ReceiveKeeps ==
    ASSUME TranscriptInv, Receive
    PROVE  TranscriptInv'
<1> USE DEF TranscriptInv
<1>1. PICK e : e = Head(wire)  OBVIOUS
<1>2. /\ Browses /\ reqs' = reqs /\ hook.phase = "streaming" /\ wire # <<>>
  BY DEF Receive, Browses, session, TypeOK
<1>3. /\ wire \in Seq(Event) /\ hook.cursor \in Nat /\ hook \in Hook /\ committed \in Nat
      /\ stream.cursor \in Nat /\ stream.pc # "none"
      /\ hook.cursor <= stream.cursor /\ stream.cursor <= committed
  BY <1>2, Types DEF HookInv, CursorInv
<1>4. /\ e = wire[1] /\ e \in Event /\ 1 \in DOMAIN wire /\ Proper(e, committed) /\ e.n \in Nat
  <2>1. /\ Head(wire) = wire[1] /\ Head(wire) \in Event /\ 1 \in DOMAIN wire  BY <1>2, <1>3
  <2> QED  BY <1>1, <2>1 DEF CursorInv, Event
<1>5. \A q \in reqs : q.rank # "current"  BY <1>2 DEF HookInv
<1>6. CASE e.type = "end"
  <2>1. /\ hook' = [hook EXCEPT !.phase = "closed"] /\ stream' = NoStream /\ wire' = <<>>
    BY <1>1, <1>6 DEF Receive
  <2>2. /\ hook' \in Hook /\ hook'.phase = "closed" /\ hook'.cursor = hook.cursor
        /\ hook'.messages = hook.messages /\ hook'.buffers = hook.buffers
        /\ hook'.thinking = hook.thinking
    BY <2>1, Phased
  <2>3. NoStream \in Stream /\ NoStream.queue = <<>> /\ <<>> \in Seq(Event)
    <3>1. <<>> \in Seq(Event)  OBVIOUS
    <3>2. NoStream \in Stream /\ NoStream.queue = <<>>  BY <1>3, NewStreams
    <3> QED  BY <3>1, <3>2
  <2>4. TypeOK'  BY <1>2, <2>1, <2>2, <2>3 DEF TypeOK, Browses
  <2>5. TranscriptInOrder'  BY <1>2, <2>2 DEF TranscriptInOrder, Browses
  <2>6. HookInv'  BY <1>2, <1>5, <2>1, <2>2 DEF HookInv, Browses
  <2>7. hook.cursor <= committed  BY DEF TranscriptInOrder
  <2>8. /\ \A n \in hook.buffers : n <= hook.cursor => n \in overtaken
        /\ hook.buffers \cup hook.thinking \subseteq AgentSteps
    BY DEF LiveInv
  <2> QED  BY <1>2, <2>1, <2>2, <2>3, <2>4, <2>5, <2>6, <2>7, <2>8, TurnKeeps
<1>7. CASE e.type # "end"
  <2>1. /\ wire' = Tail(wire) /\ stream' = stream
        /\ e.type = "message" =>
              hook' = [Reduce(Reduce(hook, e), e) EXCEPT !.cursor = Max({@, e.n})]
        /\ e.type # "message" => hook' = Reduce(hook, e)
    BY <1>1, <1>7 DEF Receive
  <2>2. e.type \in {"message", "delta", "thinking"}  BY <1>4, <1>7 DEF Event
  <2>3. e.type = "message" => e.n >= 1 /\ e.n <= hook.cursor + 1 /\ e.n <= stream.cursor
    <3>1. \A j \in 1..(1 - 1) : FALSE  OBVIOUS
    <3> QED  BY <1>4, <3>1 DEF StreamInv, Gapless, CursorInv, Proper
  <2>4. e.type = "message" =>
          /\ hook' \in Hook /\ hook'.phase = hook.phase /\ hook'.thinking = hook.thinking
          /\ hook'.cursor = IF e.n <= hook.cursor THEN hook.cursor ELSE e.n
          /\ hook'.messages = UpTo(hook'.cursor)
          /\ hook'.buffers = IF e.n <= hook.cursor THEN hook.buffers ELSE hook.buffers \ {e.n}
    BY <1>4, <2>1, <2>3, Reduced
  <2>5. e.type # "message" =>
          /\ hook' \in Hook /\ hook'.phase = hook.phase /\ hook'.cursor = hook.cursor
          /\ hook'.messages = hook.messages
          /\ hook'.buffers = IF e.type = "delta" THEN hook.buffers \cup {e.n} ELSE hook.buffers
          /\ hook'.thinking = IF e.type = "thinking" THEN hook.thinking \cup {e.n}
                              ELSE hook.thinking
    BY <1>4, <2>1, <2>2, ReducedLive
  <2>6. /\ hook' \in Hook /\ hook'.phase = "streaming" /\ hook'.cursor \in Nat
        /\ hook.cursor <= hook'.cursor /\ hook'.cursor <= stream.cursor
        /\ e.type = "message" => e.n <= hook'.cursor
        /\ hook'.cursor # hook.cursor => e.type = "message" /\ hook'.cursor = e.n
    BY <1>2, <1>3, <1>4, <2>3, <2>4, <2>5
  <2>7. PICK d \in Nat : d = hook'.cursor  BY <2>6
  <2>8. /\ Gapless(wire', d)
        /\ \A n \in Nat : Joins(wire, hook.cursor, n) => Joins(wire', d, n)
        /\ wire' \in Seq(Event)
        /\ DOMAIN wire' = 1..(Len(wire) - 1) /\ DOMAIN wire = 1..Len(wire) /\ Len(wire) \in Nat
        /\ \A i \in 1..(Len(wire) - 1) : wire'[i] = wire[i + 1]
    <3>1. hook.cursor <= d /\ (Head(wire).type = "message" => Head(wire).n <= d)
      BY <1>1, <2>6, <2>7
    <3> QED  BY <1>2, <1>3, <2>1, <3>1, GaplessTail DEF StreamInv
  <2>9. TypeOK'  BY <1>2, <2>1, <2>6, <2>8 DEF TypeOK, Browses
  <2>10. TranscriptInOrder'
    <3>1. hook'.messages = UpTo(hook'.cursor)  BY <2>4, <2>5 DEF TranscriptInOrder
    <3>2. Len(hook'.messages) = hook'.cursor  BY <2>6, <3>1, UpToIs
    <3> QED  BY <1>2, <1>3, <2>6, <3>1, <3>2 DEF TranscriptInOrder, Browses
  <2>11. HookInv'  BY <1>2, <1>3, <1>5, <2>1, <2>6 DEF HookInv, Browses
  <2>12. \A i \in DOMAIN wire' : i + 1 \in DOMAIN wire /\ wire'[i] = wire[i + 1]
    BY <2>8
  <2>13. CursorInv'
    BY <1>2, <1>3, <2>1, <2>6, <2>12 DEF CursorInv, Browses
  <2>14. StreamInv'
    <3>1. /\ stream.cursor + 1 \in Nat /\ published + 1 \in Nat
          /\ stream.queue # <<>> => Head(stream.queue) \in Event
      BY Types
    <3>2. stream.queue # <<>> => Head(stream.queue).n \in Nat  BY <3>1 DEF Event
    <3> QED  BY <1>2, <1>3, <2>1, <2>7, <2>8, <3>1, <3>2 DEF StreamInv, Browses
  <2>15. LiveInv'
    <3>1. ASSUME NEW i \in DOMAIN wire', wire'[i].type = "delta", Late(wire', d, i)
          PROVE  wire'[i].n \in overtaken
      <4>1. wire'[i] = wire[i + 1] /\ i + 1 \in DOMAIN wire /\ wire[i + 1].n \in Nat
        <5>1. \A j \in DOMAIN wire : wire[j] \in Event  BY <1>3
        <5> QED  BY <2>12, <5>1 DEF Event
      <4>2. Late(wire, hook.cursor, i + 1)
        <5>1. CASE wire'[i].n <= d
          <6>1. CASE d = hook.cursor  BY <4>1, <5>1, <6>1 DEF Late
          <6>2. CASE d # hook.cursor
            <7>1. e.type = "message" /\ d = e.n  BY <2>6, <2>7, <6>2
            <7>2. 1 \in 1..((i + 1) - 1)  BY <2>8
            <7> QED  BY <1>4, <4>1, <5>1, <7>1, <7>2 DEF Late
          <6> QED  BY <6>1, <6>2
        <5>2. ASSUME NEW j \in 1..(i - 1), wire'[j].type = "message", wire'[i].n <= wire'[j].n
              PROVE  Late(wire, hook.cursor, i + 1)
          <6>1. j \in DOMAIN wire' /\ j + 1 \in 1..((i + 1) - 1)  BY <2>8, <5>2
          <6> QED  BY <2>12, <4>1, <5>2, <6>1 DEF Late
        <5> QED  BY <3>1, <5>1, <5>2 DEF Late
      <4> QED  BY <3>1, <4>1, <4>2 DEF LiveInv
    <3>2. \A i \in DOMAIN wire' : Late(wire, hook.cursor, i)' <=> Late(wire', d, i)
      BY <2>7 DEF Late
    <3>3. \A n \in hook'.buffers : n <= hook'.cursor => n \in overtaken
      <4>1. CASE e.type = "message"
        BY <1>2, <1>3, <1>4, <2>3, <2>4, <4>1, Types, SMTT(30) DEF LiveInv
      <4>2. CASE e.type = "delta"
        <5>1. e.n <= hook.cursor => e.n \in overtaken
          BY <1>4, <4>2 DEF LiveInv, Late
        <5> QED  BY <2>5, <4>2, <5>1 DEF LiveInv
      <4>3. CASE e.type = "thinking"  BY <2>5, <4>3 DEF LiveInv
      <4> QED  BY <2>2, <4>1, <4>2, <4>3
    <3>4. hook'.buffers \cup hook'.thinking \subseteq AgentSteps
      <4>1. e.type # "message" => e.n \in AgentSteps  BY <1>4, <2>2 DEF Proper
      <4> QED  BY <2>4, <2>5, <4>1 DEF LiveInv
    <3> QED  BY <1>2, <3>1, <3>2, <3>3, <3>4 DEF LiveInv, Browses
  <2> QED  BY <2>9, <2>10, <2>11, <2>13, <2>14, <2>15
<1> QED  BY <1>6, <1>7

-----------------------------------------------------------------------------
(* The theorems *)

LEMMA StepKeeps == TranscriptInv /\ [Next]_vars => TranscriptInv'
<1> SUFFICES ASSUME TranscriptInv, [Next]_vars PROVE TranscriptInv'
  OBVIOUS
<1>1. CASE UNCHANGED vars
  <2>1. /\ status' = status /\ committed' = committed /\ published' = published
        /\ deltas' = deltas /\ runner' = runner /\ stream' = stream /\ wire' = wire
        /\ reqs' = reqs /\ hook' = hook /\ drops' = drops /\ mounts' = mounts
        /\ overtaken' = overtaken
    BY <1>1 DEF vars, session, server
  <2>2. TypeOK' /\ TranscriptInOrder' /\ HookInv' /\ CursorInv'
    BY <2>1 DEF TranscriptInv, TypeOK, TranscriptInOrder, HookInv, CursorInv
  <2>3. StreamInv' /\ LiveInv'  BY <2>1 DEF TranscriptInv, StreamInv, LiveInv, Late
  <2> QED  BY <2>2, <2>3 DEF TranscriptInv
<1>2. CASE RunnerStep  BY <1>2, TableKeeps, PublishKeeps DEF RunnerStep
<1>3. CASE ServerStep
  BY <1>3, QuietKeeps, ReadKeeps, TestStatusKeeps, TakeLiveKeeps DEF ServerStep
<1>4. CASE Hydration  BY <1>4, ListKeeps, HydrateKeeps DEF Hydration
<1>5. CASE \E q \in reqs : HydrateFails(q)  BY <1>5, HydrateFailsKeeps
<1>6. CASE Restart  BY <1>6, RestartKeeps
<1>7. CASE Mount \/ Unmount  BY <1>7, MountKeeps, UnmountKeeps
<1>8. CASE Receive \/ SourceError \/ Reconnect  BY <1>8, ReceiveKeeps, LossKeeps
<1> QED  BY <1>1, <1>2, <1>3, <1>4, <1>5, <1>6, <1>7, <1>8 DEF Next

\* The inductive invariant of the transcript's way from the table over queue and
\* wire to the hook.
THEOREM Transcript == Spec => []TranscriptInv
<1> QED  BY Initial, StepKeeps, PTL DEF Spec

\* The transcript in the browser is a prefix of the committed one, each message
\* once and in order, for any number of messages, mounts and lost connections.
THEOREM InOrder == Spec => []TranscriptInOrder
<1>1. TranscriptInv => TranscriptInOrder  BY DEF TranscriptInv
<1> QED  BY <1>1, Transcript, PTL

\* A step that is shown as done has its whole text, as long as one step of the
\* graph is an agent's, which is so in this program.
THEOREM Whole ==
    ASSUME OneAgentStep
    PROVE  Spec => []DoneIsWhole
<1>1. TranscriptInv => DoneIsWhole
  <2> SUFFICES ASSUME TranscriptInv, NEW n \in Seen(hook),
                      Status(hook, n) = "done" \/ n \in Stored(hook) \ overtaken
               PROVE  Text(hook, n) = "whole"
    BY DEF DoneIsWhole
  <2>1. /\ hook.buffers \cup hook.thinking \subseteq AgentSteps
        /\ \A m \in hook.buffers : m <= hook.cursor => m \in overtaken
    BY DEF TranscriptInv, LiveInv
  <2>2. \A m \in Stored(hook) : m <= hook.cursor
    <3>1. hook.cursor \in Nat /\ hook.messages = UpTo(hook.cursor)
      BY Types DEF TranscriptInv, TranscriptInOrder
    <3>2. DOMAIN hook.messages = 1..hook.cursor /\ \A i \in 1..hook.cursor : hook.messages[i] = i
      BY <3>1, UpToIs
    <3> QED  BY <3>1, <3>2 DEF Stored
  <2>3. ASSUME NEW a \in AgentSteps PROVE Max({a}) = a
    <3>1. a \in Nat  BY <2>3, StepsAssumption
    <3>2. \E x \in {a} : \A y \in {a} : x >= y  BY <3>1
    <3> QED  BY <3>2 DEF Max
  <2>4. ASSUME n \notin Stored(hook) PROVE n = LastSeen(hook)
    <3>1. n \in AgentSteps /\ n \in hook.buffers \cup hook.thinking
      BY <2>1, <2>4 DEF Seen
    <3>2. hook.thinking # {} => hook.thinking = {n}  BY <2>1, <3>1 DEF OneAgentStep
    <3>3. hook.buffers # {} => hook.buffers = {n}  BY <2>1, <3>1 DEF OneAgentStep
    <3> QED  BY <2>3, <3>1, <3>2, <3>3 DEF LastSeen
  <2>5. n \in Stored(hook)
    <3>1. CASE Status(hook, n) = "done"
      <4>1. n # LastSeen(hook)  BY <3>1 DEF Status
      <4> QED  BY <2>4, <4>1
    <3> QED  BY <3>1
  <2>6. ~(n = LastSeen(hook) /\ n \in hook.buffers)
    <3>1. CASE Status(hook, n) = "done"  BY <3>1 DEF Status
    <3>2. CASE n \notin overtaken  BY <2>1, <2>2, <2>5, <3>2
    <3> QED  BY <3>1, <3>2
  <2> QED  BY <2>5, <2>6 DEF Text
<1> QED  BY <1>1, Transcript, PTL

=============================================================================
