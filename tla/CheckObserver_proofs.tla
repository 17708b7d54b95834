------------------------ MODULE CheckObserver_proofs ------------------------
(***************************************************************************)
(* Theorems about CheckObserver: for any number of lost connections and    *)
(* failing requests a browser misses no event of the check it follows, and *)
(* what it knows of the check is never undone.                             *)
(*                                                                         *)
(* One lemma per action, or per group of actions that move the same part   *)
(* of the state, shows that it keeps ObserverInv.                          *)
(***************************************************************************)
EXTENDS CheckObserver, TLAPS

-----------------------------------------------------------------------------
(* Operators *)

\* The next cursor of the hook is the later of the two.
LEMMA NextCursorIs ==
    ASSUME NEW c \in Nat, NEW n \in Nat
    PROVE  /\ NextCursor(c, n) \in {c, n}
           /\ NextCursor(c, n) >= c /\ NextCursor(c, n) >= n
<1> DEFINE P(x) == x \in {c, n} /\ \A y \in {c, n} : x >= y
<1>1. \E x \in {c, n} : \A y \in {c, n} : x >= y
  <2>1. CASE c >= n  BY <2>1
  <2>2. CASE n >= c  BY <2>2
  <2> QED  BY <2>1, <2>2
<1>2. P(CHOOSE x \in {c, n} : \A y \in {c, n} : x >= y)
  BY <1>1
<1> QED  BY <1>2 DEF NextCursor, Max

\* What is on the wire stays there while the log grows.
LEMMA WireKept ==
    ASSUME NEW w, NEW m \in Nat, NEW n \in Nat, m <= n, w \in Seq(1..m)
    PROVE  w \in Seq(1..n)
<1>1. \A i \in 1..Len(w) : w[i] \in 1..n
  OBVIOUS
<1> QED  BY <1>1

\* Nothing on the wire leaves no gap.
LEMMA GaplessEmpty ==
    ASSUME NEW c \in Nat
    PROVE  Gapless(<<>>, c) /\ Joins(<<>>, c, c + 1) /\ Joins(<<>>, c, 1)
  BY DEF Gapless, Joins

\* An earlier event joins where a later one does.
LEMMA JoinsEarlier ==
    ASSUME NEW w \in Seq(Nat), NEW c \in Nat, NEW n \in Nat, NEW m \in Nat,
           m <= n, Joins(w, c, n)
    PROVE  Joins(w, c, m)
<1>1. \A j \in DOMAIN w : w[j] \in Nat  OBVIOUS
<1> QED  BY <1>1 DEF Joins

\* A later cursor joins as much.
LEMMA GaplessLater ==
    ASSUME NEW w \in Seq(Nat), NEW c \in Nat, NEW d \in Nat, c <= d
    PROVE  /\ Gapless(w, c) => Gapless(w, d)
           /\ \A n \in Nat : Joins(w, c, n) => Joins(w, d, n)
<1>1. \A n \in Nat : n <= c + 1 => n <= d + 1  OBVIOUS
<1>2. \A j \in DOMAIN w : w[j] \in Nat  OBVIOUS
<1> QED  BY <1>1, <1>2 DEF Gapless, Joins

\* One event that joins is added.
LEMMA GaplessAppend ==
    ASSUME NEW w \in Seq(Nat), NEW c \in Nat, NEW n \in Nat, Joins(w, c, n)
    PROVE  /\ Gapless(w, c) => Gapless(Append(w, n), c)
           /\ \A m \in Nat : Joins(w, c, m) => Joins(Append(w, n), c, m)
           /\ Joins(Append(w, n), c, n + 1)
<1> DEFINE v == Append(w, n)
<1>1. /\ DOMAIN v = 1..(Len(w) + 1) /\ DOMAIN w = 1..Len(w) /\ Len(w) \in Nat
      /\ \A i \in 1..Len(w) : v[i] = w[i]
      /\ v[Len(w) + 1] = n
  OBVIOUS
<1> HIDE DEF v
<1>2. ASSUME Gapless(w, c), NEW i \in DOMAIN v
      PROVE  v[i] <= c + 1 \/ \E j \in 1..(i - 1) : v[i] <= v[j] + 1
  <2>1. CASE i \in 1..Len(w)
    <3>1. w[i] <= c + 1 \/ \E j \in 1..(i - 1) : w[i] <= w[j] + 1
      BY <1>1, <1>2, <2>1 DEF Gapless
    <3>2. \A j \in 1..(i - 1) : v[j] = w[j]  BY <1>1, <2>1
    <3> QED  BY <1>1, <2>1, <3>1, <3>2
  <2>2. CASE i = Len(w) + 1  BY <1>1, <2>2 DEF Joins
  <2> QED  BY <1>1, <1>2, <2>1, <2>2
<1>3. \A m \in Nat : Joins(w, c, m) => Joins(v, c, m)  BY <1>1 DEF Joins
<1>4. Joins(v, c, n + 1)
  <2>1. Len(w) + 1 \in DOMAIN v /\ n + 1 <= v[Len(w) + 1] + 1  BY <1>1
  <2> QED  BY <2>1 DEF Joins
<1> QED  BY <1>2, <1>3, <1>4 DEF Gapless, v

\* What ReadEvents sends is a sequence of events of the log.
LEMMA RunIsSeq ==
    ASSUME NEW c \in Nat, NEW n \in Nat
    PROVE  [i \in 1..(n - c) |-> c + i] \in Seq(1..n)
<1>1. CASE c >= n
  <2>1. [i \in 1..(n - c) |-> c + i] = <<>>  BY <1>1
  <2> QED  BY <2>1
<1>2. CASE c < n
  <2>1. n - c \in Nat /\ \A i \in 1..(n - c) : c + i \in 1..n  BY <1>2
  <2> QED  BY <2>1
<1> QED  BY <1>1, <1>2

\* The head of a queue after another event was put into it.
LEMMA HeadOfAppend ==
    ASSUME NEW q \in Seq(Nat), NEW n \in Nat
    PROVE  /\ Append(q, n) \in Seq(Nat) /\ Append(q, n) # <<>>
           /\ Head(Append(q, n)) = IF q = <<>> THEN n ELSE Head(q)
           /\ DOMAIN Append(q, n) = 1..(Len(q) + 1) /\ DOMAIN q = 1..Len(q) /\ Len(q) \in Nat
           /\ \A i \in 1..Len(q) : Append(q, n)[i] = q[i]
           /\ Append(q, n)[Len(q) + 1] = n
<1>1. Append(q, n) \in Seq(Nat) /\ Append(q, n) # <<>> /\ Len(Append(q, n)) = Len(q) + 1
      /\ Head(Append(q, n)) = Append(q, n)[1]
  OBVIOUS
<1>2. CASE q = <<>>  BY <1>1, <1>2
<1>3. CASE q # <<>>
  <2>1. Len(q) \in Nat /\ 1 <= Len(q) /\ Head(q) = q[1]  BY <1>3
  <2> QED  BY <1>1, <1>3, <2>1
<1> QED  BY <1>2, <1>3

\* A run of k events is added.
LEMMA GaplessRun ==
    ASSUME NEW w \in Seq(Nat), NEW c \in Nat, NEW m \in Nat, NEW k \in Nat, k >= 1,
           Joins(w, c, m + 1), Gapless(w, c)
    PROVE  LET v == w \o [i \in 1..k |-> m + i] IN
           Gapless(v, c) /\ Joins(v, c, m + k + 1)
<1> DEFINE new == [i \in 1..k |-> m + i]
           v == w \o new
<1>1. new \in Seq(Nat) /\ Len(new) = k
  OBVIOUS
<1>2. \A i \in 1..k : new[i] = m + i  OBVIOUS
<1> HIDE DEF new
<1>3. /\ DOMAIN v = 1..(Len(w) + k) /\ DOMAIN w = 1..Len(w) /\ Len(w) \in Nat
      /\ \A i \in 1..Len(w) : v[i] = w[i]
  BY <1>1
<1>4. \A i \in 1..k : v[Len(w) + i] = m + i
  BY <1>1, <1>2
<1> HIDE DEF v
<1>5. ASSUME NEW i \in DOMAIN v
      PROVE  v[i] <= c + 1 \/ \E j \in 1..(i - 1) : v[i] <= v[j] + 1
  <2>1. CASE i \in 1..Len(w)
    <3>1. w[i] <= c + 1 \/ \E j \in 1..(i - 1) : w[i] <= w[j] + 1
      BY <1>3, <2>1 DEF Gapless
    <3>2. \A j \in 1..(i - 1) : v[j] = w[j]  BY <1>3, <2>1
    <3> QED  BY <1>3, <2>1, <3>1, <3>2
  <2>2. CASE i = Len(w) + 1
    <3>1. v[i] = m + 1  BY <1>4, <2>2
    <3>2. \A j \in DOMAIN w : j \in 1..(i - 1) /\ v[j] = w[j]  BY <1>3, <2>2
    <3> QED  BY <3>1, <3>2 DEF Joins
  <2>3. CASE i > Len(w) + 1
    <3>1. PICK n \in 2..k : i = Len(w) + n
      <4>1. i - Len(w) \in 2..k /\ i = Len(w) + (i - Len(w))  BY <1>3, <1>5, <2>3
      <4> QED  BY <4>1
    <3>2. n \in 1..k /\ n - 1 \in 1..k  BY <3>1
    <3>3. v[i] = m + n /\ v[Len(w) + (n - 1)] = m + (n - 1)  BY <1>4, <3>1, <3>2
    <3>4. Len(w) + (n - 1) \in 1..(i - 1)  BY <1>3, <3>1
    <3>5. v[i] <= v[Len(w) + (n - 1)] + 1  BY <3>1, <3>3
    <3> QED  BY <3>4, <3>5
  <2> QED  BY <1>3, <1>5, <2>1, <2>2, <2>3
<1>6. Joins(v, c, m + k + 1)
  <2>1. Len(w) + k \in DOMAIN v /\ m + k + 1 <= v[Len(w) + k] + 1
    <3>1. k \in 1..k  OBVIOUS
    <3>2. v[Len(w) + k] = m + k  BY <1>4, <3>1
    <3> QED  BY <1>3, <3>2
  <2> QED  BY <2>1 DEF Joins
<1> QED  BY <1>5, <1>6 DEF Gapless, v, new

\* The first event is handled, and the cursor is no less than it.
LEMMA GaplessTail ==
    ASSUME NEW w \in Seq(Nat), w # <<>>, NEW c \in Nat, NEW d \in Nat,
           c <= d, Head(w) <= d
    PROVE  /\ Gapless(w, c) => Gapless(Tail(w), d)
           /\ \A n \in Nat : Joins(w, c, n) => Joins(Tail(w), d, n)
<1> DEFINE v == Tail(w)
<1>1. /\ DOMAIN v = 1..(Len(w) - 1) /\ DOMAIN w = 1..Len(w) /\ Len(w) \in Nat
      /\ \A i \in 1..(Len(w) - 1) : v[i] = w[i + 1]
      /\ Head(w) = w[1] /\ \A i \in 1..Len(w) : w[i] \in Nat
  OBVIOUS
<1> HIDE DEF v
<1>2. ASSUME NEW n \in Nat, NEW l \in Nat, l < Len(w), NEW j \in 1..(l + 1), n <= w[j] + 1
      PROVE  n <= d + 1 \/ \E i \in 1..l : n <= v[i] + 1
  <2>1. CASE j = 1  BY <1>1, <1>2, <2>1
  <2>2. CASE j # 1
    <3>1. j - 1 \in 1..l /\ v[j - 1] = w[j]  BY <1>1, <1>2, <2>2
    <3> QED  BY <1>2, <3>1
  <2> QED  BY <2>1, <2>2
<1>3. ASSUME Gapless(w, c), NEW i \in DOMAIN v
      PROVE  v[i] <= d + 1 \/ \E j \in 1..(i - 1) : v[i] <= v[j] + 1
  <2>1. i + 1 \in DOMAIN w /\ v[i] = w[i + 1] /\ v[i] \in Nat  BY <1>1, <1>3
  <2>2. v[i] <= c + 1 \/ \E j \in 1..((i + 1) - 1) : v[i] <= w[j] + 1
    BY <1>3, <2>1 DEF Gapless
  <2>3. CASE v[i] <= c + 1  BY <2>1, <2>3
  <2>4. ASSUME NEW j \in 1..((i + 1) - 1), v[i] <= w[j] + 1
        PROVE  v[i] <= d + 1 \/ \E h \in 1..(i - 1) : v[i] <= v[h] + 1
    <3>1. i - 1 \in Nat /\ i - 1 < Len(w) /\ j \in 1..((i - 1) + 1)  BY <1>1, <1>3, <2>4, SMTT(30)
    <3> QED  BY <1>2, <2>1, <2>4, <3>1
  <2> QED  BY <2>2, <2>3, <2>4
<1>4. ASSUME NEW n \in Nat, Joins(w, c, n)
      PROVE  Joins(v, d, n)
  <2>1. CASE n <= c + 1  BY <2>1 DEF Joins
  <2>2. ASSUME NEW j \in DOMAIN w, n <= w[j] + 1
        PROVE  Joins(v, d, n)
    <3>1. Len(w) - 1 \in Nat /\ Len(w) - 1 < Len(w) /\ j \in 1..((Len(w) - 1) + 1)
      BY <1>1, <2>2
    <3> QED  BY <1>1, <1>2, <2>2, <3>1 DEF Joins
  <2> QED  BY <1>4, <2>1, <2>2 DEF Joins
<1> QED  BY <1>3, <1>4 DEF Gapless, v

\* A stream that is gone or has just begun satisfies its part of the invariant.
LEMMA NewStreams ==
    ASSUME NEW c \in Nat
    PROVE  /\ NoStream \in Stream
           /\ [NoStream EXCEPT !.pc = "load", !.cursor = c] \in Stream
           /\ NoStream.pc = "none" /\ NoStream.cursor = 0 /\ NoStream.queue = <<>>
           /\ [NoStream EXCEPT !.pc = "load", !.cursor = c].pc = "load"
           /\ [NoStream EXCEPT !.pc = "load", !.cursor = c].cursor = c
           /\ [NoStream EXCEPT !.pc = "load", !.cursor = c].queue = <<>>
<1>1. <<>> \in Seq(Nat) /\ "pending" \in Statuses
  BY DEF Statuses
<1>2. NoStream \in Stream
  BY <1>1 DEF NoStream, Stream
<1>3. [NoStream EXCEPT !.pc = "load", !.cursor = c] \in Stream
  BY <1>2 DEF Stream
<1> QED  BY <1>2, <1>3 DEF NoStream

-----------------------------------------------------------------------------
(* The initial state *)

LEMMA Initial == Init => ObserverInv
<1> SUFFICES ASSUME Init PROVE ObserverInv
  OBVIOUS
<1> USE DEF Init
<1>1. TypeOK
  <2>1. log \in Seq(EventTypes) /\ Len(log) = 1  BY DEF EventTypes
  <2>2. wire \in Seq(1..Len(log))  OBVIOUS
  <2>3. stream \in Stream  BY NewStreams
  <2>4. reqs \in SUBSET Request  BY DEF Request, NewRequest, Statuses
  <2>5. hook \in Hook  BY DEF Hook
  <2> QED  BY <2>1, <2>2, <2>3, <2>4, <2>5, DropsAssumption DEF TypeOK, Statuses
<1>2. LogInv  BY DEF LogInv, TerminalEvents
<1>3. BoundInv  BY DEF BoundInv, NoStream, NewRequest, TerminalStatuses
<1>4. HookInv /\ DetailInv  BY DEF HookInv, DetailInv, NewRequest
<1>5. StreamInv  BY GaplessEmpty DEF StreamInv, NoStream
<1> QED  BY <1>1, <1>2, <1>3, <1>4, <1>5 DEF ObserverInv

-----------------------------------------------------------------------------
(* The check *)

\* What the runner's commits and the startup hook do to the log.
Grows(to, type) ==
    /\ status \notin TerminalStatuses /\ status' = to
    /\ log' = Append(log, type)
    /\ to \in Statuses /\ type \in EventTypes
    /\ to # "pending"
    /\ type # "created"
    /\ type = "started" => Len(log) = 1
    /\ type = "checkpoint" => Len(log) = 2
    /\ type \in TerminalEvents => to \in TerminalStatuses

LEMMA GrowingLog ==
    ASSUME TypeOK, LogInv, NEW to, NEW type, Grows(to, type),
           published' \in 0..Len(log'), Len(log') <= published' + 1
    PROVE  /\ log' \in Seq(EventTypes) /\ Len(log') = Len(log) + 1
           /\ status' \in Statuses
           /\ LogInv'
<1> USE DEF Grows
<1>1. log \in Seq(EventTypes) /\ log' = Append(log, type)  BY DEF TypeOK
<1>2. log' \in Seq(EventTypes) /\ Len(log') = Len(log) + 1 /\ status' \in Statuses
  BY <1>1
<1>3. \A i \in DOMAIN log' : log'[i] = IF i = Len(log) + 1 THEN type ELSE log[i]
  BY <1>1
<1>4. \A i \in DOMAIN log' : i # Len(log) + 1 => i \in DOMAIN log
  BY <1>1
<1>5. LogInv'
  <2>1. ASSUME NEW i \in DOMAIN log'
        PROVE  /\ log'[i] = "created" => i = 1
               /\ log'[i] = "started" => i = 2
               /\ log'[i] = "checkpoint" => i = 3
               /\ log'[i] \in TerminalEvents => status' \in TerminalStatuses
    <3>1. CASE i = Len(log) + 1  BY <1>3, <3>1 DEF LogInv, TerminalEvents
    <3>2. CASE i # Len(log) + 1  BY <1>3, <1>4, <3>2 DEF LogInv
    <3> QED  BY <3>1, <3>2
  <2>2. log' # <<>>  BY <1>1, <1>2
  <2> QED  BY <2>1, <2>2 DEF LogInv
<1> QED  BY <1>2, <1>5

\* A commit of the runner.
LEMMA CommitKeeps ==
    ASSUME ObserverInv, Started \/ Checkpointed \/ Completed \/ Failed
    PROVE  ObserverInv'
<1> USE DEF ObserverInv
<1>1. PICK to, type : /\ Grows(to, type) /\ published = Len(log)
                      /\ UNCHANGED <<published, server, reqs, hook, drops>>
  <2> USE DEF Commit, Grows, Statuses, TerminalStatuses, EventTypes, TerminalEvents, LogInv, TypeOK
  <2>1. CASE Started  BY <2>1 DEF Started
  <2>2. CASE Checkpointed
    <3>1. Len(log) \in DOMAIN log  OBVIOUS
    <3>2. Len(log) = 2  BY <2>2, <3>1 DEF Checkpointed
    <3> QED  BY <2>2, <3>2 DEF Checkpointed
  <2>3. CASE Completed  BY <2>3 DEF Completed
  <2>4. CASE Failed  BY <2>4 DEF Failed
  <2> QED  BY <2>1, <2>2, <2>3, <2>4
<1>2. published' = published /\ stream' = stream /\ wire' = wire /\ reqs' = reqs
      /\ hook' = hook /\ drops' = drops
  BY <1>1 DEF server
<1>3. published' \in 0..Len(log') /\ Len(log') <= published' + 1
  BY <1>1, <1>2 DEF Grows, TypeOK
<1>4. /\ log' \in Seq(EventTypes) /\ Len(log') = Len(log) + 1
      /\ status' \in Statuses /\ LogInv'
  BY <1>1, <1>3, GrowingLog
<1>5. Len(log) \in Nat  BY DEF TypeOK
<1>6. wire' \in Seq(1..Len(log'))
  BY <1>2, <1>4, <1>5, WireKept DEF TypeOK
<1>7. TypeOK'  BY <1>2, <1>3, <1>4, <1>6 DEF TypeOK
<1>8. BoundInv'
  BY <1>1, <1>2, <1>4, <1>5 DEF BoundInv, TypeOK, Hook, Request, Stream, Grows
<1>9. HookInv' /\ DetailInv'
  BY <1>1, <1>2 DEF HookInv, DetailInv, Grows
<1>10. StreamInv'  BY <1>2 DEF StreamInv
<1> QED  BY <1>4, <1>7, <1>8, <1>9, <1>10

\* The startup hook of a new process.
LEMMA RestartKeeps ==
    ASSUME ObserverInv, Restart
    PROVE  ObserverInv'
<1> USE DEF ObserverInv
<1>1. Grows("interrupted", "interrupted")
  BY DEF Restart, Grows, Statuses, TerminalStatuses, EventTypes, TerminalEvents
<1>2. /\ wire' = wire /\ reqs' = reqs /\ hook' = hook /\ drops' = drops
      /\ stream' = stream \/ stream' = [stream EXCEPT !.pc = "ended"]
      /\ published' = Len(log) + 1
      /\ stream' = stream => stream.pc \in {"none", "ended"}
  BY DEF Restart, TypeOK, Stream
<1>3. published' \in 0..Len(log') /\ Len(log') <= published' + 1
  BY <1>1, <1>2 DEF Grows, TypeOK
<1>4. /\ log' \in Seq(EventTypes) /\ Len(log') = Len(log) + 1
      /\ status' \in Statuses /\ LogInv'
  BY <1>1, <1>3, GrowingLog
<1>5. Len(log) \in Nat  BY DEF TypeOK
<1>6. wire' \in Seq(1..Len(log'))
  BY <1>2, <1>4, <1>5, WireKept DEF TypeOK
<1>7. stream' \in Stream /\ stream'.queue = stream.queue /\ stream'.cursor = stream.cursor
      /\ stream'.pc \in {"none", "ended"}
  BY <1>2 DEF TypeOK, Stream
<1>8. TypeOK'  BY <1>2, <1>3, <1>4, <1>6, <1>7 DEF TypeOK
<1>9. BoundInv'
  BY <1>1, <1>2, <1>4, <1>5, <1>7 DEF BoundInv, TypeOK, Hook, Request, Stream, Grows, TerminalStatuses
<1>10. HookInv' /\ DetailInv'
  BY <1>1, <1>2 DEF HookInv, DetailInv, Grows
<1>11. StreamInv'  BY <1>2, <1>7 DEF StreamInv
<1> QED  BY <1>4, <1>8, <1>9, <1>10, <1>11

\* _publish_event.
LEMMA PublishKeeps ==
    ASSUME ObserverInv, Publish
    PROVE  ObserverInv'
<1> USE DEF ObserverInv
<1>1. /\ published < Len(log) /\ published' = published + 1
      /\ status' = status /\ log' = log /\ wire' = wire /\ reqs' = reqs
      /\ hook' = hook /\ drops' = drops
  BY DEF Publish
<1>2. stream \in Stream /\ stream.queue \in Seq(Nat) /\ published \in Nat /\ Len(log) \in Nat
  BY DEF TypeOK, Stream
<1>3. /\ stream' \in Stream
      /\ stream'.pc = stream.pc /\ stream'.cursor = stream.cursor
      /\ stream'.queue = IF stream.pc \in {"read", "status", "wait"}
                         THEN Append(stream.queue, published + 1) ELSE stream.queue
  <2>1. Append(stream.queue, published + 1) \in Seq(Nat)  BY <1>2, HeadOfAppend
  <2>2. PICK q \in Seq(Nat) :
           /\ stream' = [stream EXCEPT !.queue = q]
           /\ q = IF stream.pc \in {"read", "status", "wait"}
                  THEN Append(stream.queue, published + 1) ELSE stream.queue
    BY <1>2, <2>1 DEF Publish
  <2> QED  BY <1>2, <2>2 DEF Stream
<1>4. TypeOK'  BY <1>1, <1>2, <1>3 DEF TypeOK
<1>5. LogInv'  BY <1>1, <1>2 DEF LogInv
<1>6. BoundInv'
  <2>1. \A i \in DOMAIN stream'.queue : stream'.queue[i] \in 1..Len(log)
    <3>1. published + 1 \in 1..Len(log)  BY <1>1, <1>2
    <3>2. \A i \in DOMAIN Append(stream.queue, published + 1) :
             Append(stream.queue, published + 1)[i] \in 1..Len(log)
      <4>1. \A i \in 1..(Len(stream.queue) + 1) :
               i \in 1..Len(stream.queue) \/ i = Len(stream.queue) + 1
        BY <1>2
      <4> QED  BY <1>2, <3>1, <4>1, HeadOfAppend DEF BoundInv
    <3> QED  BY <1>3, <3>2 DEF BoundInv
  <2> QED  BY <1>1, <2>1 DEF BoundInv
<1>7. HookInv' /\ DetailInv'  BY <1>1 DEF HookInv, DetailInv
<1>8. StreamInv'
  <2>1. stream.pc \in {"status", "wait"} =>
          stream'.queue # <<>> /\ Head(stream'.queue) =
             IF stream.queue = <<>> THEN published + 1 ELSE Head(stream.queue)
    BY <1>2, <1>3, HeadOfAppend
  <2> QED  BY <1>1, <1>3, <2>1 DEF StreamInv
<1> QED  BY <1>4, <1>5, <1>6, <1>7, <1>8

-----------------------------------------------------------------------------
(* stream_events *)

\* The steps of the stream that send nothing.
LEMMA QuietKeeps ==
    ASSUME ObserverInv, LoadCheck \/ Subscribe \/ TestStatus \/ PollAgain
    PROVE  ObserverInv'
<1> USE DEF ObserverInv
<1>1. /\ status' = status /\ log' = log /\ published' = published /\ wire' = wire
      /\ reqs' = reqs /\ hook' = hook /\ drops' = drops
  BY DEF LoadCheck, Subscribe, TestStatus, PollAgain, check
<1>2. /\ stream' \in Stream
      /\ stream'.cursor = stream.cursor /\ stream'.queue = stream.queue
      /\ stream'.pc \in {"status", "wait"} => stream.pc = "status"
  BY DEF LoadCheck, Subscribe, TestStatus, PollAgain, TypeOK, Stream
<1>3. TypeOK'  BY <1>1, <1>2 DEF TypeOK
<1>4. LogInv' /\ HookInv' /\ DetailInv'  BY <1>1 DEF LogInv, HookInv, DetailInv
<1>5. BoundInv'  BY <1>1, <1>2 DEF BoundInv
<1>6. StreamInv'  BY <1>1, <1>2 DEF StreamInv
<1> QED  BY <1>3, <1>4, <1>5, <1>6

\* get_events_after.
LEMMA ReadKeeps ==
    ASSUME ObserverInv, ReadEvents
    PROVE  ObserverInv'
<1> USE DEF ObserverInv
<1>1. /\ status' = status /\ log' = log /\ published' = published
      /\ reqs' = reqs /\ hook' = hook /\ drops' = drops /\ stream.pc = "read"
  BY DEF ReadEvents, check
<1>2. /\ stream \in Stream /\ stream.cursor \in Nat /\ stream.queue \in Seq(Nat)
      /\ Len(log) \in Nat /\ published \in 0..Len(log) /\ wire \in Seq(1..Len(log))
      /\ wire \in Seq(Nat) /\ hook.cursor \in Nat
  BY DEF TypeOK, Stream, Hook
<1>3. LogInv' /\ HookInv' /\ DetailInv'  BY <1>1 DEF LogInv, HookInv, DetailInv
<1>4. CASE stream.cursor >= Len(log)
  <2>1. wire' = wire /\ stream' \in Stream /\ stream'.cursor = stream.cursor
        /\ stream'.queue = stream.queue
    BY <1>2, <1>4 DEF ReadEvents, Stream
  <2>2. TypeOK' /\ BoundInv'  BY <1>1, <2>1 DEF TypeOK, BoundInv
  <2>3. Joins(wire, hook.cursor, stream.cursor + 1) =>
          Joins(wire, hook.cursor,
                IF stream.queue = <<>> THEN published + 1 ELSE Head(stream.queue))
    <3>1. CASE stream.queue = <<>>
      <4>1. published + 1 \in Nat /\ published + 1 <= stream.cursor + 1  BY <1>2, <1>4
      <4> QED  BY <1>2, <3>1, <4>1, JoinsEarlier
    <3>2. CASE stream.queue # <<>>
      <4>1. Head(stream.queue) \in 1..Len(log)  BY <1>2, <3>2 DEF BoundInv
      <4>2. Head(stream.queue) \in Nat /\ Head(stream.queue) <= stream.cursor + 1
        BY <1>2, <1>4, <4>1
      <4> QED  BY <1>2, <3>2, <4>2, JoinsEarlier, SMTT(30)
    <3> QED  BY <3>1, <3>2
  <2>4. StreamInv'  BY <1>1, <2>1, <2>3 DEF StreamInv
  <2> QED  BY <1>3, <2>2, <2>4
<1>5. CASE stream.cursor < Len(log)
  <2> DEFINE k == Len(log) - stream.cursor
             new == [i \in 1..k |-> stream.cursor + i]
  <2>1. k \in Nat /\ k >= 1 /\ ~(stream.cursor >= Len(log)) /\ stream.cursor + k + 1 = Len(log) + 1
    BY <1>2, <1>5
  <2>2. new \in Seq(1..Len(log))
    BY <1>2, RunIsSeq
  <2>3. wire' = wire \o new
    BY <2>1 DEF ReadEvents
  <2>4. stream' = [stream EXCEPT !.cursor = Len(log),
                                 !.pc = IF IsTerminal(Len(log)) THEN "ended" ELSE "read"]
    BY <2>1 DEF ReadEvents
  <2>5. stream' \in Stream /\ stream'.cursor = Len(log)
        /\ stream'.queue = stream.queue /\ stream'.pc \in {"ended", "read"}
    BY <1>2, <2>4 DEF Stream
  <2>6. hook.terminal = "no" =>
          Gapless(wire', hook.cursor) /\ Joins(wire', hook.cursor, Len(log) + 1)
    BY <1>2, <2>1, <2>3, GaplessRun DEF StreamInv
  <2> HIDE DEF new
  <2>7. wire' \in Seq(1..Len(log))
    BY <1>2, <2>2, <2>3
  <2>8. TypeOK' /\ BoundInv'  BY <1>1, <2>5, <2>7 DEF TypeOK, BoundInv
  <2>9. StreamInv'  BY <1>1, <2>5, <2>6 DEF StreamInv
  <2> QED  BY <1>3, <2>8, <2>9
<1> QED  BY <1>2, <1>4, <1>5

\* A live event.
LEMMA TakeLiveKeeps ==
    ASSUME ObserverInv, TakeLive
    PROVE  ObserverInv'
<1> USE DEF ObserverInv
<1>1. /\ status' = status /\ log' = log /\ published' = published
      /\ reqs' = reqs /\ hook' = hook /\ drops' = drops
      /\ stream.pc = "wait" /\ stream.queue # <<>>
      /\ wire' = Append(wire, Head(stream.queue))
  BY DEF TakeLive, check
<1>2. /\ stream \in Stream /\ stream.queue \in Seq(Nat)
      /\ Len(log) \in Nat /\ wire \in Seq(1..Len(log)) /\ hook.cursor \in Nat
  BY DEF TypeOK, Stream, Hook
<1>3. /\ stream' \in Stream /\ stream'.cursor = stream.cursor
      /\ stream'.queue = Tail(stream.queue) /\ stream'.pc \in {"ended", "read"}
  <2>1. stream' = [stream EXCEPT !.queue = Tail(stream.queue),
                                 !.pc = IF IsTerminal(Head(stream.queue)) THEN "ended" ELSE "read"]
    BY DEF TakeLive
  <2>2. Tail(stream.queue) \in Seq(Nat)  BY <1>1, <1>2
  <2> QED  BY <1>2, <2>1, <2>2 DEF Stream
<1>4. LogInv' /\ HookInv' /\ DetailInv'  BY <1>1 DEF LogInv, HookInv, DetailInv
<1>5. Head(stream.queue) \in 1..Len(log)  BY <1>1, <1>2 DEF BoundInv
<1>6. wire' \in Seq(1..Len(log))  BY <1>1, <1>2, <1>5
<1>7. TypeOK'  BY <1>1, <1>3, <1>6 DEF TypeOK
<1>8. BoundInv'
  <2>1. \A i \in DOMAIN Tail(stream.queue) :
           i + 1 \in DOMAIN stream.queue /\ Tail(stream.queue)[i] = stream.queue[i + 1]
    BY <1>1, <1>2
  <2> QED  BY <1>1, <1>3, <2>1 DEF BoundInv
<1>9. StreamInv'
  <2>1. /\ wire \in Seq(Nat) /\ Head(stream.queue) \in Nat /\ stream.cursor + 1 \in Nat
    BY <1>2, <1>5 DEF Stream
  <2>2. hook.terminal = "no" => Gapless(wire', hook.cursor)
                                /\ Joins(wire', hook.cursor, stream.cursor + 1)
    BY <1>1, <1>2, <2>1, GaplessAppend DEF StreamInv
  <2> QED  BY <1>1, <1>3, <2>2 DEF StreamInv
<1> QED  BY <1>4, <1>7, <1>8, <1>9

-----------------------------------------------------------------------------
(* The detail endpoint *)

\* A request is replaced by itself at a later stage.
LEMMA ReadStatusKeeps ==
    ASSUME ObserverInv, NEW q \in reqs, ReadStatus(q)
    PROVE  ObserverInv'
<1> USE DEF ObserverInv
<1> DEFINE r == [q EXCEPT !.stage = "half", !.status = status]
<1>1. /\ status' = status /\ log' = log /\ published' = published /\ wire' = wire
      /\ stream' = stream /\ hook' = hook /\ drops' = drops
      /\ reqs' = (reqs \ {q}) \cup {r}
  BY DEF ReadStatus, check, server
<1>2. q \in Request /\ r \in Request /\ r.rank = q.rank /\ r.stage = "half"
      /\ r.status = status /\ r.seq = q.seq
  BY DEF TypeOK, Request
<1> HIDE DEF r
<1>3. TypeOK'  BY <1>1, <1>2 DEF TypeOK
<1>4. LogInv' /\ HookInv' /\ StreamInv'  BY <1>1 DEF LogInv, HookInv, StreamInv
<1>5. BoundInv'  BY <1>1, <1>2 DEF BoundInv
<1>6. DetailInv'
  <2>1. \A p \in reqs' : p = r \/ (p \in reqs /\ p # q)  BY <1>1
  <2>2. ASSUME NEW p \in reqs, p # q, p.rank = "latest" PROVE q.rank # "latest"
    BY <2>2 DEF DetailInv
  <2> QED  BY <1>1, <1>2, <2>1, <2>2 DEF DetailInv, HookInv
<1> QED  BY <1>3, <1>4, <1>5, <1>6

LEMMA ReadSequenceKeeps ==
    ASSUME ObserverInv, NEW q \in reqs, ReadLatestSequence(q)
    PROVE  ObserverInv'
<1> USE DEF ObserverInv
<1> DEFINE r == [q EXCEPT !.stage = "answered", !.seq = Len(log)]
<1>1. /\ status' = status /\ log' = log /\ published' = published /\ wire' = wire
      /\ stream' = stream /\ hook' = hook /\ drops' = drops /\ q.stage = "half"
      /\ reqs' = (reqs \ {q}) \cup {r}
  BY DEF ReadLatestSequence, check, server
<1>2. Len(log) \in Nat  BY DEF TypeOK
<1>3. q \in Request /\ r \in Request /\ r.rank = q.rank /\ r.stage = "answered"
      /\ r.status = q.status /\ r.seq = Len(log)
  BY <1>2 DEF TypeOK, Request
<1> HIDE DEF r
<1>4. TypeOK'  BY <1>1, <1>3 DEF TypeOK
<1>5. LogInv' /\ HookInv' /\ StreamInv'  BY <1>1 DEF LogInv, HookInv, StreamInv
<1>6. BoundInv'  BY <1>1, <1>2, <1>3 DEF BoundInv
<1>7. DetailInv'
  <2>1. \A p \in reqs' : p = r \/ (p \in reqs /\ p # q)  BY <1>1
  <2>2. ASSUME NEW p \in reqs, p # q, p.rank = "latest" PROVE q.rank # "latest"
    BY <2>2 DEF DetailInv
  <2>3. hook.cursor <= Len(log) /\ hook.cursor \in Nat  BY DEF BoundInv, TypeOK, Hook
  <2> QED  BY <1>1, <1>2, <1>3, <2>1, <2>2, <2>3 DEF DetailInv
<1> QED  BY <1>4, <1>5, <1>6, <1>7

\* The detail is applied, or dropped when a later one has been asked for.
LEMMA ApplyKeeps ==
    ASSUME ObserverInv, NEW q \in reqs, ApplyDetail(q)
    PROVE  /\ ObserverInv' /\ hook'.cursor >= hook.cursor
           /\ hook.shown = "ended" => hook'.shown = "ended"
<1> USE DEF ObserverInv
<1>1. /\ status' = status /\ log' = log /\ published' = published /\ wire' = wire
      /\ stream' = stream /\ drops' = drops /\ q.stage = "answered"
      /\ reqs' = reqs \ {q}
  BY DEF ApplyDetail, check, server
<1>2. q \in Request /\ hook \in Hook /\ hook.cursor \in Nat /\ Len(log) \in Nat
      /\ q.rank \in {"latest", "stale"} /\ q.seq \in Nat
  BY DEF TypeOK, Request, Hook
<1>3. LogInv'  BY <1>1 DEF LogInv
<1>4. CASE q.rank = "stale"
  <2>1. hook' = hook  BY <1>4 DEF ApplyDetail
  <2>2. TypeOK' /\ BoundInv' /\ HookInv' /\ DetailInv' /\ StreamInv'
    BY <1>1, <2>1 DEF TypeOK, BoundInv, HookInv, DetailInv, StreamInv
  <2> QED  BY <1>2, <1>3, <2>1, <2>2
<1>5. CASE q.rank = "latest"
  <2>1. hook' = [hook EXCEPT !.cursor = q.seq, !.detail = q.status, !.shown = Running(q.status),
                     !.terminal = IF q.status \in TerminalStatuses THEN "yes" ELSE "no",
                     !.effect = "due"]
    BY <1>5 DEF ApplyDetail
  <2>2. /\ hook' \in Hook /\ hook'.cursor = q.seq /\ hook'.detail = q.status
        /\ hook'.shown = IF q.status \in TerminalStatuses THEN "ended" ELSE "running"
        /\ hook'.terminal = IF q.status \in TerminalStatuses THEN "yes" ELSE "no"
    BY <1>2, <2>1 DEF Hook, Request, Running
  <2>3. /\ q.seq >= hook.cursor /\ q.seq <= Len(log)
        /\ hook.shown = "ended" => q.status \in TerminalStatuses
        /\ \A p \in reqs' : p.rank # "latest"
    BY <1>1, <1>5 DEF DetailInv, BoundInv
  <2>4. TypeOK'  BY <1>1, <2>2 DEF TypeOK
  <2>5. BoundInv'  BY <1>1, <2>2, <2>3 DEF BoundInv
  <2>6. q.status # "none" /\ (q.status \in TerminalStatuses => status \in TerminalStatuses)
    BY <1>2 DEF Request, Statuses, TerminalStatuses, BoundInv
  <2>7. HookInv' /\ DetailInv'  BY <1>1, <2>2, <2>3, <2>6 DEF HookInv, DetailInv
  <2>8. StreamInv'
    <3>1. ASSUME hook'.terminal = "no"
          PROVE  hook.terminal = "no"
      BY <1>2, <2>2, <2>3, <3>1 DEF HookInv, Hook
    <3>2. /\ wire \in Seq(Nat) /\ stream.cursor + 1 \in Nat
          /\ stream.queue # <<>> => Head(stream.queue) \in Nat
          /\ published + 1 \in Nat
      BY DEF TypeOK, Stream
    <3>3. /\ Gapless(wire, hook.cursor) => Gapless(wire, q.seq)
          /\ \A n \in Nat : Joins(wire, hook.cursor, n) => Joins(wire, q.seq, n)
      BY <1>2, <2>3, <3>2, GaplessLater
    <3>4. (IF stream.queue = <<>> THEN published + 1 ELSE Head(stream.queue)) \in Nat
      BY <3>2
    <3> QED  BY <1>1, <2>2, <3>1, <3>2, <3>3, <3>4 DEF StreamInv
  <2> QED  BY <1>3, <2>2, <2>3, <2>4, <2>5, <2>7, <2>8
<1> QED  BY <1>2, <1>4, <1>5

\* A request fails, and nothing but the error changes.
LEMMA FailsKeeps ==
    ASSUME ObserverInv, NEW q \in reqs, DetailFails(q)
    PROVE  /\ ObserverInv' /\ hook'.cursor = hook.cursor /\ hook'.shown = hook.shown
<1> USE DEF ObserverInv
<1>1. /\ status' = status /\ log' = log /\ published' = published /\ wire' = wire
      /\ stream' = stream /\ drops' = drops /\ reqs' = reqs \ {q}
      /\ hook' = hook \/ hook' = [hook EXCEPT !.error = "yes"]
  BY DEF DetailFails, check, server
<1>2. /\ hook' \in Hook /\ hook'.cursor = hook.cursor /\ hook'.shown = hook.shown
      /\ hook'.terminal = hook.terminal /\ hook'.detail = hook.detail
      /\ hook'.source = hook.source /\ hook'.effect = hook.effect
  BY <1>1 DEF TypeOK, Hook
<1>3. TypeOK'  BY <1>1, <1>2 DEF TypeOK
<1>4. LogInv' /\ BoundInv' /\ HookInv'  BY <1>1, <1>2 DEF LogInv, BoundInv, HookInv
<1>5. DetailInv' /\ StreamInv'  BY <1>1, <1>2 DEF DetailInv, StreamInv
<1> QED  BY <1>2, <1>3, <1>4, <1>5

-----------------------------------------------------------------------------
(* useSopQualityCheck *)

\* The hook closes its source or opens a new one at its cursor.
Turns ==
    /\ status' = status /\ log' = log /\ published' = published
    /\ hook' \in Hook /\ hook'.cursor = hook.cursor /\ hook'.shown = hook.shown
    /\ hook'.terminal = hook.terminal /\ hook'.detail = hook.detail
    /\ hook'.detail = "none" => hook'.source = "none" /\ hook'.effect = "clean"
    /\ drops' \in 0..MaxDrops /\ reqs' = reqs
    /\ \/ stream' = NoStream /\ wire' = <<>>
       \/ stream' = [NoStream EXCEPT !.pc = "load", !.cursor = hook.cursor] /\ wire' = <<>>
       \/ stream' = stream /\ wire' = wire

LEMMA TurnKeeps ==
    ASSUME ObserverInv, Turns
    PROVE  ObserverInv'
<1> USE DEF ObserverInv
<1>1. /\ status' = status /\ log' = log /\ published' = published /\ reqs' = reqs
      /\ hook' \in Hook /\ hook'.cursor = hook.cursor /\ hook'.shown = hook.shown
      /\ hook'.terminal = hook.terminal /\ hook'.detail = hook.detail
      /\ drops' \in 0..MaxDrops
  BY DEF Turns
<1>2. hook.cursor \in Nat /\ Len(log) \in Nat  BY DEF TypeOK, Hook
<1>3. LogInv' /\ HookInv' /\ DetailInv'  BY <1>1 DEF LogInv, HookInv, DetailInv, Turns
<1>4. CASE stream' = stream /\ wire' = wire
  BY <1>1, <1>3, <1>4 DEF TypeOK, BoundInv, StreamInv
<1>5. CASE ~(stream' = stream /\ wire' = wire)
  <2>1. /\ wire' = <<>> /\ stream' \in Stream /\ stream'.queue = <<>>
        /\ stream'.pc \in {"none", "load"} /\ stream'.cursor \in {0, hook.cursor}
    BY <1>2, <1>5, NewStreams DEF Turns
  <2>2. wire' \in Seq(1..Len(log))  BY <2>1
  <2>3. TypeOK'  BY <1>1, <2>1, <2>2 DEF TypeOK
  <2>4. BoundInv'  BY <1>1, <2>1 DEF BoundInv
  <2>5. Gapless(wire', hook.cursor) /\ Joins(wire', hook.cursor, stream'.cursor + 1)
    <3>1. 0 + 1 = 1  OBVIOUS
    <3> QED  BY <1>2, <2>1, <3>1, GaplessEmpty, Zenon
  <2>6. StreamInv'  BY <1>1, <2>1, <2>5 DEF StreamInv
  <2> QED  BY <1>3, <2>3, <2>4, <2>6
<1> QED  BY <1>4, <1>5

LEMMA Turning ==
    ASSUME ObserverInv, RunEffect \/ SourceError \/ Reconnect
    PROVE  Turns
<1> USE DEF ObserverInv, TypeOK, Turns, check, server, Connect
<1>1. hook \in Hook /\ MaxDrops \in Nat  BY DropsAssumption
<1>2. CASE RunEffect
  BY <1>1, <1>2 DEF RunEffect, Hook, HookInv
<1>3. CASE SourceError
  BY <1>1, <1>3 DEF SourceError, Hook, HookInv, Current
<1>4. CASE Reconnect
  BY <1>1, <1>4 DEF Reconnect, Hook, HookInv
<1> QED  BY <1>2, <1>3, <1>4

\* A new request makes every other one stale.
LEMMA Refreshed ==
    ASSUME TypeOK
    PROVE  /\ Refresh \in SUBSET Request
           /\ \A q \in Refresh :
                 /\ q.rank = "latest" => q = NewRequest
                 /\ q = NewRequest \/ \E p \in reqs : q.seq = p.seq /\ q.status = p.status
           /\ NewRequest.stage = "sent" /\ NewRequest.seq = 0 /\ NewRequest.status = "pending"
<1>1. NewRequest \in Request  BY DEF NewRequest, Request, Statuses
<1>2. \A p \in reqs : LET q == [p EXCEPT !.rank = "stale"] IN
          q \in Request /\ q.rank = "stale" /\ q.seq = p.seq /\ q.status = p.status
  BY DEF TypeOK, Request
<1> QED  BY <1>1, <1>2 DEF Refresh, NewRequest

\* handleCheckMessage.
LEMMA ReceiveKeeps ==
    ASSUME ObserverInv, Receive
    PROVE  /\ ObserverInv' /\ hook'.cursor >= hook.cursor
           /\ hook.shown = "ended" => hook'.shown = "ended"
<1> USE DEF ObserverInv
<1> DEFINE n == Head(wire)
<1>1. /\ status' = status /\ log' = log /\ published' = published /\ drops' = drops
      /\ hook.source = "open" /\ wire # <<>>
  BY DEF Receive, check
<1>2. /\ wire \in Seq(1..Len(log)) /\ wire \in Seq(Nat) /\ Len(log) \in Nat
      /\ hook \in Hook /\ hook.cursor \in Nat /\ stream \in Stream /\ stream.cursor \in Nat
      /\ log \in Seq(EventTypes) /\ DOMAIN log = 1..Len(log)
  BY DEF TypeOK, Hook, Stream
<1>3. n \in 1..Len(log) /\ Tail(wire) \in Seq(1..Len(log))
  BY <1>1, <1>2
<1>4. LogInv'  BY <1>1 DEF LogInv
<1>5. CASE ~Current
  <2>1. wire' = Tail(wire) /\ stream' = stream /\ hook' = hook /\ reqs' = reqs
    BY <1>5 DEF Receive
  <2>2. hook.terminal = "yes"  BY <1>1, <1>2, <1>5 DEF Current, Hook
  <2>3. TypeOK' /\ BoundInv' /\ HookInv' /\ DetailInv'
    BY <1>1, <1>3, <2>1 DEF TypeOK, BoundInv, HookInv, DetailInv
  <2>4. StreamInv'  BY <2>1, <2>2 DEF StreamInv
  <2> QED  BY <1>2, <1>4, <2>1, <2>3, <2>4
<1>6. CASE Current
  <2> DEFINE c == NextCursor(hook.cursor, n)
  <2>1. hook.terminal = "no" /\ hook.shown # "ended" /\ hook.detail # "none"
    BY <1>1, <1>6 DEF Current, HookInv
  <2>2. c \in Nat /\ c >= hook.cursor /\ c >= n /\ c <= Len(log) /\ c \in {hook.cursor, n}
    <3>1. n \in Nat /\ n <= Len(log) /\ hook.cursor <= Len(log)  BY <1>2, <1>3 DEF BoundInv
    <3> QED  BY <1>2, <3>1, NextCursorIs
  <2> HIDE DEF c
  <2>3. CASE IsTerminal(n)
    <3>1. /\ hook' = [hook EXCEPT !.cursor = c, !.terminal = "yes",
                          !.shown = "ended", !.source = "none", !.error = "no"]
          /\ reqs' = Refresh /\ stream' = NoStream /\ wire' = <<>>
      BY <1>6, <2>3 DEF Receive, c
    <3>2. /\ hook' \in Hook /\ hook'.cursor = c /\ hook'.terminal = "yes" /\ hook'.shown = "ended"
          /\ hook'.detail = hook.detail
      BY <1>2, <2>2, <3>1 DEF Hook
    <3>3. status \in TerminalStatuses  BY <1>2, <1>3, <2>3 DEF IsTerminal, LogInv
    <3>4. wire' \in Seq(1..Len(log)) /\ stream' \in Stream /\ stream'.queue = <<>>
      <4>1. NoStream \in Stream /\ NoStream.queue = <<>>  BY NewStreams, <1>2
      <4> QED  BY <3>1, <4>1
    <3>5. TypeOK'  BY <1>1, <3>1, <3>2, <3>4, Refreshed DEF TypeOK
    <3>6. BoundInv'
      BY <1>1, <1>2, <2>2, <3>1, <3>2, <3>3, <3>4, Refreshed DEF BoundInv
    <3>7. HookInv' /\ DetailInv'
      BY <1>1, <2>1, <3>1, <3>2, <3>3, Refreshed DEF HookInv, DetailInv
    <3>8. StreamInv'  BY <3>2 DEF StreamInv
    <3> QED  BY <1>4, <2>2, <3>2, <3>5, <3>6, <3>7, <3>8
  <2>4. CASE ~IsTerminal(n)
    <3>1. /\ hook' = [hook EXCEPT !.cursor = c,
                          !.shown = IF log[n] = "started" THEN "running" ELSE @,
                          !.error = IF log[n] = "checkpoint" THEN "no" ELSE @]
          /\ reqs' = IF log[n] = "checkpoint" THEN Refresh ELSE reqs
          /\ wire' = Tail(wire) /\ stream' = stream
      BY <1>6, <2>4 DEF Receive, c
    <3>2. /\ hook' \in Hook /\ hook'.cursor = c /\ hook'.terminal = hook.terminal
          /\ hook'.shown # "ended" /\ hook'.detail = hook.detail
      BY <1>2, <2>1, <2>2, <3>1 DEF Hook
    <3>3. TypeOK'  BY <1>1, <1>3, <3>1, <3>2, Refreshed DEF TypeOK
    <3>4. BoundInv'
      <4>1. \A q \in reqs' : q.seq <= Len(log)
                              /\ (q.status \in TerminalStatuses => status \in TerminalStatuses)
        <5>1. CASE log[n] = "checkpoint"
          <6>1. 0 <= Len(log) /\ "pending" \notin TerminalStatuses
            BY <1>2 DEF TerminalStatuses
          <6> QED  BY <3>1, <5>1, <6>1, Refreshed DEF BoundInv
        <5>2. CASE log[n] # "checkpoint"  BY <3>1, <5>2 DEF BoundInv
        <5> QED  BY <5>1, <5>2
      <4> QED  BY <1>1, <2>2, <3>1, <3>2, <4>1 DEF BoundInv
    <3>5. HookInv'  BY <2>1, <3>2 DEF HookInv
    <3>6. DetailInv'
      <4>1. CASE log[n] = "checkpoint"
        <5>1. c >= 3  BY <1>2, <1>3, <2>2, <4>1 DEF LogInv
        <5> QED  BY <3>1, <3>2, <4>1, <5>1, Refreshed DEF DetailInv
      <4>2. CASE log[n] # "checkpoint"
        <5>1. n <= 2
          <6>1. log[n] \in {"created", "started"}
            BY <1>2, <1>3, <2>4, <4>2 DEF IsTerminal, EventTypes
          <6> QED  BY <1>2, <1>3, <6>1 DEF LogInv
        <5>2. \A q \in reqs : q.rank = "latest" => hook.cursor >= 3
          BY <2>1 DEF DetailInv
        <5>3. hook.cursor >= 3 => c = hook.cursor  BY <1>2, <2>2, <5>1
        <5> QED  BY <2>1, <3>1, <3>2, <4>2, <5>2, <5>3 DEF DetailInv
      <4> QED  BY <4>1, <4>2
    <3>7. StreamInv'
      <4>1. /\ Gapless(wire, hook.cursor) => Gapless(Tail(wire), c)
            /\ \A m \in Nat : Joins(wire, hook.cursor, m) => Joins(Tail(wire), c, m)
        BY <1>1, <1>2, <2>2, GaplessTail
      <4>2. /\ stream.cursor + 1 \in Nat
            /\ (IF stream.queue = <<>> THEN published + 1 ELSE Head(stream.queue)) \in Nat
        BY <1>2 DEF TypeOK, Stream
      <4> QED  BY <1>1, <3>1, <3>2, <4>1, <4>2 DEF StreamInv
    <3> QED  BY <1>4, <2>1, <2>2, <3>2, <3>3, <3>4, <3>5, <3>6, <3>7
  <2> QED  BY <2>3, <2>4
<1> QED  BY <1>5, <1>6

-----------------------------------------------------------------------------
(* The theorems *)

\* Every step keeps the invariant, and none takes back what the browser knows.
LEMMA StepKeeps ==
    ASSUME ObserverInv, [Next]_vars
    PROVE  /\ ObserverInv' /\ hook'.cursor >= hook.cursor
           /\ hook.shown = "ended" => hook'.shown = "ended"
<1>1. hook.cursor \in Nat  BY DEF ObserverInv, TypeOK, Hook
<1>2. CASE UNCHANGED vars
  <2>1. /\ status' = status /\ log' = log /\ published' = published /\ stream' = stream
        /\ wire' = wire /\ reqs' = reqs /\ hook' = hook /\ drops' = drops
    BY <1>2 DEF vars, check, server
  <2>2. TypeOK' /\ LogInv' /\ BoundInv'  BY <2>1 DEF ObserverInv, TypeOK, LogInv, BoundInv
  <2>3. HookInv' /\ DetailInv' /\ StreamInv'
    BY <2>1 DEF ObserverInv, HookInv, DetailInv, StreamInv
  <2> QED  BY <1>1, <2>1, <2>2, <2>3 DEF ObserverInv
<1>3. CASE Started \/ Checkpointed \/ Completed \/ Failed
  BY <1>1, <1>3, CommitKeeps DEF Started, Checkpointed, Completed, Failed, Commit
<1>4. CASE Publish  BY <1>1, <1>4, PublishKeeps DEF Publish
<1>5. CASE Restart  BY <1>1, <1>5, RestartKeeps DEF Restart
<1>6. CASE LoadCheck \/ Subscribe \/ TestStatus \/ PollAgain
  <2>1. hook' = hook  BY <1>6 DEF LoadCheck, Subscribe, TestStatus, PollAgain
  <2> QED  BY <1>1, <1>6, <2>1, QuietKeeps
<1>7. CASE ReadEvents
  <2>1. hook' = hook  BY <1>7 DEF ReadEvents
  <2> QED  BY <1>1, <1>7, <2>1, ReadKeeps
<1>8. CASE TakeLive  BY <1>1, <1>8, TakeLiveKeeps DEF TakeLive
<1>9. ASSUME NEW q \in reqs,
             ReadStatus(q) \/ ReadLatestSequence(q) \/ ApplyDetail(q) \/ DetailFails(q)
      PROVE  /\ ObserverInv' /\ hook'.cursor >= hook.cursor
             /\ hook.shown = "ended" => hook'.shown = "ended"
  <2>1. CASE ReadStatus(q)
    <3>1. hook' = hook  BY <2>1 DEF ReadStatus
    <3> QED  BY <1>1, <2>1, <3>1, ReadStatusKeeps
  <2>2. CASE ReadLatestSequence(q)
    <3>1. hook' = hook  BY <2>2 DEF ReadLatestSequence
    <3> QED  BY <1>1, <2>2, <3>1, ReadSequenceKeeps
  <2>3. CASE ApplyDetail(q)  BY <2>3, ApplyKeeps
  <2>4. CASE DetailFails(q)  BY <1>1, <2>4, FailsKeeps
  <2> QED  BY <1>9, <2>1, <2>2, <2>3, <2>4
<1>10. CASE RunEffect \/ SourceError \/ Reconnect
  BY <1>1, <1>10, Turning, TurnKeeps DEF Turns
<1>11. CASE Receive  BY <1>11, ReceiveKeeps
<1> QED
  BY <1>2, <1>3, <1>4, <1>5, <1>6, <1>7, <1>8, <1>9, <1>10, <1>11
  DEF Next, RunnerStep, ServerStep, DetailStep, HookStep

\* The inductive invariant: what is in the log, in the queue, on the wire, in the
\* answers under way and in the browser fits together.
THEOREM Following == Spec => []ObserverInv
<1>1. Init => ObserverInv  BY Initial
<1>2. ObserverInv /\ [Next]_vars => ObserverInv'  BY StepKeeps
<1> QED  BY <1>1, <1>2, PTL DEF Spec

\* Replay and live delivery together skip no event, over any number of lost
\* connections.
THEOREM GapFree == Spec => []NoGap
<1>1. ObserverInv => NoGap
  <2> SUFFICES ASSUME ObserverInv, Current, wire # <<>>
               PROVE  Head(wire) <= hook.cursor + 1
    BY DEF NoGap
  <2>1. wire \in Seq(Nat) /\ 1 \in DOMAIN wire /\ Head(wire) = wire[1]
    BY DEF ObserverInv, TypeOK
  <2>2. Gapless(wire, hook.cursor)  BY DEF ObserverInv, StreamInv, Current
  <2>3. \A j \in 1..(1 - 1) : FALSE  OBVIOUS
  <2> QED  BY <2>1, <2>2, <2>3 DEF Gapless
<1> QED  BY <1>1, Following, PTL

\* Neither repeated events nor late answers undo what the browser knows.
THEOREM NotUndone == Spec => ViewNeverGoesBack
<1>1. ObserverInv /\ [Next]_vars =>
        [hook'.cursor >= hook.cursor /\ (hook.shown = "ended" => hook'.shown = "ended")]_vars
  BY StepKeeps
<1> QED  BY <1>1, Following, PTL DEF Spec, ViewNeverGoesBack

=============================================================================
