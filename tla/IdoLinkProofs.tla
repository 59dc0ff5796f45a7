------------------------------ MODULE IdoLinkProofs ------------------------------
(***************************************************************************)
(* What idomod tells arrives once and in order, as far as it is not lost,  *)
(* for every size of the buffer and of the connections and every number of *)
(* events and faults.                                                      *)
(***************************************************************************)
EXTENDS IdoLink, SequenceTheorems, TLAPS

\* A sequence has its events in the order of their numbers; the events of one set come
\* before those of another.
Rising(s) ==
    \A i, j \in 1 .. Len(s) : i < j /\ IsEvent(s[i]) /\ IsEvent(s[j]) => s[i] < s[j]
Ahead(A, B) == \A a \in A, b \in B : a < b

\* The events of a connection and of calls.
Own(c) == Events(c.got) \cup Events(c.pipe)
CallEvents(st) == {st[i].buf : i \in {j \in 1 .. Len(st) : IsEvent(st[j].buf)}}

\* The events all are in the connections, the file, the buffer and the calls, in this order.
Line(cs, F, B, S, all) ==
    /\ \A i, j \in 1 .. Len(cs) : i < j => Ahead(Own(cs[i]), Own(cs[j]))
    /\ \A i \in 1 .. Len(cs) : /\ Ahead(Own(cs[i]), F) /\ Ahead(Own(cs[i]), B)
                               /\ Ahead(Own(cs[i]), S)
    /\ Ahead(F, B) /\ Ahead(F, S) /\ Ahead(B, S)
    /\ \A i \in 1 .. Len(cs) : Own(cs[i]) \subseteq all
    /\ F \subseteq all /\ B \subseteq all /\ S \subseteq all
    /\ \A e \in all : \/ \E i \in 1 .. Len(cs) : e \in Own(cs[i])
                      \/ e \in F \/ e \in B \/ e \in S

\* The child reads each event of a pipe in the data section: a hello is before it, or was
\* read, and no goodbye.
Introduced(c) ==
    \A j \in 1 .. Len(c.pipe) : IsEvent(c.pipe[j]) =>
        /\ c.section = "data" \/ \E k \in 1 .. j - 1 : c.pipe[k] = Hello
        /\ \A k \in 1 .. j - 1 : c.pipe[k] # Goodbye

ConnectionOK(c) ==
    /\ Rising(c.got) /\ Rising(c.pipe) /\ Ahead(Events(c.got), Events(c.pipe))
    /\ Introduced(c)

NoGoodbye(s) == \A i \in 1 .. Len(s) : s[i] # Goodbye

\* What is appended to the pipe will be read in the data section.
Greeted(c) == c.section = "data" \/ \E k \in 1 .. Len(c.pipe) : c.pipe[k] = Hello

\* Only the outermost call has an event, while the module is running.
FrameOK(f, i, ph) ==
    /\ IsEvent(f.buf) => i = 1 /\ ph = "running" /\ f.flush_buffer /\ f.buffer_write
    /\ f.buf = Hello => ~f.flush_buffer /\ ~f.buffer_write
    /\ f.buf = Goodbye => ph = "ending" /\ ~f.buffer_write
    /\ ph # "running" => ~f.buffer_write

CallsOK(st, ph) == \A i \in 1 .. Len(st) : FrameOK(st[i], i, ph)

\* An event is only written when none is in the buffer.
Flushes(st, buf) ==
    \A i \in 1 .. Len(st) : IsEvent(st[i].buf) /\ st[i].at = "write" => Events(buf) = {}

\* The hello of a new connection is about to be written.
Greets(st) ==
    st # << >> /\ st[Len(st)].buf = Hello /\ st[Len(st)].at \in {"enter", "flush", "write"}

\* A connection that is open begins with a hello, and a goodbye is the last of it.
GreetingOK(c, st) ==
    /\ NoGoodbye(c.pipe)
    /\ c.state = "open" => Greeted(c) \/ Greets(st)

GreetInv ==
    open /\ phase \in {"starting", "running"} => GreetingOK(conns[Newest], stack)

\* The file has messages only while the module is not there to use it.
PhaseInv ==
    /\ file # << >> => phase \in {"ending", "stopped"} /\ buffer = << >>
    /\ phase = "stopped" => stack = << >> /\ buffer = << >> /\ ~open

LineInv == Line(conns, Events(file), Events(buffer), CallEvents(stack), 1 .. told \ lost)

IInv ==
    /\ TypeOK /\ LineInv
    /\ \A i \in 1 .. Len(conns) : ConnectionOK(conns[i])
    /\ Rising(file) /\ Rising(buffer) /\ NoGoodbye(file) /\ NoGoodbye(buffer)
    /\ CallsOK(stack, phase) /\ Flushes(stack, buffer)
    /\ GreetInv /\ PhaseInv

---------------------------------------------------------------------------------
(* Sequences of messages. *)

LEMMA MessageIs ==
    /\ Message \subseteq Int
    /\ Other \in Message /\ Hello \in Message /\ Goodbye \in Message
    /\ ~IsEvent(Other) /\ ~IsEvent(Hello) /\ ~IsEvent(Goodbye)
    /\ Other # Hello /\ Other # Goodbye /\ Hello # Goodbye
BY LinkAssumption DEF Message, Other, Hello, Goodbye, IsEvent

LEMMA EventsAre ==
    ASSUME NEW s \in Seq(Message)
    PROVE  /\ \A m : m \in Events(s) <=> IsEvent(m) /\ \E i \in 1 .. Len(s) : s[i] = m
           /\ Events(s) \subseteq Int
<1>1. ToSet(s) = {s[i] : i \in 1 .. Len(s)}
  BY DEF ToSet
<1>2. \A i \in 1 .. Len(s) : s[i] \in Int
  <2>1. \A i \in 1 .. Len(s) : s[i] \in Message
    OBVIOUS
  <2> QED BY <2>1, MessageIs
<1> QED BY <1>1, <1>2 DEF Events

LEMMA NoEvents == Events(<< >>) = {} /\ Rising(<< >>) /\ NoGoodbye(<< >>)
BY DEF Events, ToSet, Rising, NoGoodbye

LEMMA OneEvent ==
    ASSUME NEW m \in Message
    PROVE  /\ IsEvent(m) => Events(<< m >>) = {m}
           /\ ~IsEvent(m) => Events(<< m >>) = {}
           /\ << m >> \in Seq(Message)
BY DEF Events, ToSet

LEMMA AppendIs ==
    ASSUME NEW s \in Seq(Message), NEW m \in Message
    PROVE  /\ Append(s, m) \in Seq(Message) /\ Len(Append(s, m)) = Len(s) + 1
           /\ Append(s, m)[Len(s) + 1] = m
           /\ \A i \in 1 .. Len(s) : Append(s, m)[i] = s[i]
           /\ Events(Append(s, m)) = Events(s) \cup Events(<< m >>)
           /\ Rising(s) /\ Ahead(Events(s), Events(<< m >>)) => Rising(Append(s, m))
           /\ NoGoodbye(s) /\ m # Goodbye => NoGoodbye(Append(s, m))
<1> DEFINE t == Append(s, m)
<1>1. /\ t \in Seq(Message) /\ Len(t) = Len(s) + 1 /\ t[Len(s) + 1] = m
      /\ \A i \in 1 .. Len(s) : t[i] = s[i]
  OBVIOUS
<1> HIDE DEF t
<1>2. Len(s) \in Nat
  OBVIOUS
<1>3. \A e : e \in Events(t) <=> e \in Events(s) \/ e \in Events(<< m >>)
  <2>1. \A e : e \in Events(<< m >>) <=> IsEvent(e) /\ e = m
    BY OneEvent
  <2>2. \A e : e \in Events(s) <=> IsEvent(e) /\ \E i \in 1 .. Len(s) : s[i] = e
    BY EventsAre
  <2>3. \A e : e \in Events(t) <=> IsEvent(e) /\ \E i \in 1 .. Len(t) : t[i] = e
    BY <1>1, EventsAre
  <2>4. \A e : (\E i \in 1 .. Len(t) : t[i] = e) <=> e = m \/ \E i \in 1 .. Len(s) : s[i] = e
    <3>1. \A i \in 1 .. Len(t) : i \in 1 .. Len(s) \/ i = Len(s) + 1
      BY <1>1, <1>2
    <3>2. \A i \in 1 .. Len(s) : i \in 1 .. Len(t)
      BY <1>1, <1>2
    <3>3. Len(s) + 1 \in 1 .. Len(t)
      BY <1>1, <1>2
    <3> QED BY <1>1, <3>1, <3>2, <3>3
  <2> QED BY <2>1, <2>2, <2>3, <2>4
<1>4. Events(t) = Events(s) \cup Events(<< m >>)
  BY <1>3
<1>5. ASSUME Rising(s), Ahead(Events(s), Events(<< m >>)) PROVE Rising(t)
  <2> SUFFICES ASSUME NEW i \in 1 .. Len(t), NEW j \in 1 .. Len(t), i < j,
                      IsEvent(t[i]), IsEvent(t[j])
               PROVE  t[i] < t[j]
    BY DEF Rising
  <2>1. i \in 1 .. Len(s) /\ t[i] = s[i]
    BY <1>1, <1>2
  <2>2. CASE j \in 1 .. Len(s)
    BY <1>1, <1>5, <2>1, <2>2 DEF Rising
  <2>3. CASE j = Len(s) + 1
    <3>1. s[i] \in Events(s) /\ m \in Events(<< m >>)
      BY <1>1, <2>1, <2>3, EventsAre, OneEvent
    <3> QED BY <1>1, <1>5, <2>1, <2>3, <3>1 DEF Ahead
  <2> QED BY <1>1, <1>2, <2>2, <2>3
<1>6. NoGoodbye(s) /\ m # Goodbye => NoGoodbye(t)
  BY <1>1, <1>2 DEF NoGoodbye
<1> QED BY <1>1, <1>4, <1>5, <1>6 DEF t

\* A sequence cut in two.
LEMMA CutIs ==
    ASSUME NEW s \in Seq(Message), NEW n \in 0 .. Len(s)
    PROVE  LET a == SubSeq(s, 1, n)
               b == SubSeq(s, n + 1, Len(s))
           IN /\ a \in Seq(Message) /\ Len(a) = n /\ \A i \in 1 .. n : a[i] = s[i]
              /\ b \in Seq(Message) /\ Len(b) = Len(s) - n
              /\ \A i \in 1 .. Len(b) : b[i] = s[n + i]
              /\ Events(s) = Events(a) \cup Events(b)
              /\ Rising(s) => Rising(a) /\ Rising(b) /\ Ahead(Events(a), Events(b))
              /\ NoGoodbye(s) => NoGoodbye(a) /\ NoGoodbye(b)
<1> DEFINE a == SubSeq(s, 1, n)
           b == SubSeq(s, n + 1, Len(s))
<1>0. Len(s) \in Nat /\ n \in Nat
  OBVIOUS
<1>1. /\ a \in Seq(Message) /\ Len(a) = n /\ \A i \in 1 .. n : a[i] = s[i]
      /\ b \in Seq(Message) /\ Len(b) = Len(s) - n
      /\ \A i \in 1 .. Len(b) : b[i] = s[n + i]
  OBVIOUS
<1> HIDE DEF a, b
<1>2. \A i \in 1 .. Len(s) : \/ i \in 1 .. n /\ s[i] = a[i]
                             \/ i - n \in 1 .. Len(b) /\ s[i] = b[i - n]
  BY <1>0, <1>1
<1>3. /\ \A i \in 1 .. n : i \in 1 .. Len(s)
      /\ \A i \in 1 .. Len(b) : n + i \in 1 .. Len(s)
  BY <1>0, <1>1
<1>4. /\ \A e : e \in Events(s) <=> IsEvent(e) /\ \E i \in 1 .. Len(s) : s[i] = e
      /\ \A e : e \in Events(a) <=> IsEvent(e) /\ \E i \in 1 .. Len(a) : a[i] = e
      /\ \A e : e \in Events(b) <=> IsEvent(e) /\ \E i \in 1 .. Len(b) : b[i] = e
  BY <1>1, EventsAre
<1>5. Events(s) = Events(a) \cup Events(b)
  <2>1. ASSUME NEW e \in Events(s) PROVE e \in Events(a) \cup Events(b)
    <3>1. PICK i \in 1 .. Len(s) : s[i] = e
      BY <1>4
    <3>2. \/ \E k \in 1 .. Len(a) : a[k] = e
          \/ \E k \in 1 .. Len(b) : b[k] = e
      BY <1>1, <1>2, <3>1
    <3> QED BY <1>4, <3>2
  <2>2. ASSUME NEW e \in Events(a) PROVE e \in Events(s)
    BY <1>1, <1>3, <1>4
  <2>3. ASSUME NEW e \in Events(b) PROVE e \in Events(s)
    BY <1>1, <1>3, <1>4
  <2> QED BY <2>1, <2>2, <2>3
<1>6. ASSUME Rising(s) PROVE Rising(a) /\ Rising(b) /\ Ahead(Events(a), Events(b))
  <2>1. Rising(a)
    BY <1>0, <1>1, <1>3, <1>6 DEF Rising
  <2>2. Rising(b)
    <3> SUFFICES ASSUME NEW i \in 1 .. Len(b), NEW j \in 1 .. Len(b), i < j,
                        IsEvent(b[i]), IsEvent(b[j])
                 PROVE  b[i] < b[j]
      BY DEF Rising
    <3>1. n + i \in 1 .. Len(s) /\ n + j \in 1 .. Len(s) /\ n + i < n + j
      BY <1>0, <1>1, <1>3
    <3>2. s[n + i] = b[i] /\ s[n + j] = b[j]
      BY <1>1
    <3> QED BY <1>6, <3>1, <3>2 DEF Rising
  <2>3. Ahead(Events(a), Events(b))
    <3> SUFFICES ASSUME NEW x \in Events(a), NEW y \in Events(b) PROVE x < y
      BY DEF Ahead
    <3>1. PICK i \in 1 .. n : a[i] = x
      BY <1>1, <1>4
    <3>2. PICK j \in 1 .. Len(b) : b[j] = y
      BY <1>4
    <3>3. i \in 1 .. Len(s) /\ n + j \in 1 .. Len(s) /\ i < n + j
      BY <1>0, <1>1, <1>3
    <3>4. s[i] = x /\ s[n + j] = y /\ IsEvent(x) /\ IsEvent(y)
      BY <1>1, <1>4, <3>1, <3>2
    <3> QED BY <1>6, <3>3, <3>4 DEF Rising
  <2> QED BY <2>1, <2>2, <2>3
<1>7. NoGoodbye(s) => NoGoodbye(a) /\ NoGoodbye(b)
  BY <1>1, <1>3 DEF NoGoodbye
<1> QED BY <1>1, <1>5, <1>6, <1>7 DEF a, b

LEMMA HeadIs ==
    ASSUME NEW s \in Seq(Message), s # << >>
    PROVE  /\ Head(s) \in Message /\ Head(s) = s[1] /\ Len(s) \in Nat \ {0}
           /\ Tail(s) \in Seq(Message) /\ Len(Tail(s)) = Len(s) - 1
           /\ \A i \in 1 .. Len(Tail(s)) : Tail(s)[i] = s[1 + i]
           /\ Events(s) = Events(<< Head(s) >>) \cup Events(Tail(s))
           /\ Rising(s) => Rising(Tail(s)) /\ Ahead(Events(<< Head(s) >>), Events(Tail(s)))
           /\ NoGoodbye(s) => NoGoodbye(Tail(s)) /\ Head(s) # Goodbye
<1>1. Len(s) \in Nat \ {0} /\ 1 \in 0 .. Len(s) /\ Head(s) = s[1] /\ Head(s) \in Message
  OBVIOUS
<1>2. Tail(s) = SubSeq(s, 1 + 1, Len(s))
  BY <1>1, TailIsSubSeq
<1>3. SubSeq(s, 1, 1) = << Head(s) >>
  <2>1. /\ SubSeq(s, 1, 1) \in Seq(Message) /\ Len(SubSeq(s, 1, 1)) = 1
        /\ \A i \in 1 .. 1 : SubSeq(s, 1, 1)[i] = s[i]
    BY <1>1, CutIs
  <2>2. << Head(s) >> \in Seq(Message) /\ Len(<< Head(s) >>) = 1 /\ << Head(s) >>[1] = s[1]
    BY <1>1
  <2>3. \A i \in 1 .. 1 : SubSeq(s, 1, 1)[i] = << Head(s) >>[i]
    BY <2>1, <2>2
  <2> QED BY <2>1, <2>2, <2>3, SeqEqual
<1>4. NoGoodbye(s) => Head(s) # Goodbye
  BY <1>1 DEF NoGoodbye
<1> DEFINE t == Tail(s)
<1>5. t = SubSeq(s, 1 + 1, Len(s))
  BY <1>2
<1> HIDE DEF t
<1>6. /\ t \in Seq(Message) /\ Len(t) = Len(s) - 1
      /\ \A i \in 1 .. Len(t) : t[i] = s[1 + i]
      /\ Events(s) = Events(<< Head(s) >>) \cup Events(t)
      /\ Rising(s) => Rising(t) /\ Ahead(Events(<< Head(s) >>), Events(t))
      /\ NoGoodbye(s) => NoGoodbye(t)
  BY <1>1, <1>3, <1>5, CutIs
<1> QED BY <1>1, <1>4, <1>6 DEF t

---------------------------------------------------------------------------------
(* The line of events. *)

LEMMA AheadIs ==
    /\ \A A, B, C : Ahead(A, B) /\ C \subseteq A => Ahead(C, B)
    /\ \A A, B, C : Ahead(A, B) /\ C \subseteq B => Ahead(A, C)
    /\ \A A, B, C : Ahead(A, B) /\ Ahead(A, C) => Ahead(A, B \cup C)
    /\ \A A, B, C : Ahead(A, C) /\ Ahead(B, C) => Ahead(A \cup B, C)
    /\ \A A : Ahead(A, {}) /\ Ahead({}, A)
BY DEF Ahead

LEMMA AheadDisjoint ==
    ASSUME NEW A, NEW B \in SUBSET Int, Ahead(A, B)
    PROVE  A \cap B = {}
<1> SUFFICES ASSUME NEW e \in A \cap B PROVE FALSE
  OBVIOUS
<1>1. e < e /\ e \in Int
  BY DEF Ahead
<1> QED BY <1>1

\* The connections may change as long as they have the events they had.
LEMMA LineSame ==
    ASSUME NEW cs, NEW ds, NEW F, NEW B, NEW S, NEW all, Line(cs, F, B, S, all),
           Len(ds) = Len(cs), \A i \in 1 .. Len(cs) : Own(ds[i]) = Own(cs[i])
    PROVE  Line(ds, F, B, S, all)
BY DEF Line

\* A new connection.
LEMMA LineConnect ==
    ASSUME NEW cs, NEW ds, NEW F, NEW B, NEW S, NEW all, Line(cs, F, B, S, all),
           Len(cs) \in Nat, Len(ds) = Len(cs) + 1, Own(ds[Len(ds)]) = {},
           \A i \in 1 .. Len(cs) : Own(ds[i]) = Own(cs[i])
    PROVE  Line(ds, F, B, S, all)
<1>1. /\ \A i \in 1 .. Len(ds) : \/ i \in 1 .. Len(cs) /\ Own(ds[i]) = Own(cs[i])
                                 \/ i = Len(ds) /\ Own(ds[i]) = {}
      /\ \A i \in 1 .. Len(cs) : i \in 1 .. Len(ds)
  OBVIOUS
<1> QED BY <1>1, AheadIs DEF Line

\* The newest connection got the events X.
Sent(cs, ds, X) ==
    /\ Len(cs) \in Nat \ {0} /\ Len(ds) = Len(cs)
    /\ \A i \in 1 .. Len(cs) :
         Own(ds[i]) = IF i = Len(cs) THEN Own(cs[i]) \cup X ELSE Own(cs[i])

\* The first event of the buffer, or of the calls, goes to the newest connection.
LEMMA LineSend ==
    ASSUME NEW cs, NEW ds, NEW B, NEW S, NEW X, NEW C, NEW T, NEW all,
           Sent(cs, ds, X), Line(cs, {}, B, S, all), B \cup S = X \cup C \cup T,
           Ahead(X, C), Ahead(X, T), Ahead(C, T)
    PROVE  Line(ds, {}, C, T, all)
<1> DEFINE n == Len(cs)
<1>0. n \in 1 .. n /\ n \in Nat /\ Len(ds) = n
  BY DEF Sent
<1>1. ASSUME NEW i \in 1 .. n
      PROVE  Ahead(Own(cs[i]), X) /\ Ahead(Own(cs[i]), C) /\ Ahead(Own(cs[i]), T)
  <2>1. Ahead(Own(cs[i]), B \cup S)
    BY AheadIs DEF Line
  <2> QED BY <2>1, AheadIs
<1>2. ASSUME NEW i \in 1 .. n, NEW j \in 1 .. n, i < j
      PROVE  Ahead(Own(ds[i]), Own(ds[j]))
  <2>1. Own(ds[i]) = Own(cs[i])
    <3>1. i # n
      BY <1>0, <1>2
    <3> QED BY <3>1 DEF Sent
  <2>2. Ahead(Own(cs[i]), Own(cs[j]))
    BY <1>2 DEF Line
  <2>3. Own(ds[j]) = Own(cs[j]) \/ Own(ds[j]) = Own(cs[j]) \cup X
    BY DEF Sent
  <2> QED BY <1>1, <2>1, <2>2, <2>3, AheadIs
<1>4. ASSUME NEW i \in 1 .. n
      PROVE  /\ Ahead(Own(ds[i]), {}) /\ Ahead(Own(ds[i]), C) /\ Ahead(Own(ds[i]), T)
             /\ Own(ds[i]) \subseteq all
  <2>1. Own(cs[i]) \subseteq all /\ X \subseteq all
    BY DEF Line
  <2>2. Own(ds[i]) = Own(cs[i]) \/ Own(ds[i]) = Own(cs[i]) \cup X
    BY DEF Sent
  <2> QED BY <1>1, <2>1, <2>2, AheadIs
<1>5. ASSUME NEW e \in all
      PROVE  (\E i \in 1 .. n : e \in Own(ds[i])) \/ e \in C \/ e \in T
  <2>1. (\E i \in 1 .. n : e \in Own(cs[i])) \/ e \in X \/ e \in C \/ e \in T
    BY DEF Line
  <2>2. Own(ds[n]) = Own(cs[n]) \cup X
    BY <1>0 DEF Sent
  <2> QED BY <1>0, <2>1, <2>2 DEF Sent
<1>6. C \subseteq all /\ T \subseteq all /\ Ahead({}, C) /\ Ahead({}, T)
  BY AheadIs DEF Line
<1> QED BY <1>0, <1>2, <1>4, <1>5, <1>6 DEF Line

LEMMA LineSendBuffer ==
    ASSUME NEW cs, NEW ds, NEW X, NEW C, NEW T, NEW all,
           Sent(cs, ds, X), Line(cs, {}, X \cup C, T, all), Ahead(X, C)
    PROVE  Line(ds, {}, C, T, all)
<1>1. Ahead(X, T) /\ Ahead(C, T) /\ (X \cup C) \cup T = X \cup C \cup T
  BY AheadIs DEF Line
<1> QED BY <1>1, LineSend

LEMMA LineSendCall ==
    ASSUME NEW cs, NEW ds, NEW X, NEW T, NEW all,
           Sent(cs, ds, X), Line(cs, {}, {}, X \cup T, all), Ahead(X, T)
    PROVE  Line(ds, {}, {}, T, all)
<1>1. Ahead(X, {}) /\ Ahead({}, T) /\ {} \cup (X \cup T) = X \cup {} \cup T
  BY AheadIs
<1> QED BY <1>1, LineSend

\* Some events are lost.
LEMMA LineLose ==
    ASSUME NEW cs, NEW ds, Len(ds) = Len(cs), NEW F, NEW B, NEW S, NEW X, NEW all,
           Line(cs, F, B, S, all),
           \A i \in 1 .. Len(cs) : Own(ds[i]) = Own(cs[i]) \ X
    PROVE  Line(ds, F \ X, B \ X, S \ X, all \ X)
<1>1. \A A, B1 : Ahead(A, B1) => Ahead(A \ X, B1 \ X)
  BY DEF Ahead
<1>2. /\ \A i, j \in 1 .. Len(ds) : i < j => Ahead(Own(ds[i]), Own(ds[j]))
      /\ \A i \in 1 .. Len(ds) : /\ Ahead(Own(ds[i]), F \ X) /\ Ahead(Own(ds[i]), B \ X)
                                 /\ Ahead(Own(ds[i]), S \ X)
      /\ Ahead(F \ X, B \ X) /\ Ahead(F \ X, S \ X) /\ Ahead(B \ X, S \ X)
  BY <1>1 DEF Line
<1>3. /\ \A i \in 1 .. Len(ds) : Own(ds[i]) \subseteq all \ X
      /\ F \ X \subseteq all \ X /\ B \ X \subseteq all \ X /\ S \ X \subseteq all \ X
  BY DEF Line
<1>4. ASSUME NEW e \in all \ X
      PROVE  \/ \E i \in 1 .. Len(ds) : e \in Own(ds[i])
             \/ e \in F \ X \/ e \in B \ X \/ e \in S \ X
  <2>1. \/ \E i \in 1 .. Len(cs) : e \in Own(cs[i])
        \/ e \in F \/ e \in B \/ e \in S
    BY DEF Line
  <2> QED BY <2>1
<1> QED BY <1>2, <1>3, <1>4 DEF Line

\* What the outermost call has goes to the buffer; the buffer to the file and back.
LEMMA LineKeep ==
    ASSUME NEW cs, NEW F, NEW B, NEW S, NEW all, Line(cs, F, B, S, all)
    PROVE  Line(cs, F, B \cup S, {}, all)
BY AheadIs DEF Line

LEMMA LineSave ==
    ASSUME NEW cs, NEW B, NEW all
    PROVE  Line(cs, {}, B, {}, all) <=> Line(cs, B, {}, {}, all)
BY AheadIs DEF Line

\* An event is told.
LEMMA LineTell ==
    ASSUME NEW cs, NEW F, NEW B, NEW t \in Nat, NEW all \in SUBSET (1 .. t),
           Line(cs, F, B, {}, all)
    PROVE  Line(cs, F, B, {t + 1}, all \cup {t + 1})
<1>1. \A A : A \subseteq all => Ahead(A, {t + 1})
  BY DEF Ahead
<1> QED BY <1>1 DEF Line

---------------------------------------------------------------------------------
(* Connections. *)

LEMMA ConnectionHas ==
    ASSUME NEW c \in ConnectionType
    PROVE  /\ c.pipe \in Seq(Message) /\ c.got \in Seq(Message)
           /\ c.section \in {"none", "data"}
           /\ c.state \in {"open", "broken", "gone", "closed", "ended"}
BY DEF ConnectionType

\* A new connection.
LEMMA ConnectionIs ==
    /\ Connection \in ConnectionType /\ ConnectionOK(Connection)
    /\ Own(Connection) = {} /\ NoGoodbye(Connection.pipe)
<1>1. /\ Connection.pipe = << >> /\ Connection.got = << >>
      /\ Connection \in ConnectionType
  BY DEF Connection, ConnectionType
<1>2. Introduced(Connection)
  BY <1>1 DEF Introduced
<1> QED BY <1>1, <1>2, NoEvents, AheadIs DEF ConnectionOK, Own

\* Only the state of a connection changes.
LEMMA StateIs ==
    ASSUME NEW c, NEW d, d.pipe = c.pipe, d.got = c.got, d.section = c.section
    PROVE  /\ ConnectionOK(c) => ConnectionOK(d)
           /\ Own(d) = Own(c)
           /\ Greeted(c) => Greeted(d)
BY DEF ConnectionOK, Introduced, Own, Greeted

\* A message is written to a connection.
LEMMA SendIs ==
    ASSUME NEW c \in ConnectionType, NEW d, NEW m \in Message, ConnectionOK(c),
           d.pipe = Append(c.pipe, m), d.got = c.got, d.section = c.section,
           IsEvent(m) => Ahead(Own(c), {m}) /\ Greeted(c) /\ NoGoodbye(c.pipe)
    PROVE  /\ ConnectionOK(d)
           /\ Own(d) = Own(c) \cup Events(<< m >>)
           /\ Greeted(c) \/ m = Hello => Greeted(d)
           /\ NoGoodbye(c.pipe) /\ m # Goodbye => NoGoodbye(d.pipe)
<1>0. c.pipe \in Seq(Message) /\ c.got \in Seq(Message) /\ Len(c.pipe) \in Nat
  <2>1. c.pipe \in Seq(Message) /\ c.got \in Seq(Message)
    BY ConnectionHas
  <2> QED BY <2>1
<1>1. /\ Len(d.pipe) = Len(c.pipe) + 1 /\ d.pipe[Len(c.pipe) + 1] = m
      /\ \A i \in 1 .. Len(c.pipe) : d.pipe[i] = c.pipe[i]
      /\ Events(d.pipe) = Events(c.pipe) \cup Events(<< m >>)
      /\ Rising(c.pipe) /\ Ahead(Events(c.pipe), Events(<< m >>)) => Rising(d.pipe)
      /\ NoGoodbye(c.pipe) /\ m # Goodbye => NoGoodbye(d.pipe)
  BY <1>0, AppendIs
<1>2. Ahead(Own(c), Events(<< m >>))
  BY OneEvent, AheadIs
<1>3. Ahead(Events(c.got), Events(<< m >>)) /\ Ahead(Events(c.pipe), Events(<< m >>))
  BY <1>2, AheadIs DEF Own
<1>4. Introduced(d)
  <2> SUFFICES ASSUME NEW j \in 1 .. Len(d.pipe), IsEvent(d.pipe[j])
               PROVE  /\ \/ d.section = "data"
                         \/ \E k \in 1 .. j - 1 : d.pipe[k] = Hello
                      /\ \A k \in 1 .. j - 1 : d.pipe[k] # Goodbye
    BY DEF Introduced
  <2>1. /\ \A k \in 1 .. j - 1 : k \in 1 .. Len(c.pipe) /\ d.pipe[k] = c.pipe[k]
        /\ j \in 1 .. Len(c.pipe) \/ j = Len(c.pipe) + 1
    BY <1>0, <1>1
  <2>2. CASE j \in 1 .. Len(c.pipe)
    BY <1>1, <2>1, <2>2 DEF ConnectionOK, Introduced
  <2>3. CASE j = Len(c.pipe) + 1
    <3>1. Greeted(c) /\ NoGoodbye(c.pipe)
      BY <1>1, <2>3
    <3>2. \A k \in 1 .. Len(c.pipe) : k \in 1 .. j - 1
      BY <1>0, <2>3
    <3> QED BY <2>1, <3>1, <3>2 DEF Greeted, NoGoodbye
  <2> QED BY <2>1, <2>2, <2>3
<1>5. Own(d) = Own(c) \cup Events(<< m >>)
  BY <1>1 DEF Own
<1>6. ConnectionOK(d)
  BY <1>1, <1>3, <1>4, AheadIs DEF ConnectionOK
<1>7. Greeted(c) \/ m = Hello => Greeted(d)
  <2>1. /\ \A k \in 1 .. Len(c.pipe) : k \in 1 .. Len(d.pipe)
        /\ Len(c.pipe) + 1 \in 1 .. Len(d.pipe)
    BY <1>0, <1>1
  <2> QED BY <1>1, <2>1 DEF Greeted
<1> QED BY <1>1, <1>5, <1>6, <1>7

\* The child takes the first message of the pipe.
LEMMA TakeIs ==
    ASSUME NEW c \in ConnectionType, NEW d, ConnectionOK(c), c.pipe # << >>,
           d.pipe = Tail(c.pipe), NEW m, m = Head(c.pipe),
           d.section = CASE m = Hello -> "data" [] m = Goodbye -> "none" [] OTHER -> c.section,
           d.got = IF IsEvent(m) /\ c.section = "data" THEN Append(c.got, m) ELSE c.got
    PROVE  /\ ConnectionOK(d) /\ Own(d) = Own(c) /\ d.got \in Seq(Message)
           /\ d.pipe \in Seq(Message)
           /\ NoGoodbye(c.pipe) => NoGoodbye(d.pipe)
           /\ Greeted(c) /\ NoGoodbye(c.pipe) => Greeted(d)
<1>0. c.pipe \in Seq(Message) /\ c.got \in Seq(Message)
  BY ConnectionHas
<1>1. /\ m \in Message /\ m = c.pipe[1] /\ Len(c.pipe) \in Nat \ {0}
      /\ d.pipe \in Seq(Message) /\ Len(d.pipe) = Len(c.pipe) - 1
      /\ \A i \in 1 .. Len(d.pipe) : d.pipe[i] = c.pipe[1 + i]
      /\ Events(c.pipe) = Events(<< m >>) \cup Events(d.pipe)
      /\ Rising(d.pipe) /\ Ahead(Events(<< m >>), Events(d.pipe))
      /\ NoGoodbye(c.pipe) => NoGoodbye(d.pipe) /\ m # Goodbye
  BY <1>0, HeadIs DEF ConnectionOK
<1>2. 1 \in 1 .. Len(c.pipe)
  BY <1>1
<1>3. IsEvent(m) => c.section = "data"
  <2>1. IsEvent(m) => c.section = "data" \/ \E k \in 1 .. 1 - 1 : c.pipe[k] = Hello
    BY <1>1, <1>2 DEF ConnectionOK, Introduced
  <2> QED BY <2>1
<1>4. Ahead(Events(c.got), Events(<< m >>)) /\ Ahead(Events(c.got), Events(d.pipe))
  BY <1>1, AheadIs DEF ConnectionOK
<1>5. /\ d.got \in Seq(Message)
      /\ Events(d.got) = Events(c.got) \cup Events(<< m >>) /\ Rising(d.got)
  <2>1. CASE IsEvent(m)
    BY <1>0, <1>1, <1>3, <1>4, <2>1, AppendIs DEF ConnectionOK
  <2>2. CASE ~IsEvent(m)
    BY <1>0, <1>1, <2>2, OneEvent DEF ConnectionOK
  <2> QED BY <2>1, <2>2
<1>6. Own(d) = Own(c)
  BY <1>1, <1>5 DEF Own
<1>7. Introduced(d)
  <2> SUFFICES ASSUME NEW j \in 1 .. Len(d.pipe), IsEvent(d.pipe[j])
               PROVE  /\ \/ d.section = "data"
                         \/ \E k \in 1 .. j - 1 : d.pipe[k] = Hello
                      /\ \A k \in 1 .. j - 1 : d.pipe[k] # Goodbye
    BY DEF Introduced
  <2>1. /\ 1 + j \in 1 .. Len(c.pipe) /\ c.pipe[1 + j] = d.pipe[j]
        /\ \A k \in 1 .. j - 1 : /\ 1 + k \in 1 .. (1 + j) - 1
                                 /\ d.pipe[k] = c.pipe[1 + k]
        /\ \A k \in 1 .. (1 + j) - 1 :
             \/ k = 1
             \/ k - 1 \in 1 .. j - 1 /\ d.pipe[k - 1] = c.pipe[k]
        /\ 1 \in 1 .. (1 + j) - 1
    BY <1>1
  <2>2. /\ \/ c.section = "data" \/ \E k \in 1 .. (1 + j) - 1 : c.pipe[k] = Hello
        /\ \A k \in 1 .. (1 + j) - 1 : c.pipe[k] # Goodbye
    BY <2>1 DEF ConnectionOK, Introduced
  <2>3. m # Goodbye
    BY <1>1, <2>1, <2>2
  <2>4. \A k \in 1 .. j - 1 : d.pipe[k] # Goodbye
    BY <2>1, <2>2
  <2>5. CASE m = Hello
    BY <2>4, <2>5, MessageIs
  <2>6. CASE m # Hello
    <3>1. d.section = c.section
      BY <2>3, <2>6
    <3> QED BY ZenonT(60), <1>1, <2>1, <2>2, <2>4, <2>6, <3>1
  <2> QED BY <2>5, <2>6
<1>8. ConnectionOK(d)
  BY <1>1, <1>4, <1>5, <1>7, AheadIs DEF ConnectionOK
<1>9. Greeted(c) /\ NoGoodbye(c.pipe) => Greeted(d)
  <2>1. /\ \A k \in 1 .. Len(c.pipe) :
             \/ k = 1
             \/ k - 1 \in 1 .. Len(d.pipe) /\ d.pipe[k - 1] = c.pipe[k]
    BY <1>1
  <2> QED BY <1>1, <2>1, MessageIs DEF Greeted
<1> QED BY <1>1, <1>5, <1>6, <1>8, <1>9

\* A connection loses the end of its pipe.
Drops(c, d, n, X) ==
    /\ n \in 0 .. Len(c.pipe)
    /\ d.pipe = SubSeq(c.pipe, 1, n) /\ d.got = c.got /\ d.section = c.section
    /\ X = Events(SubSeq(c.pipe, n + 1, Len(c.pipe)))

LEMMA DropIs ==
    ASSUME NEW c \in ConnectionType, NEW d, NEW n, NEW X, ConnectionOK(c), Drops(c, d, n, X)
    PROVE  /\ ConnectionOK(d) /\ Own(d) = Own(c) \ X /\ X \subseteq Own(c)
           /\ d.pipe \in Seq(Message)
           /\ NoGoodbye(c.pipe) => NoGoodbye(d.pipe)
<1> USE DEF Drops
<1>0. /\ c.pipe \in Seq(Message) /\ c.got \in Seq(Message) /\ Len(c.pipe) \in Nat
      /\ n \in Nat /\ n \in 0 .. Len(c.pipe)
  <2>1. c.pipe \in Seq(Message) /\ c.got \in Seq(Message)
    BY ConnectionHas
  <2> QED BY <2>1
<1>1. /\ d.pipe \in Seq(Message) /\ Len(d.pipe) = n
      /\ \A i \in 1 .. n : d.pipe[i] = c.pipe[i]
      /\ Events(c.pipe) = Events(d.pipe) \cup X
      /\ Rising(c.pipe) => Rising(d.pipe) /\ Ahead(Events(d.pipe), X)
      /\ NoGoodbye(c.pipe) => NoGoodbye(d.pipe)
  BY <1>0, CutIs
<1>2. Rising(d.pipe) /\ Ahead(Events(d.pipe), X)
  BY <1>1 DEF ConnectionOK
<1>3. Ahead(Events(c.got), Events(d.pipe)) /\ Ahead(Events(c.got), X)
  BY <1>1, AheadIs DEF ConnectionOK
<1>4. X \in SUBSET Int
  BY <1>0, <1>1, EventsAre
<1>5. Events(d.pipe) \cap X = {} /\ Events(c.got) \cap X = {}
  BY <1>2, <1>3, <1>4, AheadDisjoint
<1>6. Own(d) = Own(c) \ X /\ X \subseteq Own(c)
  BY <1>1, <1>5 DEF Own
<1>7. Introduced(d)
  <2>1. \A j \in 1 .. Len(d.pipe) : /\ j \in 1 .. Len(c.pipe)
                                    /\ \A k \in 1 .. j - 1 : d.pipe[k] = c.pipe[k]
    BY <1>0, <1>1
  <2> QED BY <1>1, <2>1 DEF ConnectionOK, Introduced
<1> QED BY <1>1, <1>2, <1>3, <1>6, <1>7 DEF ConnectionOK

---------------------------------------------------------------------------------
(* The connections and the calls. *)

\* One connection changes.
LEMMA ConnsIs ==
    ASSUME NEW cs \in Seq(ConnectionType), NEW n \in 1 .. Len(cs), NEW d \in ConnectionType,
           NEW ds, ds = [cs EXCEPT ![n] = d]
    PROVE  /\ ds \in Seq(ConnectionType) /\ Len(ds) = Len(cs) /\ ds[n] = d
           /\ \A i \in 1 .. Len(cs) : i # n => ds[i] = cs[i]
OBVIOUS

Stages == {"enter", "connect", "connected", "check", "flush", "flushing",
            "flush_failed", "write", "write_failed", "failed"}

\* The calls s are those of st with the innermost one at the given place, and maybe one more.
Goes(s, st, at, ph) ==
    /\ s \in Seq(CallType) /\ (Len(s) = Len(st) \/ Len(s) = Len(st) + 1)
    /\ \A i \in 1 .. Len(st) : /\ s[i].buf = st[i].buf /\ s[i].buffer_write = st[i].buffer_write
                               /\ s[i].flush_buffer = st[i].flush_buffer
                               /\ s[i].at = IF i = Len(st) THEN at ELSE st[i].at
    /\ Len(s) = Len(st) + 1 => \/ s[Len(s)] = Call(Other, TRUE, TRUE) /\ ph = "running"
                               \/ s[Len(s)] = idomod_hello_sink

LEMMA CallIs ==
    /\ \A m \in Message, b, f \in BOOLEAN : Call(m, b, f) \in CallType
    /\ idomod_hello_sink \in CallType /\ idomod_goodbye_sink \in CallType
    /\ \A m, b, f : /\ Call(m, b, f).buf = m /\ Call(m, b, f).buffer_write = b
                    /\ Call(m, b, f).flush_buffer = f /\ Call(m, b, f).at = "enter"
    /\ idomod_hello_sink.buf = Hello /\ idomod_hello_sink.at = "enter"
    /\ idomod_goodbye_sink.buf = Goodbye /\ idomod_goodbye_sink.at = "enter"
BY MessageIs DEF Call, CallType, idomod_hello_sink, idomod_goodbye_sink

LEMMA CallHas ==
    ASSUME NEW f \in CallType, NEW at \in Stages
    PROVE  /\ f.buf \in Message /\ f.at \in Stages
           /\ [f EXCEPT !.at = at] \in CallType
           /\ [f EXCEPT !.at = at].at = at
           /\ [f EXCEPT !.at = at].buf = f.buf
           /\ [f EXCEPT !.at = at].buffer_write = f.buffer_write
           /\ [f EXCEPT !.at = at].flush_buffer = f.flush_buffer
BY DEF CallType, Stages

LEMMA TopIs ==
    ASSUME NEW st \in Seq(CallType), st # << >>
    PROVE  /\ Len(st) \in Nat \ {0} /\ Len(st) \in 1 .. Len(st) /\ st[Len(st)] \in CallType
           /\ st[Len(st)].buf \in Message
<1>1. /\ Len(st) \in Nat \ {0} /\ Len(st) \in 1 .. Len(st) /\ st[Len(st)] \in CallType
  OBVIOUS
<1> QED BY <1>1 DEF CallType

LEMMA GoesIs ==
    ASSUME stack \in Seq(CallType), stack # << >>, NEW at \in Stages
    PROVE  /\ Goes(Goto(at), stack, at, phase) /\ Goes(Logged(at), stack, at, phase)
           /\ Goes(Append(Goto(at), idomod_hello_sink), stack, at, phase)
           /\ Len(Goto(at)) = Len(stack)
<1> DEFINE g == Goto(at)
<1>1. Len(stack) \in 1 .. Len(stack) /\ Len(stack) \in Nat
  BY TopIs
<1>2. /\ g = [stack EXCEPT ![Len(stack)] = [stack[Len(stack)] EXCEPT !.at = at]]
      /\ [stack[Len(stack)] EXCEPT !.at = at] \in CallType
  <2>1. stack[Len(stack)] \in CallType
    BY TopIs
  <2> QED BY <2>1 DEF Goto, CallType, Stages
<1>3. g \in Seq(CallType) /\ Len(g) = Len(stack)
  BY <1>1, <1>2
<1>4. ASSUME NEW i \in 1 .. Len(stack)
      PROVE  /\ g[i].buf = stack[i].buf /\ g[i].buffer_write = stack[i].buffer_write
             /\ g[i].flush_buffer = stack[i].flush_buffer
             /\ g[i].at = IF i = Len(stack) THEN at ELSE stack[i].at
  <2>1. stack[i] \in CallType
    OBVIOUS
  <2>2. g[i] = IF i = Len(stack) THEN [stack[i] EXCEPT !.at = at] ELSE stack[i]
    BY <1>1, <1>2
  <2> QED BY <2>1, <2>2 DEF CallType
<1> HIDE DEF g
<1>5. Goes(g, stack, at, phase)
  <2>1. Len(g) # Len(stack) + 1
    BY <1>1, <1>3
  <2> QED BY <1>3, <1>4, <2>1, Zenon DEF Goes
<1>6. ASSUME NEW f \in CallType,
             (f = Call(Other, TRUE, TRUE) /\ phase = "running") \/ f = idomod_hello_sink
      PROVE  Goes(Append(g, f), stack, at, phase)
  <2>1. /\ Append(g, f) \in Seq(CallType) /\ Len(Append(g, f)) = Len(stack) + 1
        /\ Append(g, f)[Len(stack) + 1] = f
        /\ \A i \in 1 .. Len(stack) : Append(g, f)[i] = g[i]
    BY <1>3
  <2>2. ASSUME NEW i \in 1 .. Len(stack)
        PROVE  /\ Append(g, f)[i].buf = stack[i].buf
               /\ Append(g, f)[i].buffer_write = stack[i].buffer_write
               /\ Append(g, f)[i].flush_buffer = stack[i].flush_buffer
               /\ Append(g, f)[i].at = IF i = Len(stack) THEN at ELSE stack[i].at
    BY <1>4, <2>1
  <2> QED BY <1>6, <2>1, <2>2 DEF Goes
<1>7. Call(Other, TRUE, TRUE) \in CallType /\ idomod_hello_sink \in CallType
  BY CallIs, MessageIs
<1>8. Goes(Append(g, idomod_hello_sink), stack, at, phase)
  BY <1>6, <1>7
<1>9. Goes(Logged(at), stack, at, phase)
  BY <1>5, <1>6, <1>7 DEF Logged, g
<1> QED BY <1>3, <1>5, <1>8, <1>9 DEF g

LEMMA GoesKeeps ==
    ASSUME NEW st \in Seq(CallType), st # << >>, NEW s, NEW at, NEW ph, NEW buf,
           Goes(s, st, at, ph), CallsOK(st, ph), Flushes(st, buf),
           at = "write" /\ IsEvent(st[Len(st)].buf) => Events(buf) = {}
    PROVE  /\ s \in Seq(CallType) /\ s # << >>
           /\ CallsOK(s, ph) /\ CallEvents(s) = CallEvents(st) /\ Flushes(s, buf)
           /\ /\ Len(s) = Len(st) /\ st[Len(st)].buf = Hello
              /\ at \in {"enter", "flush", "write"}
              => Greets(s)
           /\ Len(s) = Len(st) + 1 /\ s[Len(s)] = idomod_hello_sink => Greets(s)
<1>1. Len(st) \in Nat \ {0} /\ Len(st) \in 1 .. Len(st)
  BY TopIs
<1>2. /\ s \in Seq(CallType) /\ s # << >>
      /\ \A i \in 1 .. Len(st) : i \in 1 .. Len(s)
      /\ \A i \in 1 .. Len(s) : \/ i \in 1 .. Len(st)
                                \/ Len(s) = Len(st) + 1 /\ i = Len(s)
  BY <1>1 DEF Goes
<1>3. ASSUME NEW i \in 1 .. Len(s), Len(s) = Len(st) + 1, i = Len(s)
      PROVE  FrameOK(s[i], i, ph) /\ ~IsEvent(s[i].buf)
  BY <1>3, MessageIs DEF Goes, FrameOK, Call, idomod_hello_sink
<1>4. CallsOK(s, ph)
  <2> SUFFICES ASSUME NEW i \in 1 .. Len(s) PROVE FrameOK(s[i], i, ph)
    BY DEF CallsOK
  <2>1. CASE i \in 1 .. Len(st)
    BY <2>1 DEF Goes, CallsOK, FrameOK
  <2> QED BY <1>2, <1>3, <2>1
<1>5. CallEvents(s) = CallEvents(st)
  <2>1. ASSUME NEW e \in CallEvents(s) PROVE e \in CallEvents(st)
    <3>1. PICK i \in 1 .. Len(s) : IsEvent(s[i].buf) /\ s[i].buf = e
      BY DEF CallEvents
    <3>2. i \in 1 .. Len(st)
      BY <1>2, <1>3, <3>1
    <3> QED BY <3>1, <3>2 DEF Goes, CallEvents
  <2>2. ASSUME NEW e \in CallEvents(st) PROVE e \in CallEvents(s)
    <3>1. PICK i \in 1 .. Len(st) : IsEvent(st[i].buf) /\ st[i].buf = e
      BY DEF CallEvents
    <3>2. s[i].buf = e /\ i \in 1 .. Len(s)
      BY <1>2, <3>1 DEF Goes
    <3> QED BY <3>1, <3>2 DEF CallEvents
  <2> QED BY <2>1, <2>2
<1>6. Flushes(s, buf)
  <2> SUFFICES ASSUME NEW i \in 1 .. Len(s), IsEvent(s[i].buf), s[i].at = "write"
               PROVE  Events(buf) = {}
    BY DEF Flushes
  <2>1. i \in 1 .. Len(st)
    BY <1>2, <1>3
  <2> QED BY <2>1 DEF Goes, Flushes
<1>7. /\ Len(s) = Len(st) /\ st[Len(st)].buf = Hello /\ at \in {"enter", "flush", "write"}
      => Greets(s)
  BY <1>1, <1>2 DEF Goes, Greets
<1>8. Len(s) = Len(st) + 1 /\ s[Len(s)] = idomod_hello_sink => Greets(s)
  BY <1>2, CallIs DEF Greets
<1> QED BY <1>2, <1>4, <1>5, <1>6, <1>7, <1>8

LEMMA ReturnIs ==
    ASSUME NEW st \in Seq(CallType), st # << >>, NEW ph, NEW buf,
           CallsOK(st, ph), Flushes(st, buf), NEW m, m = st[Len(st)].buf
    PROVE  /\ Front(st) \in Seq(CallType) /\ CallsOK(Front(st), ph)
           /\ Flushes(Front(st), buf)
           /\ IsEvent(m) => Front(st) = << >> /\ CallEvents(st) = {m} /\ CallEvents(Front(st)) = {}
           /\ ~IsEvent(m) => CallEvents(Front(st)) = CallEvents(st)
           /\ Events(<< m >>) \subseteq CallEvents(st)
<1> DEFINE s == Front(st)
<1>1. Len(st) \in Nat \ {0} /\ Len(st) \in 1 .. Len(st) /\ m \in Message
  BY TopIs
<1>2. /\ s \in Seq(CallType) /\ Len(s) = Len(st) - 1
      /\ \A i \in 1 .. Len(s) : s[i] = st[i] /\ i \in 1 .. Len(st)
      /\ Len(st) = 1 => s = << >>
  <2>1. /\ s = SubSeq(st, 1, Len(st) - 1) /\ Len(st) - 1 \in 0 .. Len(st)
        /\ \A i \in 1 .. Len(st) - 1 : i \in 1 .. Len(st)
    BY <1>1 DEF Front
  <2>2. ASSUME NEW n \in 0 .. Len(st)
        PROVE  /\ SubSeq(st, 1, n) \in Seq(CallType) /\ Len(SubSeq(st, 1, n)) = n
               /\ \A i \in 1 .. n : SubSeq(st, 1, n)[i] = st[i]
    OBVIOUS
  <2>3. /\ s \in Seq(CallType) /\ Len(s) = Len(st) - 1
        /\ \A i \in 1 .. Len(st) - 1 : s[i] = st[i]
    BY <2>1, <2>2
  <2>4. Len(st) = 1 => s = << >>
    BY <2>3
  <2> QED BY <2>1, <2>3, <2>4
<1> HIDE DEF s
<1>3. CallsOK(s, ph)
  BY <1>2 DEF CallsOK
<1>4. Flushes(s, buf)
  BY <1>2 DEF Flushes
<1>5. IsEvent(m) => Len(st) = 1
  BY <1>1 DEF CallsOK, FrameOK
<1>6. ASSUME IsEvent(m) PROVE s = << >> /\ CallEvents(st) = {m} /\ CallEvents(s) = {}
  <2>1. Len(st) = 1 /\ s = << >>
    BY <1>2, <1>5, <1>6
  <2>2. CallEvents(s) = {}
    BY <2>1 DEF CallEvents
  <2>3. CallEvents(st) = {m}
    BY <1>6, <2>1 DEF CallEvents
  <2> QED BY <2>1, <2>2, <2>3
<1>7. ASSUME ~IsEvent(m) PROVE CallEvents(s) = CallEvents(st)
  <2>1. ASSUME NEW e \in CallEvents(s) PROVE e \in CallEvents(st)
    <3>1. PICK i \in 1 .. Len(s) : IsEvent(s[i].buf) /\ s[i].buf = e
      BY DEF CallEvents
    <3> QED BY <1>2, <3>1 DEF CallEvents
  <2>2. ASSUME NEW e \in CallEvents(st) PROVE e \in CallEvents(s)
    <3>1. PICK i \in 1 .. Len(st) : IsEvent(st[i].buf) /\ st[i].buf = e
      BY DEF CallEvents
    <3>2. i # Len(st)
      BY <1>7, <3>1
    <3>3. i \in 1 .. Len(s)
      BY <1>1, <1>2, <3>2
    <3> QED BY <1>2, <3>1, <3>3 DEF CallEvents
  <2> QED BY <2>1, <2>2
<1>8. Events(<< m >>) \subseteq CallEvents(st)
  BY <1>1, <1>6, OneEvent
<1> QED BY <1>2, <1>3, <1>4, <1>6, <1>7, <1>8 DEF s

---------------------------------------------------------------------------------
(* Steps of the calls. *)

\* Only the calls change.
LEMMA StackStep ==
    ASSUME IInv, UNCHANGED <<phase, buffer, file, open, conns, told, lost>>,
           due' \in BOOLEAN, faults' \in 0 .. MaxFaults,
           phase # "stopped", stack' \in Seq(CallType), CallsOK(stack', phase),
           CallEvents(stack') = CallEvents(stack), Flushes(stack', buffer),
           open /\ Greets(stack) => Greets(stack')
    PROVE  IInv'
<1>1. TypeOK'
  BY DEF IInv, TypeOK
<1>2. LineInv'
  BY DEF IInv, LineInv
<1>3. GreetInv'
  BY DEF IInv, GreetInv, GreetingOK, Newest
<1>4. PhaseInv'
  BY DEF IInv, PhaseInv
<1> QED BY <1>1, <1>2, <1>3, <1>4 DEF IInv

LEMMA GoesStep ==
    ASSUME IInv, stack # << >>, UNCHANGED <<phase, buffer, file, open, conns, told, lost>>,
           due' \in BOOLEAN, faults' \in 0 .. MaxFaults,
           NEW at, Goes(stack', stack, at, phase),
           at = "write" /\ IsEvent(Top.buf) => Events(buffer) = {},
           open /\ Greets(stack) => Len(stack') = Len(stack) /\ at \in {"enter", "flush", "write"}
    PROVE  IInv'
<1>1. stack \in Seq(CallType) /\ CallsOK(stack, phase) /\ Flushes(stack, buffer)
  BY DEF IInv, TypeOK
<1>2. phase # "stopped"
  BY DEF IInv, PhaseInv
<1>3. /\ stack' \in Seq(CallType) /\ CallsOK(stack', phase)
      /\ CallEvents(stack') = CallEvents(stack) /\ Flushes(stack', buffer)
      /\ /\ Len(stack') = Len(stack) /\ stack[Len(stack)].buf = Hello
         /\ at \in {"enter", "flush", "write"}
         => Greets(stack')
  BY <1>1, GoesKeeps DEF Top
<1>4. open /\ Greets(stack) => Greets(stack')
  BY <1>3 DEF Greets
<1> QED BY <1>2, <1>3, <1>4, StackStep

LEMMA AtTop ==
    ASSUME IInv, NEW at, In(at)
    PROVE  /\ stack \in Seq(CallType) /\ stack # << >> /\ Top.at = at
           /\ Top.buf \in Message /\ FrameOK(Top, Len(stack), phase)
           /\ at \notin {"enter", "flush", "write"} => ~Greets(stack)
           /\ phase # "stopped" /\ due \in BOOLEAN /\ faults \in 0 .. MaxFaults
<1>1. stack \in Seq(CallType) /\ stack # << >> /\ Top.at = at
  BY DEF In, IInv, TypeOK
<1>2. Top.buf \in Message /\ Len(stack) \in 1 .. Len(stack)
  BY <1>1, TopIs DEF Top
<1>3. FrameOK(Top, Len(stack), phase)
  BY <1>2 DEF IInv, CallsOK, Top
<1>4. at \notin {"enter", "flush", "write"} => ~Greets(stack)
  BY <1>1 DEF Greets, Top
<1>5. phase # "stopped" /\ due \in BOOLEAN /\ faults \in 0 .. MaxFaults
  BY <1>1 DEF IInv, PhaseInv, TypeOK
<1> QED BY <1>1, <1>2, <1>3, <1>4, <1>5

LEMMA EnterStep == IInv /\ Enter => IInv'
<1> SUFFICES ASSUME IInv, Enter PROVE IInv'
  OBVIOUS
<1> DEFINE at == CASE open -> "flush" [] ~open /\ due -> "connect" [] OTHER -> "check"
<1>1. stack' = Goto(at) /\ UNCHANGED <<phase, buffer, file, open, due, conns, told, lost, faults>>
  BY DEF Enter
<1>2. /\ stack \in Seq(CallType) /\ stack # << >>
      /\ due \in BOOLEAN /\ faults \in 0 .. MaxFaults
  BY AtTop DEF Enter
<1>3. at \in Stages /\ at # "write" /\ (open => at = "flush")
  BY DEF Stages
<1> HIDE DEF at
<1>4. Goes(stack', stack, at, phase) /\ Len(stack') = Len(stack)
  BY <1>1, <1>2, <1>3, GoesIs
<1> QED BY <1>1, <1>2, <1>3, <1>4, GoesStep

LEMMA FlushStep == IInv /\ Flush => IInv'
<1> SUFFICES ASSUME IInv, Flush PROVE IInv'
  OBVIOUS
<1> DEFINE at == IF Top.flush_buffer /\ buffer # << >> THEN "flushing" ELSE "write"
<1>1. stack' = Goto(at) /\ UNCHANGED <<phase, buffer, file, open, due, conns, told, lost, faults>>
  BY DEF Flush
<1>2. /\ stack \in Seq(CallType) /\ stack # << >> /\ FrameOK(Top, Len(stack), phase)
      /\ due \in BOOLEAN /\ faults \in 0 .. MaxFaults
  BY AtTop DEF Flush
<1>3. at \in Stages
  BY DEF Stages
<1>4. at = "write" /\ IsEvent(Top.buf) => Events(buffer) = {}
  BY <1>2, NoEvents DEF FrameOK
<1>5. Greets(stack) => at = "write"
  BY <1>2 DEF Greets, FrameOK, Top
<1> HIDE DEF at
<1>6. Goes(stack', stack, at, phase) /\ Len(stack') = Len(stack)
  BY <1>1, <1>2, <1>3, GoesIs
<1> QED BY <1>1, <1>2, <1>3, <1>4, <1>5, <1>6, GoesStep

LEMMA LoggedStep ==
    ASSUME IInv, NEW at \in Stages, stack' = Logged(at) \/ stack' = Goto(at),
           UNCHANGED <<phase, buffer, file, open, conns, told, lost>>,
           due' \in BOOLEAN, faults' \in 0 .. MaxFaults, stack # << >>, ~Greets(stack),
           at # "write" \/ buffer = << >>
    PROVE  IInv'
<1>1. stack \in Seq(CallType)
  BY DEF IInv, TypeOK
<1>2. Goes(stack', stack, at, phase)
  BY <1>1, GoesIs
<1> QED BY <1>2, GoesStep, NoEvents

LEMMA ConnectedStep == IInv /\ Connected => IInv'
<1> SUFFICES ASSUME IInv, Connected PROVE IInv'
  OBVIOUS
<1>1. /\ stack # << >> /\ ~Greets(stack)
      /\ due \in BOOLEAN /\ faults \in 0 .. MaxFaults
  BY AtTop DEF Connected
<1>2. stack' = Logged("check")
      /\ UNCHANGED <<phase, buffer, file, open, due, conns, told, lost, faults>>
  BY DEF Connected
<1>3. "check" \in Stages /\ "check" # "write"
  BY DEF Stages
<1> QED BY <1>1, <1>2, <1>3, LoggedStep

LEMMA FlushedStep == IInv /\ Flushed => IInv'
<1> SUFFICES ASSUME IInv, Flushed PROVE IInv'
  OBVIOUS
<1>1. /\ stack # << >> /\ ~Greets(stack)
      /\ due \in BOOLEAN /\ faults \in 0 .. MaxFaults
  BY AtTop DEF Flushed
<1>2. stack' = Logged("write") /\ buffer = << >>
      /\ UNCHANGED <<phase, buffer, file, open, due, conns, told, lost, faults>>
  BY DEF Flushed
<1>3. "write" \in Stages
  BY DEF Stages
<1> QED BY <1>1, <1>2, <1>3, LoggedStep

LEMMA WriteFailedStep == IInv /\ WriteFailed => IInv'
<1> SUFFICES ASSUME IInv, WriteFailed PROVE IInv'
  OBVIOUS
<1>1. /\ stack # << >> /\ ~Greets(stack)
      /\ due \in BOOLEAN /\ faults \in 0 .. MaxFaults
  BY AtTop DEF WriteFailed
<1>2. stack' = Logged("failed")
      /\ UNCHANGED <<phase, buffer, file, open, due, conns, told, lost, faults>>
  BY DEF WriteFailed
<1>3. "failed" \in Stages /\ "failed" # "write"
  BY DEF Stages
<1> QED BY <1>1, <1>2, <1>3, LoggedStep

LEMMA FaultIs ==
    ASSUME TypeOK, Fault
    PROVE  faults' \in 0 .. MaxFaults
BY LinkAssumption DEF TypeOK, Fault

LEMMA ConnectStep == IInv /\ Connect => IInv'
<1> SUFFICES ASSUME IInv, Connect PROVE IInv'
  OBVIOUS
<1>1. /\ stack \in Seq(CallType) /\ stack # << >> /\ ~Greets(stack)
      /\ due \in BOOLEAN /\ faults \in 0 .. MaxFaults /\ phase # "stopped"
  BY AtTop DEF Connect
<1>2. due' = FALSE /\ UNCHANGED <<phase, buffer, file, told, lost>>
  BY DEF Connect
<1>3. "check" \in Stages /\ "check" # "write" /\ "connected" \in Stages
  BY DEF Stages
<1>4. CASE Fault /\ stack' \in {Goto("check"), Logged("check")} /\ UNCHANGED <<conns, open>>
  <2>1. faults' \in 0 .. MaxFaults
    BY <1>4, FaultIs DEF IInv
  <2> QED BY <1>1, <1>2, <1>3, <1>4, <2>1, LoggedStep
<1>5. CASE /\ idomod_open_sink /\ faults' = faults
           /\ stack' = Append(Goto("connected"), idomod_hello_sink)
  <2>1. conns' = Append(conns, Connection) /\ open' = TRUE
    BY <1>5 DEF idomod_open_sink, ido_sink_open
  <2>2. conns \in Seq(ConnectionType)
    BY DEF IInv, TypeOK
  <2>3. /\ conns' \in Seq(ConnectionType) /\ Len(conns') = Len(conns) + 1
        /\ conns'[Len(conns) + 1] = Connection /\ conns' # << >> /\ Len(conns) \in Nat
        /\ \A i \in 1 .. Len(conns) : conns'[i] = conns[i]
    BY <2>1, <2>2, ConnectionIs
  <2>4. Goes(stack', stack, "connected", phase)
    BY <1>1, <1>3, <1>5, GoesIs
  <2>5. Len(stack') = Len(stack) + 1 /\ stack'[Len(stack')] = idomod_hello_sink
    <3>1. Goto("connected") \in Seq(CallType) /\ Len(Goto("connected")) = Len(stack)
      BY <1>1, <1>3, GoesIs DEF Goes
    <3>2. idomod_hello_sink \in CallType
      BY CallIs
    <3> QED BY <1>5, <3>1, <3>2
  <2>6. /\ stack' \in Seq(CallType) /\ CallsOK(stack', phase)
        /\ CallEvents(stack') = CallEvents(stack) /\ Flushes(stack', buffer)
        /\ Greets(stack')
    <3>1. CallsOK(stack, phase) /\ Flushes(stack, buffer)
      BY DEF IInv
    <3> QED BY <1>1, <2>4, <2>5, <3>1, GoesKeeps
  <2>7. TypeOK'
    BY <1>1, <1>2, <1>5, <2>1, <2>3, <2>6 DEF IInv, TypeOK
  <2>8. LineInv'
    <3>1. LineInv
      BY DEF IInv
    <3>2. Own(conns'[Len(conns')]) = {}
      BY <2>3, ConnectionIs
    <3>3. Line(conns', Events(file), Events(buffer), CallEvents(stack), 1 .. told \ lost)
      BY <2>3, <3>1, <3>2, LineConnect DEF LineInv
    <3> QED BY <1>2, <2>6, <3>3 DEF LineInv
  <2>9. \A i \in 1 .. Len(conns') : ConnectionOK(conns'[i])
    BY <2>3, ConnectionIs DEF IInv
  <2>10. GreetInv'
    <3>1. conns'[Len(conns')] = Connection
      BY <2>3
    <3> QED BY <2>6, <3>1, ConnectionIs DEF GreetInv, GreetingOK, Newest
  <2>11. PhaseInv'
    BY <1>1, <1>2 DEF IInv, PhaseInv
  <2> QED BY <1>2, <2>6, <2>7, <2>8, <2>9, <2>10, <2>11 DEF IInv
<1> QED BY <1>4, <1>5 DEF Connect

\* A call ends that could not write: its message goes to the buffer or is lost.
LEMMA KeepStep ==
    ASSUME IInv, stack # << >>, Keep, UNCHANGED <<phase, file, open, conns, told>>,
           due' \in BOOLEAN, faults' \in 0 .. MaxFaults, open => ~Greets(stack)
    PROVE  IInv'
<1> DEFINE m == Top.buf
<1>1. /\ stack \in Seq(CallType) /\ buffer \in Seq(Message) /\ Len(buffer) <= Slots
      /\ CallsOK(stack, phase) /\ Flushes(stack, buffer) /\ LineInv
      /\ lost \subseteq 1 .. told /\ told \in Nat
  BY DEF IInv, TypeOK
<1>2. m \in Message /\ FrameOK(Top, Len(stack), phase)
  BY <1>1, TopIs DEF CallsOK, Top
<1>3. /\ Return \in Seq(CallType) /\ CallsOK(Return, phase) /\ Flushes(Return, buffer)
      /\ IsEvent(m) => Return = << >> /\ CallEvents(stack) = {m} /\ CallEvents(Return) = {}
      /\ ~IsEvent(m) => CallEvents(Return) = CallEvents(stack)
  BY <1>1, ReturnIs DEF Return, Top
<1>4. phase # "stopped" /\ stack' = Return
  BY DEF IInv, PhaseInv, Keep
<1>5. CASE UNCHANGED <<buffer, lost>> /\ ~IsEvent(m)
  BY <1>1, <1>3, <1>4, <1>5, StackStep
<1>6. CASE Top.buffer_write /\ idomod_sink_buffer_push(m)
  <2>1. phase = "running" /\ file = << >> /\ m # Goodbye /\ m # Hello
    BY <1>2, <1>6 DEF FrameOK, IInv, PhaseInv
  <2> HIDE DEF m
  <2>2. CASE Len(buffer) < Slots
    <3>1. buffer' = Append(buffer, m) /\ UNCHANGED lost
      BY <1>6, <2>2 DEF idomod_sink_buffer_push
    <3>2. Ahead(Events(buffer), Events(<< m >>))
      BY <1>1, <1>2, <1>3, OneEvent, AheadIs DEF LineInv, Line
    <3>3. /\ buffer' \in Seq(Message) /\ Len(buffer') = Len(buffer) + 1
          /\ Events(buffer') = Events(buffer) \cup Events(<< m >>)
          /\ Rising(buffer') /\ NoGoodbye(buffer')
      BY <1>1, <1>2, <2>1, <3>1, <3>2, AppendIs DEF IInv
    <3>4. Len(buffer') <= Slots
      BY <1>1, <2>2, <3>3, LinkAssumption
    <3>5. TypeOK'
      BY <1>1, <1>3, <1>4, <3>1, <3>3, <3>4 DEF IInv, TypeOK
    <3>6. Line(conns, Events(file), Events(buffer'), CallEvents(Return), 1 .. told \ lost)
      <4>1. CASE IsEvent(m)
        <5>1. Line(conns, Events(file), Events(buffer) \cup {m}, {}, 1 .. told \ lost)
          BY <1>1, <1>3, <4>1, LineKeep DEF LineInv
        <5>2. Events(buffer') = Events(buffer) \cup {m} /\ CallEvents(Return) = {}
          BY <1>2, <1>3, <3>3, <4>1, OneEvent
        <5> QED BY <5>1, <5>2
      <4>2. CASE ~IsEvent(m)
        <5>1. Events(buffer') = Events(buffer) /\ CallEvents(Return) = CallEvents(stack)
          BY <1>2, <1>3, <3>3, <4>2, OneEvent
        <5> QED BY <1>1, <5>1 DEF LineInv
      <4> QED BY <4>1, <4>2
    <3>7. LineInv'
      BY <1>4, <3>1, <3>6 DEF LineInv
    <3>8. Flushes(Return, buffer')
      <4>1. CASE IsEvent(m)
        BY <1>3, <4>1 DEF Flushes
      <4>2. CASE ~IsEvent(m)
        <5>1. Events(buffer') = Events(buffer)
          BY <1>2, <3>3, <4>2, OneEvent
        <5> QED BY <1>3, <5>1 DEF Flushes
      <4> QED BY <4>1, <4>2
    <3>9. GreetInv'
      BY DEF IInv, GreetInv, GreetingOK, Newest
    <3>10. PhaseInv'
      BY <1>4, <2>1 DEF PhaseInv
    <3> QED BY <1>3, <1>4, <3>3, <3>5, <3>7, <3>8, <3>9, <3>10 DEF IInv
  <2>3. CASE ~(Len(buffer) < Slots)
    <3>1. buffer' = buffer /\ lost' = lost \cup Events(<< m >>)
      BY <1>6, <2>3 DEF idomod_sink_buffer_push
    <3>2. CASE ~IsEvent(m)
      <4>1. lost' = lost
        BY <1>2, <3>1, <3>2, OneEvent
      <4> QED BY <1>1, <1>3, <1>4, <3>1, <3>2, <4>1, StackStep
    <3>3. CASE IsEvent(m)
      <4>1. lost' = lost \cup {m} /\ m \in Int
        BY <1>2, <3>1, <3>3, OneEvent, MessageIs
      <4>2. m \in 1 .. told /\ lost' \subseteq 1 .. told
        BY <1>1, <1>3, <3>3, <4>1 DEF LineInv, Line
      <4>3. TypeOK'
        BY <1>1, <1>3, <1>4, <3>1, <4>2 DEF IInv, TypeOK
      <4>4. /\ Events(buffer) \ {m} = Events(buffer) /\ Events(file) \ {m} = Events(file)
            /\ \A i \in 1 .. Len(conns) : Own(conns[i]) = Own(conns[i]) \ {m}
        <5>1. \A A : Ahead(A, {m}) => A \ {m} = A
          BY <4>1, AheadDisjoint
        <5>2. Line(conns, Events(file), Events(buffer), {m}, 1 .. told \ lost)
          BY <1>1, <1>3, <3>3 DEF LineInv
        <5>3. /\ Ahead(Events(buffer), {m}) /\ Ahead(Events(file), {m})
              /\ \A i \in 1 .. Len(conns) : Ahead(Own(conns[i]), {m})
          BY <5>2 DEF Line
        <5> QED BY <5>1, <5>3
      <4>5. Line(conns, Events(file) \ {m}, Events(buffer) \ {m}, {m} \ {m},
                 (1 .. told \ lost) \ {m})
        BY <1>1, <1>3, <3>3, <4>4, LineLose DEF LineInv
      <4>6. (1 .. told \ lost) \ {m} = 1 .. told \ lost' /\ {m} \ {m} = {}
        BY <4>1
      <4>7. LineInv'
        BY <1>3, <1>4, <3>1, <3>3, <4>4, <4>5, <4>6 DEF LineInv
      <4>8. GreetInv'
        BY <1>4 DEF IInv, GreetInv, GreetingOK, Newest
      <4>9. PhaseInv'
        BY <1>4, <3>1 DEF IInv, PhaseInv
      <4> QED BY <1>3, <1>4, <3>1, <4>3, <4>7, <4>8, <4>9 DEF IInv
    <3> QED BY <3>2, <3>3
  <2> QED BY <2>2, <2>3
<1> QED BY <1>2, <1>5, <1>6 DEF Keep, FrameOK

LEMMA CheckStep == IInv /\ Check => IInv'
<1> SUFFICES ASSUME IInv, Check PROVE IInv'
  OBVIOUS
<1>1. /\ stack # << >> /\ ~Greets(stack) /\ due \in BOOLEAN /\ faults \in 0 .. MaxFaults
  BY AtTop DEF Check
<1>2. UNCHANGED <<phase, file, open, due, conns, told, faults>>
  BY DEF Check
<1>3. "flush" \in Stages /\ "flush" # "write"
  BY DEF Stages
<1>4. CASE open
  BY <1>1, <1>2, <1>3, <1>4, LoggedStep DEF Check
<1>5. CASE ~open
  BY <1>1, <1>2, <1>5, KeepStep DEF Check
<1> QED BY <1>4, <1>5

LEMMA FlushFailedStep == IInv /\ FlushFailed => IInv'
<1> SUFFICES ASSUME IInv, FlushFailed PROVE IInv'
  OBVIOUS
<1>1. /\ stack # << >> /\ ~Greets(stack) /\ faults \in 0 .. MaxFaults
  BY AtTop DEF FlushFailed
<1> QED BY <1>1, KeepStep DEF FlushFailed

LEMMA FailedStep == IInv /\ Failed => IInv'
<1> SUFFICES ASSUME IInv, Failed PROVE IInv'
  OBVIOUS
<1>1. /\ stack # << >> /\ ~Greets(stack) /\ due \in BOOLEAN /\ faults \in 0 .. MaxFaults
  BY AtTop DEF Failed
<1> QED BY <1>1, KeepStep DEF Failed

---------------------------------------------------------------------------------
(* Steps that write. *)

\* Events X that only one part has are lost.
LEMMA LoseIs ==
    ASSUME NEW lo, NEW to, NEW X
    PROVE  (1 .. to \ lo) \ X = 1 .. to \ (lo \cup X)
OBVIOUS

LEMMA SinkWrite ==
    ASSUME IInv, NEW m \in Message, ido_sink_write(m), NEW C, NEW T,
           IsEvent(m) =>
             /\ file = << >> /\ phase \in {"starting", "running"}
             /\ ~Greets(stack)
             /\ \/ /\ Events(buffer) = {m} \cup C /\ T = CallEvents(stack) /\ Ahead({m}, C)
                \/ /\ Events(buffer) = {} /\ C = {} /\ CallEvents(stack) = {m} \cup T
                   /\ Ahead({m}, T),
           ~IsEvent(m) => C = Events(buffer) /\ T = CallEvents(stack)
    PROVE  /\ conns' \in Seq(ConnectionType) /\ conns' # << >> /\ open' = open
           /\ \A i \in 1 .. Len(conns') : ConnectionOK(conns'[i])
           /\ Line(conns', Events(file), C, T, 1 .. told \ lost')
           /\ lost' \subseteq 1 .. told
           /\ phase \in {"starting", "running"} /\ m # Goodbye =>
                /\ NoGoodbye(conns'[Newest'].pipe)
                /\ \/ conns'[Newest'].state # "open"
                   \/ (m # Hello /\ Greets(stack))
                   \/ Greeted(conns'[Newest'])
<1> DEFINE n == Newest
           c == conns[n]
           X == Events(<< m >>)
<1>1. /\ conns \in Seq(ConnectionType) /\ conns # << >> /\ n \in 1 .. Len(conns)
      /\ n = Len(conns) /\ n \in Nat \ {0}
      /\ c \in ConnectionType /\ open /\ open' = open /\ lost \subseteq 1 .. told
      /\ told \in Nat
  <2>1. conns \in Seq(ConnectionType) /\ open /\ open' = open /\ conns # << >>
    BY DEF IInv, TypeOK, ido_sink_write
  <2>2. lost \subseteq 1 .. told /\ told \in Nat
    BY DEF IInv, TypeOK
  <2>3. Len(conns) \in 1 .. Len(conns) /\ Len(conns) \in Nat \ {0}
    BY <2>1
  <2> QED BY <2>1, <2>2, <2>3 DEF Newest
<1>2. /\ ConnectionOK(c)
      /\ Line(conns, Events(file), Events(buffer), CallEvents(stack), 1 .. told \ lost)
  BY <1>1 DEF IInv, LineInv
<1>3. phase \in {"starting", "running"} => NoGoodbye(c.pipe)
                                           /\ (c.state = "open" => Greeted(c) \/ Greets(stack))
  BY <1>1 DEF IInv, GreetInv, GreetingOK
<1>4. /\ IsEvent(m) => X = {m}
      /\ ~IsEvent(m) => X = {}
      /\ IsEvent(m) => m # Hello
  BY OneEvent, MessageIs
<1>5. \A i \in 1 .. n : Ahead(Own(conns[i]), X)
  <2>1. CASE ~IsEvent(m)
    BY <1>4, <2>1, AheadIs
  <2>2. CASE IsEvent(m)
    <3>1. {m} \subseteq Events(buffer) \/ {m} \subseteq CallEvents(stack)
      BY <2>2
    <3>2. \A i \in 1 .. n : /\ Ahead(Own(conns[i]), Events(buffer))
                            /\ Ahead(Own(conns[i]), CallEvents(stack))
      BY <1>1, <1>2 DEF Line
    <3> QED BY <1>4, <2>2, <3>1, <3>2, AheadIs
  <2> QED BY <2>1, <2>2
<1>6. c.pipe \in Seq(Message)
  BY <1>1, ConnectionHas
<1>7. IsEvent(m) => Events(file) = {}
  BY NoEvents
<1> HIDE DEF n, c, X
<1>8. CASE /\ c.state = "open" /\ conns' = [conns EXCEPT ![n] = [c EXCEPT !.pipe = Append(c.pipe, m)]]
           /\ lost' = lost
  <2> DEFINE d == [c EXCEPT !.pipe = Append(c.pipe, m)]
  <2>1. Append(c.pipe, m) \in Seq(Message)
    BY <1>6, AppendIs
  <2>2. /\ d \in ConnectionType /\ d.pipe = Append(c.pipe, m) /\ d.got = c.got
        /\ d.section = c.section /\ d.state = c.state
    <3>1. [c EXCEPT !.pipe = Append(c.pipe, m)] \in ConnectionType
      BY <1>1, <2>1 DEF ConnectionType
    <3> QED BY <1>1, <3>1 DEF ConnectionType
  <2> HIDE DEF d
  <2>3. /\ conns' \in Seq(ConnectionType) /\ Len(conns') = Len(conns) /\ conns'[n] = d
        /\ \A i \in 1 .. Len(conns) : i # n => conns'[i] = conns[i]
    BY <1>1, <1>8, <2>2, ConnsIs DEF d
  <2>4. IsEvent(m) => Ahead(Own(c), {m}) /\ Greeted(c) /\ NoGoodbye(c.pipe)
    BY <1>1, <1>3, <1>4, <1>5, <1>8 DEF c
  <2>5. /\ ConnectionOK(d) /\ Own(d) = Own(c) \cup X
        /\ Greeted(c) \/ m = Hello => Greeted(d)
        /\ NoGoodbye(c.pipe) /\ m # Goodbye => NoGoodbye(d.pipe)
    BY <1>1, <1>2, <2>2, <2>4, SendIs DEF X
  <2>6. \A i \in 1 .. Len(conns') : ConnectionOK(conns'[i])
    BY <1>1, <2>3, <2>5 DEF IInv
  <2>7. \A i \in 1 .. n : Own(conns'[i]) = IF i = n THEN Own(conns[i]) \cup X ELSE Own(conns[i])
    BY <1>1, <2>3, <2>5 DEF c
  <2>8. Line(conns', Events(file), C, T, 1 .. told \ lost)
    <3>1. CASE IsEvent(m)
      <4>1. \/ Events(buffer) = X \cup C /\ T = CallEvents(stack) /\ Ahead(X, C)
            \/ /\ Events(buffer) = {} /\ C = {} /\ CallEvents(stack) = X \cup T
               /\ Ahead(X, T)
        BY <1>4, <3>1
      <4>2. Events(file) = {} /\ Len(conns) = n /\ Len(conns') = n
        BY <1>1, <1>7, <2>3, <3>1
      <4>5. Sent(conns, conns', X)
        BY <1>1, <2>7, <4>2 DEF Sent
      <4>3. CASE Events(buffer) = X \cup C /\ T = CallEvents(stack) /\ Ahead(X, C)
        <5>1. Line(conns, {}, X \cup C, T, 1 .. told \ lost)
          BY <1>2, <4>2, <4>3
        <5>2. Line(conns', {}, C, T, 1 .. told \ lost)
          BY <4>3, <4>5, <5>1, LineSendBuffer
        <5> QED BY <4>2, <5>2
      <4>4. CASE /\ Events(buffer) = {} /\ C = {} /\ CallEvents(stack) = X \cup T
                 /\ Ahead(X, T)
        <5>1. Line(conns, {}, {}, X \cup T, 1 .. told \ lost)
          BY <1>2, <4>2, <4>4
        <5>2. Line(conns', {}, {}, T, 1 .. told \ lost)
          BY <4>4, <4>5, <5>1, LineSendCall
        <5> QED BY <4>2, <4>4, <5>2
      <4> QED BY <4>1, <4>3, <4>4
    <3>2. CASE ~IsEvent(m)
      <4>1. \A i \in 1 .. Len(conns) : Own(conns'[i]) = Own(conns[i])
        BY <1>1, <1>4, <2>7, <3>2
      <4> QED BY <1>2, <2>3, <3>2, <4>1, LineSame
    <3> QED BY <3>1, <3>2
  <2>9. Newest' = n /\ conns' # << >>
    BY <1>1, <2>3 DEF Newest
  <2>10. phase \in {"starting", "running"} /\ m # Goodbye =>
            NoGoodbye(d.pipe) /\ (Greeted(d) \/ (m # Hello /\ Greets(stack)))
    <3> SUFFICES ASSUME phase \in {"starting", "running"}, m # Goodbye
                 PROVE  NoGoodbye(d.pipe) /\ (Greeted(d) \/ (m # Hello /\ Greets(stack)))
      OBVIOUS
    <3>1. NoGoodbye(c.pipe) /\ (Greeted(c) \/ Greets(stack))
      BY <1>3, <1>8
    <3> QED BY <2>5, <3>1
  <2>11. phase \in {"starting", "running"} /\ m # Goodbye =>
            /\ NoGoodbye(conns'[Newest'].pipe)
            /\ Greeted(conns'[Newest']) \/ (m # Hello /\ Greets(stack))
    BY <2>3, <2>9, <2>10
  <2>12. lost' \subseteq 1 .. told
    BY <1>1, <1>8
  <2>13. Line(conns', Events(file), C, T, 1 .. told \ lost')
    BY <1>8, <2>8
  <2> QED BY <1>1, <2>3, <2>6, <2>9, <2>11, <2>12, <2>13
<1>9. CASE /\ conns' = [conns EXCEPT ![n] = [c EXCEPT !.state = "gone"]]
           /\ lost' = lost \cup X
  <2> DEFINE d == [c EXCEPT !.state = "gone"]
  <2>2. /\ d \in ConnectionType /\ d.pipe = c.pipe /\ d.got = c.got
        /\ d.section = c.section /\ d.state = "gone"
    BY <1>1 DEF ConnectionType
  <2> HIDE DEF d
  <2>3. /\ conns' \in Seq(ConnectionType) /\ Len(conns') = Len(conns) /\ conns'[n] = d
        /\ \A i \in 1 .. Len(conns) : i # n => conns'[i] = conns[i]
    BY <1>1, <1>9, <2>2, ConnsIs DEF d
  <2>5. ConnectionOK(d) /\ Own(d) = Own(c)
    BY <1>2, <2>2, StateIs
  <2>6. \A i \in 1 .. Len(conns') : ConnectionOK(conns'[i])
    BY <1>1, <2>3, <2>5 DEF IInv
  <2>7. \A i \in 1 .. Len(conns) : Own(conns'[i]) = Own(conns[i])
    BY <1>1, <2>3, <2>5 DEF c
  <2>8. Line(conns', Events(file), C, T, 1 .. told \ lost') /\ lost' \subseteq 1 .. told
    <3>1. CASE IsEvent(m)
      <4>0. m \in Int /\ X = {m}
        BY <1>4, <3>1, MessageIs
      <4>1. \A A : (Ahead(A, X) => A \ X = A) /\ (Ahead(X, A) /\ A \in SUBSET Int => A \ X = A)
        BY <4>0, AheadDisjoint
      <4>2. \A i \in 1 .. Len(conns) : Own(conns'[i]) = Own(conns[i]) \ X
        BY <1>1, <1>5, <2>7, <4>1
      <4>3. C \in SUBSET Int /\ T \in SUBSET Int /\ X \subseteq 1 .. told
        <5>1. 1 .. told \ lost \in SUBSET Int
          OBVIOUS
        <5>2. Events(buffer) \subseteq 1 .. told \ lost /\ CallEvents(stack) \subseteq 1 .. told \ lost
          BY <1>2 DEF Line
        <5> QED BY <3>1, <4>0, <5>1, <5>2
      <4>4. Events(buffer) \ X = C /\ CallEvents(stack) \ X = T
        <5>1. CASE Events(buffer) = {m} \cup C /\ T = CallEvents(stack) /\ Ahead({m}, C)
          <6>1. Ahead(X, T)
            BY <1>2, <4>0, <5>1, AheadIs DEF Line
          <6>2. T \ X = T /\ C \ X = C
            BY <4>0, <4>1, <4>3, <5>1, <6>1
          <6> QED BY <4>0, <5>1, <6>2
        <5>2. CASE /\ Events(buffer) = {} /\ C = {} /\ CallEvents(stack) = {m} \cup T
                   /\ Ahead({m}, T)
          <6>1. T \ X = T
            BY <4>0, <4>1, <4>3, <5>2
          <6> QED BY <4>0, <5>2, <6>1
        <5> QED BY <3>1, <5>1, <5>2
      <4>5. Events(file) \ X = Events(file)
        BY <1>7, <3>1
      <4>6. Line(conns', Events(file) \ X, Events(buffer) \ X, CallEvents(stack) \ X,
                 (1 .. told \ lost) \ X)
        BY <1>2, <2>3, <4>2, LineLose
      <4>7. (1 .. told \ lost) \ X = 1 .. told \ lost'
        BY <1>9, LoseIs
      <4> QED BY <1>1, <1>9, <4>3, <4>4, <4>5, <4>6, <4>7
    <3>2. CASE ~IsEvent(m)
      <4>1. lost' = lost
        BY <1>4, <1>9, <3>2
      <4>2. Line(conns', Events(file), Events(buffer), CallEvents(stack), 1 .. told \ lost)
        BY <1>2, <2>3, <2>7, LineSame
      <4> QED BY <1>1, <3>2, <4>1, <4>2
    <3> QED BY <3>1, <3>2
  <2>9. Newest' = n /\ conns' # << >>
    BY <1>1, <2>3 DEF Newest
  <2> QED BY <1>1, <1>3, <2>2, <2>3, <2>6, <2>8, <2>9
<1> QED BY <1>8, <1>9 DEF ido_sink_write, n, c, X

\* The sink is closed: nothing of the line changes.
LEMMA SinkFails ==
    ASSUME IInv, FailsToWrite
    PROVE  /\ conns' \in Seq(ConnectionType) /\ Len(conns') = Len(conns)
           /\ \A i \in 1 .. Len(conns') : ConnectionOK(conns'[i])
           /\ \A F, B, S, all : Line(conns, F, B, S, all) => Line(conns', F, B, S, all)
           /\ open' = FALSE /\ lost' = lost
<1>1. conns \in Seq(ConnectionType) /\ open' = FALSE /\ lost' = lost
  BY DEF IInv, TypeOK, FailsToWrite
<1>2. /\ conns' \in Seq(ConnectionType) /\ Len(conns') = Len(conns)
      /\ \A i \in 1 .. Len(conns) : ConnectionOK(conns'[i]) /\ Own(conns'[i]) = Own(conns[i])
  <2>1. CASE ~open
    BY <1>1, <2>1 DEF FailsToWrite, IInv
  <2>2. CASE open
    <3> DEFINE n == Newest
               d == [conns[n] EXCEPT !.state = "gone"]
    <3>1. n \in 1 .. Len(conns) /\ conns[n] \in ConnectionType
      <4>1. conns # << >>
        BY <2>2 DEF IInv, TypeOK
      <4> QED BY <1>1, <4>1 DEF Newest
    <3>2. conns' = [conns EXCEPT ![n] = d]
      BY <2>2 DEF FailsToWrite
    <3>3. /\ d \in ConnectionType /\ d.pipe = conns[n].pipe /\ d.got = conns[n].got
          /\ d.section = conns[n].section
      BY <3>1 DEF ConnectionType
    <3> HIDE DEF d, n
    <3>4. /\ conns' \in Seq(ConnectionType) /\ Len(conns') = Len(conns) /\ conns'[n] = d
          /\ \A i \in 1 .. Len(conns) : i # n => conns'[i] = conns[i]
      BY <1>1, <3>1, <3>2, <3>3, ConnsIs
    <3>5. ConnectionOK(d) /\ Own(d) = Own(conns[n])
      BY <3>1, <3>3, StateIs DEF IInv
    <3> QED BY <3>4, <3>5 DEF IInv
  <2> QED BY <2>1, <2>2
<1>3. ASSUME NEW F, NEW B, NEW S, NEW all, Line(conns, F, B, S, all)
      PROVE  Line(conns', F, B, S, all)
  BY <1>2, <1>3, LineSame
<1> QED BY <1>1, <1>2, <1>3

\* A call fails to write and goes on at the given place, which may log a line.
LEMMA FailsStep ==
    ASSUME IInv, FailsToWrite, NEW at \in Stages \ {"write"}, stack' = Logged(at), stack # << >>,
           UNCHANGED <<phase, buffer, file, told, faults>>, due' \in BOOLEAN
    PROVE  IInv'
<1>1. /\ stack \in Seq(CallType) /\ CallsOK(stack, phase) /\ Flushes(stack, buffer)
  BY DEF IInv, TypeOK
<1>2. Goes(stack', stack, at, phase)
  BY <1>1, GoesIs
<1>3. /\ stack' \in Seq(CallType) /\ CallsOK(stack', phase) /\ Flushes(stack', buffer)
      /\ CallEvents(stack') = CallEvents(stack)
  BY <1>1, <1>2, GoesKeeps
<1>4. /\ conns' \in Seq(ConnectionType) /\ \A i \in 1 .. Len(conns') : ConnectionOK(conns'[i])
      /\ Line(conns', Events(file), Events(buffer), CallEvents(stack), 1 .. told \ lost)
      /\ open' = FALSE /\ lost' = lost
  BY SinkFails DEF IInv, LineInv
<1>5. TypeOK'
  BY <1>3, <1>4 DEF IInv, TypeOK
<1>6. LineInv'
  BY <1>3, <1>4 DEF LineInv
<1>7. GreetInv'
  BY <1>4 DEF GreetInv
<1>8. PhaseInv'
  BY <1>4 DEF IInv, PhaseInv
<1> QED BY <1>3, <1>4, <1>5, <1>6, <1>7, <1>8 DEF IInv

LEMMA FlushItemStep == IInv /\ FlushItem => IInv'
<1> SUFFICES ASSUME IInv, FlushItem PROVE IInv'
  OBVIOUS
<1>1. /\ stack \in Seq(CallType) /\ stack # << >> /\ ~Greets(stack) /\ phase # "stopped"
      /\ due \in BOOLEAN /\ faults \in 0 .. MaxFaults
  BY AtTop DEF FlushItem
<1>2. /\ UNCHANGED <<phase, file, due, told, faults>> /\ buffer # << >>
      /\ phase \in {"starting", "running"}
  BY <1>1 DEF FlushItem, SlotsAreFreed, IInv, TypeOK
<1>3. CASE FailsToWrite /\ stack' = Logged("flush_failed") /\ UNCHANGED buffer
  <2>1. "flush_failed" \in Stages \ {"write"}
    BY DEF Stages
  <2> QED BY <1>1, <1>2, <1>3, <2>1, FailsStep
<1>4. CASE ido_sink_write(Head(buffer)) /\ buffer' = Tail(buffer) /\ UNCHANGED stack
  <2> DEFINE m == Head(buffer)
             C == Events(Tail(buffer))
             T == CallEvents(stack)
  <2>1. /\ m \in Message /\ Tail(buffer) \in Seq(Message) /\ Len(Tail(buffer)) = Len(buffer) - 1
        /\ Len(buffer) \in Nat \ {0} /\ Len(buffer) <= Slots
        /\ Events(buffer) = Events(<< m >>) \cup C
        /\ Rising(Tail(buffer)) /\ Ahead(Events(<< m >>), C)
        /\ NoGoodbye(Tail(buffer)) /\ m # Goodbye
    BY <1>2, HeadIs DEF IInv, TypeOK
  <2>2. file = << >>
    BY <1>2 DEF IInv, PhaseInv
  <2>3. IsEvent(m) =>
             /\ file = << >> /\ phase \in {"starting", "running"}
             /\ ~Greets(stack)
             /\ \/ /\ Events(buffer) = {m} \cup C /\ T = CallEvents(stack) /\ Ahead({m}, C)
                \/ /\ Events(buffer) = {} /\ C = {} /\ CallEvents(stack) = {m} \cup T
                   /\ Ahead({m}, T)
    BY <1>1, <1>2, <2>1, <2>2, OneEvent
  <2>4. ~IsEvent(m) => C = Events(buffer) /\ T = CallEvents(stack)
    BY <2>1, OneEvent
  <2>5. ido_sink_write(m)
    BY <1>4
  <2> HIDE DEF m, C, T
  <2>6. /\ conns' \in Seq(ConnectionType) /\ conns' # << >> /\ open' = open
        /\ \A i \in 1 .. Len(conns') : ConnectionOK(conns'[i])
        /\ Line(conns', Events(file), C, T, 1 .. told \ lost')
        /\ lost' \subseteq 1 .. told
        /\ phase \in {"starting", "running"} /\ m # Goodbye =>
             /\ NoGoodbye(conns'[Newest'].pipe)
             /\ \/ conns'[Newest'].state # "open"
                \/ (m # Hello /\ Greets(stack))
                \/ Greeted(conns'[Newest'])
    BY <2>1, <2>3, <2>4, <2>5, SinkWrite
  <2>7. TypeOK'
    <3>1. Len(Tail(buffer)) <= Slots
      BY <2>1, LinkAssumption
    <3> QED BY <1>2, <1>4, <2>1, <2>6, <3>1 DEF IInv, TypeOK
  <2>8. LineInv'
    BY <1>2, <1>4, <2>6 DEF LineInv, C, T
  <2>9. GreetInv'
    BY <1>1, <1>2, <1>4, <2>1, <2>6 DEF GreetInv, GreetingOK
  <2>10. PhaseInv'
    BY <1>1, <1>2, <2>2 DEF PhaseInv
  <2>11. CallsOK(stack, phase) /\ Flushes(stack, Tail(buffer))
    BY <2>1 DEF IInv, Flushes, C
  <2>12. Rising(file) /\ NoGoodbye(file)
    BY DEF IInv
  <2> QED BY <1>2, <1>4, <2>1, <2>6, <2>7, <2>8, <2>9, <2>10, <2>11, <2>12 DEF IInv
<1> QED BY <1>3, <1>4 DEF FlushItem

LEMMA WriteStep == IInv /\ Write => IInv'
<1> SUFFICES ASSUME IInv, Write PROVE IInv'
  OBVIOUS
<1>1. /\ stack \in Seq(CallType) /\ stack # << >> /\ phase # "stopped" /\ Top.buf \in Message
      /\ Top.at = "write" /\ FrameOK(Top, Len(stack), phase)
      /\ due \in BOOLEAN /\ faults \in 0 .. MaxFaults
  BY AtTop DEF Write
<1>2. UNCHANGED <<phase, buffer, file, told, faults>>
  BY DEF Write
<1>3. CASE FailsToWrite /\ due' = FALSE /\ stack' = Logged("write_failed")
  <2>1. "write_failed" \in Stages \ {"write"}
    BY DEF Stages
  <2> QED BY <1>1, <1>2, <1>3, <2>1, FailsStep
<1>4. CASE ido_sink_write(Top.buf) /\ stack' = Return /\ UNCHANGED due
  <2> DEFINE m == Top.buf
             C == Events(buffer)
             T == CallEvents(Return)
  <2>1. CallsOK(stack, phase) /\ Flushes(stack, buffer)
    BY DEF IInv
  <2>2. /\ Return \in Seq(CallType) /\ CallsOK(Return, phase) /\ Flushes(Return, buffer)
        /\ IsEvent(m) => CallEvents(stack) = {m} /\ T = {}
        /\ ~IsEvent(m) => T = CallEvents(stack)
    <3>1. m = stack[Len(stack)].buf
      BY DEF Top
    <3> HIDE DEF m
    <3>2. /\ Front(stack) \in Seq(CallType) /\ CallsOK(Front(stack), phase)
          /\ Flushes(Front(stack), buffer)
          /\ IsEvent(m) => CallEvents(stack) = {m} /\ CallEvents(Front(stack)) = {}
          /\ ~IsEvent(m) => CallEvents(Front(stack)) = CallEvents(stack)
      BY <1>1, <2>1, <3>1, ReturnIs
    <3> QED BY <3>2 DEF Return
  <2>3. IsEvent(m) => phase = "running" /\ Events(buffer) = {} /\ file = << >>
    <3>1. Len(stack) \in 1 .. Len(stack)
      BY <1>1, TopIs
    <3> QED BY <1>1, <2>1, <3>1 DEF FrameOK, Flushes, Top, IInv, PhaseInv
  <2>4. IsEvent(m) => ~Greets(stack)
    BY MessageIs DEF Greets, Top
  <2>5. IsEvent(m) =>
             /\ file = << >> /\ phase \in {"starting", "running"}
             /\ ~Greets(stack)
             /\ \/ /\ Events(buffer) = {m} \cup C /\ T = CallEvents(stack) /\ Ahead({m}, C)
                \/ /\ Events(buffer) = {} /\ C = {} /\ CallEvents(stack) = {m} \cup T
                   /\ Ahead({m}, T)
    <3>1. Ahead({m}, {})
      BY AheadIs
    <3> QED BY <2>2, <2>3, <2>4, <3>1
  <2>6. ~IsEvent(m) => C = Events(buffer) /\ T = CallEvents(stack)
    BY <2>2
  <2>7. ido_sink_write(m) /\ m \in Message
    BY <1>1, <1>4
  <2>8. phase \in {"starting", "running"} => m # Goodbye
    BY <1>1 DEF FrameOK
  <2>9. Greets(stack) => m = Hello
    BY DEF Greets, Top
  <2> HIDE DEF m, C, T
  <2>10. /\ conns' \in Seq(ConnectionType) /\ conns' # << >> /\ open' = open
         /\ \A i \in 1 .. Len(conns') : ConnectionOK(conns'[i])
         /\ Line(conns', Events(file), C, T, 1 .. told \ lost')
         /\ lost' \subseteq 1 .. told
         /\ phase \in {"starting", "running"} /\ m # Goodbye =>
              /\ NoGoodbye(conns'[Newest'].pipe)
              /\ \/ conns'[Newest'].state # "open"
                 \/ (m # Hello /\ Greets(stack))
                 \/ Greeted(conns'[Newest'])
    BY <2>5, <2>6, <2>7, SinkWrite
  <2>11. TypeOK'
    BY <1>1, <1>2, <1>4, <2>2, <2>10 DEF IInv, TypeOK
  <2>12. LineInv'
    BY <1>2, <1>4, <2>10 DEF LineInv, C, T
  <2>13. GreetInv'
    BY <1>2, <2>8, <2>9, <2>10 DEF GreetInv, GreetingOK
  <2>14. PhaseInv'
    BY <1>1, <1>2 DEF IInv, PhaseInv
  <2>15. Rising(file) /\ NoGoodbye(file) /\ Rising(buffer) /\ NoGoodbye(buffer)
    BY DEF IInv
  <2> QED BY <1>2, <1>4, <2>2, <2>10, <2>11, <2>12, <2>13, <2>14, <2>15 DEF IInv
<1> QED BY <1>3, <1>4 DEF Write

---------------------------------------------------------------------------------
(* Steps of the core, and of ido2db. *)

LEMMA TickStep == IInv /\ Tick => IInv'
<1> SUFFICES ASSUME IInv, Tick PROVE IInv'
  OBVIOUS
<1>1. UNCHANGED <<phase, stack, buffer, file, open, conns, told, lost, faults>> /\ due' = TRUE
  BY DEF Tick
<1>2. TypeOK' /\ LineInv'
  BY <1>1 DEF IInv, TypeOK, LineInv
<1>3. GreetInv' /\ PhaseInv'
  BY <1>1 DEF IInv, GreetInv, GreetingOK, Newest, PhaseInv
<1> QED BY <1>1, <1>2, <1>3 DEF IInv

\* A single call, and none.
LEMMA OneCall ==
    ASSUME NEW f \in CallType, NEW ph, FrameOK(f, 1, ph), f.at = "enter", NEW buf
    PROVE  /\ << f >> \in Seq(CallType) /\ CallsOK(<< f >>, ph) /\ Flushes(<< f >>, buf)
           /\ IsEvent(f.buf) => CallEvents(<< f >>) = {f.buf}
           /\ ~IsEvent(f.buf) => CallEvents(<< f >>) = {}
           /\ << f >> # << >>
BY DEF CallsOK, Flushes, CallEvents

LEMMA NoCalls ==
    ASSUME NEW ph, NEW buf
    PROVE  /\ << >> \in Seq(CallType) /\ CallsOK(<< >>, ph) /\ Flushes(<< >>, buf)
           /\ CallEvents(<< >>) = {} /\ ~Greets(<< >>)
BY DEF CallsOK, Flushes, CallEvents, Greets

LEMMA TellStep == IInv /\ (TellEvent \/ TellStatus) => IInv'
<1> SUFFICES ASSUME IInv, TellEvent \/ TellStatus PROVE IInv'
  OBVIOUS
<1>1. /\ UNCHANGED <<phase, buffer, file, open, due, conns, lost, faults>>
      /\ phase = "running" /\ stack = << >> /\ file = << >>
      /\ told \in Nat /\ lost \subseteq 1 .. told
  <2>1. UNCHANGED <<phase, buffer, file, open, due, conns, lost, faults>>
    BY DEF TellEvent, TellStatus
  <2>2. phase = "running" /\ stack = << >>
    BY DEF TellEvent, TellStatus, Idle
  <2>3. told \in Nat /\ lost \subseteq 1 .. told
    BY DEF IInv, TypeOK
  <2> QED BY <2>1, <2>2, <2>3 DEF IInv, PhaseInv
<1>2. PICK m \in Message : /\ stack' = << Call(m, TRUE, TRUE) >>
                           /\ \/ m = told + 1 /\ told' = m /\ told' \in 0 .. MaxEvents
                              \/ m = Other /\ told' = told
  <2>1. CASE TellEvent
    <3>1. told + 1 \in Message /\ told' = told + 1 /\ told + 1 \in 0 .. MaxEvents
      BY <1>1, <2>1, LinkAssumption DEF TellEvent, Message, IInv, TypeOK
    <3> QED BY <2>1, <3>1 DEF TellEvent
  <2>2. CASE TellStatus
    BY <2>2, MessageIs DEF TellStatus
  <2> QED BY <2>1, <2>2
<1> DEFINE f == Call(m, TRUE, TRUE)
<1>3. m = told + 1 => IsEvent(m)
  BY <1>1 DEF IsEvent
<1>4. /\ f \in CallType /\ f.buf = m /\ f.at = "enter" /\ f.flush_buffer /\ f.buffer_write
  BY DEF Call, CallType
<1> HIDE DEF f
<1>5. FrameOK(f, 1, "running")
  BY <1>1, <1>2, <1>3, <1>4, MessageIs DEF FrameOK
<1>6. /\ stack' \in Seq(CallType) /\ CallsOK(stack', phase) /\ Flushes(stack', buffer)
      /\ IsEvent(m) => CallEvents(stack') = {m}
      /\ ~IsEvent(m) => CallEvents(stack') = {}
  BY <1>1, <1>2, <1>4, <1>5, OneCall DEF f
<1>7. TypeOK'
  <2>1. lost \subseteq 1 .. told'
    BY <1>1, <1>2
  <2>2. told' \in 0 .. MaxEvents
    BY <1>2 DEF IInv, TypeOK
  <2> QED BY <1>1, <1>6, <2>1, <2>2 DEF IInv, TypeOK
<1>8. LineInv'
  <2>1. Line(conns, Events(file), Events(buffer), {}, 1 .. told \ lost)
    BY <1>1, NoCalls DEF IInv, LineInv
  <2>2. CASE m = told + 1 /\ told' = m
    <3>1. 1 .. told \ lost \in SUBSET (1 .. told)
      OBVIOUS
    <3>2. Line(conns, Events(file), Events(buffer), {told + 1}, (1 .. told \ lost) \cup {told + 1})
      BY <1>1, <2>1, <3>1, LineTell
    <3>3. (1 .. told \ lost) \cup {told + 1} = 1 .. told' \ lost
      BY <1>1, <2>2
    <3> QED BY <1>1, <1>3, <1>6, <2>2, <3>2, <3>3 DEF LineInv
  <2>3. CASE m = Other /\ told' = told
    BY <1>1, <1>6, <2>1, <2>3, MessageIs DEF LineInv
  <2> QED BY <1>2, <2>2, <2>3
<1>9. GreetInv'
  BY <1>1, NoCalls DEF IInv, GreetInv, GreetingOK, Newest
<1>10. PhaseInv'
  BY <1>1 DEF PhaseInv
<1> QED BY <1>1, <1>6, <1>7, <1>8, <1>9, <1>10 DEF IInv

LEMMA StartedStep == IInv /\ Started => IInv'
<1> SUFFICES ASSUME IInv, Started PROVE IInv'
  OBVIOUS
<1>1. /\ UNCHANGED <<stack, buffer, file, open, due, conns, told, lost, faults>>
      /\ phase = "starting" /\ phase' = "running" /\ stack = << >>
  BY DEF Started, Idle
<1>2. TypeOK' /\ LineInv'
  BY <1>1 DEF IInv, TypeOK, LineInv
<1>3. GreetInv' /\ PhaseInv'
  BY <1>1 DEF IInv, GreetInv, GreetingOK, Newest, PhaseInv
<1> QED BY <1>1, <1>2, <1>3, NoCalls DEF IInv

LEMMA DeinitStep == IInv /\ idomod_deinit => IInv'
<1> SUFFICES ASSUME IInv, idomod_deinit PROVE IInv'
  OBVIOUS
<1>1. /\ UNCHANGED <<open, due, conns, told, lost>> /\ stack = << >>
      /\ phase = "running" /\ phase' = "ending" /\ stack' = << idomod_goodbye_sink >>
      /\ file = << >>
  BY DEF idomod_deinit, Idle, IInv, PhaseInv
<1>2. \/ file' = buffer /\ buffer' = << >>
      \/ UNCHANGED <<buffer, file>>
  BY DEF idomod_deinit, idomod_save_unprocessed_data
<1>3. faults' \in 0 .. MaxFaults
  BY FaultIs DEF IInv, idomod_deinit
<1>4. FrameOK(idomod_goodbye_sink, 1, "ending")
  BY MessageIs DEF FrameOK, idomod_goodbye_sink, Call
<1>5. /\ stack' \in Seq(CallType) /\ CallsOK(stack', "ending") /\ Flushes(stack', buffer')
      /\ CallEvents(stack') = {}
  <2>1. /\ idomod_goodbye_sink \in CallType /\ idomod_goodbye_sink.at = "enter"
        /\ idomod_goodbye_sink.buf = Goodbye
    BY CallIs
  <2> QED BY <1>1, <1>4, <2>1, OneCall, MessageIs
<1>6. TypeOK'
  BY <1>1, <1>2, <1>3, <1>5, LinkAssumption DEF IInv, TypeOK
<1>7. LineInv'
  <2>1. Line(conns, {}, Events(buffer), {}, 1 .. told \ lost)
    BY <1>1, NoEvents, NoCalls DEF IInv, LineInv
  <2>2. Line(conns, Events(buffer), {}, {}, 1 .. told \ lost)
    BY <2>1, LineSave
  <2> QED BY <1>1, <1>2, <1>5, <2>1, <2>2, NoEvents DEF LineInv
<1>8. GreetInv' /\ PhaseInv'
  BY <1>1, <1>2 DEF GreetInv, PhaseInv
<1>9. Rising(file)' /\ Rising(buffer)' /\ NoGoodbye(file)' /\ NoGoodbye(buffer)'
  BY <1>1, <1>2, NoEvents DEF IInv
<1> QED BY <1>1, <1>5, <1>6, <1>7, <1>8, <1>9 DEF IInv

LEMMA InitStep == IInv /\ idomod_init => IInv'
<1> SUFFICES ASSUME IInv, idomod_init PROVE IInv'
  OBVIOUS
<1>1. /\ UNCHANGED <<open, conns, told, lost, faults>> /\ due' = TRUE
      /\ stack = << >> /\ buffer = << >> /\ ~open
      /\ phase' = "starting" /\ stack' = << Call(Other, FALSE, TRUE) >>
      /\ buffer' = file /\ file' = << >>
  BY DEF idomod_init, idomod_load_unprocessed_data, IInv, PhaseInv
<1> DEFINE f == Call(Other, FALSE, TRUE)
<1>2. f \in CallType /\ f.at = "enter" /\ f.buf = Other /\ f.flush_buffer /\ ~f.buffer_write
  BY MessageIs DEF Call, CallType
<1> HIDE DEF f
<1>3. FrameOK(f, 1, "starting")
  BY <1>2, MessageIs DEF FrameOK
<1>4. /\ stack' \in Seq(CallType) /\ CallsOK(stack', "starting") /\ Flushes(stack', buffer')
      /\ CallEvents(stack') = {}
  BY <1>1, <1>2, <1>3, OneCall, MessageIs DEF f
<1>5. TypeOK'
  BY <1>1, <1>4, LinkAssumption DEF IInv, TypeOK
<1>6. LineInv'
  <2>1. Line(conns, Events(file), {}, {}, 1 .. told \ lost)
    BY <1>1, NoEvents, NoCalls DEF IInv, LineInv
  <2>2. Line(conns, {}, Events(file), {}, 1 .. told \ lost)
    BY <2>1, LineSave
  <2> QED BY <1>1, <1>4, <2>2, NoEvents DEF LineInv
<1>7. GreetInv' /\ PhaseInv'
  BY <1>1 DEF GreetInv, PhaseInv
<1>8. Rising(file)' /\ Rising(buffer)' /\ NoGoodbye(file)' /\ NoGoodbye(buffer)'
  BY <1>1, NoEvents DEF IInv
<1> QED BY <1>1, <1>4, <1>5, <1>6, <1>7, <1>8 DEF IInv

\* The process of the core is gone, and what was in its buffer and its calls.
LEMMA StopsStep ==
    ASSUME IInv, Stops, lost' = lost \cup Events(buffer) \cup CallEvents(stack),
           UNCHANGED <<file, due, told>>, faults' \in 0 .. MaxFaults
    PROVE  IInv'
<1> DEFINE X == Events(buffer) \cup CallEvents(stack)
<1>1. /\ phase' = "stopped" /\ stack' = << >> /\ buffer' = << >> /\ open' = FALSE
      /\ conns \in Seq(ConnectionType) /\ lost \subseteq 1 .. told
  BY DEF Stops, IInv, TypeOK
<1>2. /\ conns' \in Seq(ConnectionType) /\ Len(conns') = Len(conns)
      /\ \A i \in 1 .. Len(conns) : ConnectionOK(conns'[i]) /\ Own(conns'[i]) = Own(conns[i])
  <2>1. CASE ~(open /\ conns[Newest].state = "open")
    BY <1>1, <2>1 DEF Stops, IInv
  <2>2. CASE open /\ conns[Newest].state = "open"
    <3> DEFINE n == Newest
               d == [conns[n] EXCEPT !.state = "closed"]
    <3>1. n \in 1 .. Len(conns) /\ conns[n] \in ConnectionType
      <4>1. conns # << >>
        BY <2>2 DEF IInv, TypeOK
      <4> QED BY <1>1, <4>1 DEF Newest
    <3>2. conns' = [conns EXCEPT ![n] = d]
      BY <2>2 DEF Stops
    <3>3. /\ d \in ConnectionType /\ d.pipe = conns[n].pipe /\ d.got = conns[n].got
          /\ d.section = conns[n].section
      BY <3>1 DEF ConnectionType
    <3> HIDE DEF d, n
    <3>4. /\ conns' \in Seq(ConnectionType) /\ Len(conns') = Len(conns) /\ conns'[n] = d
          /\ \A i \in 1 .. Len(conns) : i # n => conns'[i] = conns[i]
      BY <1>1, <3>1, <3>2, <3>3, ConnsIs
    <3>5. ConnectionOK(d) /\ Own(d) = Own(conns[n])
      BY <3>1, <3>3, StateIs DEF IInv
    <3> QED BY <3>4, <3>5 DEF IInv
  <2> QED BY <2>1, <2>2
<1>3. Line(conns, Events(file), Events(buffer), CallEvents(stack), 1 .. told \ lost)
  BY DEF IInv, LineInv
<1>4. X \subseteq 1 .. told /\ X \in SUBSET Int
  <2>1. X \subseteq 1 .. told \ lost
    BY <1>3 DEF Line
  <2> QED BY <2>1
<1>5. /\ \A i \in 1 .. Len(conns) : Ahead(Own(conns[i]), X)
      /\ Ahead(Events(file), X)
  BY <1>3, AheadIs DEF Line
<1> HIDE DEF X
<1>6. \A A : Ahead(A, X) => A \ X = A
  BY <1>4, AheadDisjoint
<1>7. /\ \A i \in 1 .. Len(conns) : Own(conns'[i]) = Own(conns[i]) \ X
      /\ Events(file) \ X = Events(file)
  BY <1>2, <1>5, <1>6
<1>8. Line(conns', Events(file) \ X, Events(buffer) \ X, CallEvents(stack) \ X,
           (1 .. told \ lost) \ X)
  BY <1>2, <1>3, <1>7, LineLose
<1>9. /\ Events(buffer) \ X = {} /\ CallEvents(stack) \ X = {}
      /\ (1 .. told \ lost) \ X = 1 .. told \ lost'
  BY DEF X
<1>10. LineInv'
  BY <1>1, <1>7, <1>8, <1>9, NoEvents, NoCalls DEF LineInv
<1>11. lost' \subseteq 1 .. told
  BY <1>1, <1>4 DEF X
<1>12. TypeOK'
  <2>1. << >> \in Seq(CallType) /\ << >> \in Seq(Message) /\ Len(<< >>) <= Slots
    BY LinkAssumption
  <2> QED BY <1>1, <1>2, <1>11, <2>1 DEF IInv, TypeOK
<1>13. GreetInv' /\ PhaseInv'
  BY <1>1 DEF GreetInv, PhaseInv
<1>14. /\ CallsOK(stack', phase') /\ Flushes(stack', buffer')
       /\ Rising(file)' /\ Rising(buffer)' /\ NoGoodbye(file)' /\ NoGoodbye(buffer)'
  BY <1>1, NoEvents, NoCalls DEF IInv
<1>15. \A i \in 1 .. Len(conns') : ConnectionOK(conns'[i])
  BY <1>2
<1> QED BY <1>10, <1>12, <1>13, <1>14, <1>15 DEF IInv

\* Once the module ends, no call has an event.
LEMMA EndedStep == IInv /\ (Ended \/ FlushCrashes) => IInv'
<1> SUFFICES ASSUME IInv, Ended \/ FlushCrashes PROVE IInv'
  OBVIOUS
<1>1. /\ phase = "ending" /\ Stops /\ lost' = lost \cup Events(buffer)
      /\ UNCHANGED <<file, due, told, faults>>
  BY DEF Ended, FlushCrashes, SlotsAreFreed
<1>2. CallEvents(stack) = {}
  BY <1>1 DEF IInv, CallsOK, FrameOK, CallEvents
<1>3. faults \in 0 .. MaxFaults
  BY DEF IInv, TypeOK
<1> QED BY <1>1, <1>2, <1>3, StopsStep

LEMMA FcnIsSeq ==
    ASSUME NEW M, NEW n \in Nat, NEW f \in [1 .. n -> M]
    PROVE  f \in Seq(M) /\ Len(f) = n
OBVIOUS

LEMMA ConcatHas ==
    ASSUME NEW a \in Seq(Seq(Message)), NEW z \in Seq(Seq(Message))
    PROVE  /\ a \o z \in Seq(Seq(Message)) /\ Len(a \o z) = Len(a) + Len(z)
           /\ \A i \in 1 .. Len(a) : (a \o z)[i] = a[i]
           /\ \A i \in 1 .. Len(z) : (a \o z)[Len(a) + i] = z[i]
OBVIOUS

LEMMA CallBufs ==
    ASSUME IInv
    PROVE  LET b == [i \in DOMAIN stack |-> stack[i].buf]
           IN b \in Seq(Message) /\ Events(b) = CallEvents(stack) /\ Rising(b)
<1> DEFINE b == [i \in DOMAIN stack |-> stack[i].buf]
<1>1. stack \in Seq(CallType)
  BY DEF IInv, TypeOK
<1>2. /\ b \in Seq(Message) /\ Len(b) = Len(stack) /\ Len(stack) \in Nat
      /\ \A i \in 1 .. Len(stack) : b[i] = stack[i].buf
  <2>1. \A i \in DOMAIN stack : stack[i].buf \in Message
    <3>1. \A i \in DOMAIN stack : stack[i] \in CallType
      BY <1>1
    <3> QED BY <3>1 DEF CallType
  <2>2. DOMAIN stack = 1 .. Len(stack) /\ Len(stack) \in Nat
    BY <1>1
  <2>3. b \in [1 .. Len(stack) -> Message] /\ \A i \in 1 .. Len(stack) : b[i] = stack[i].buf
    BY <2>1, <2>2
  <2> QED BY <2>2, <2>3, FcnIsSeq
<1> HIDE DEF b
<1>3. Events(b) = CallEvents(stack)
  <2>1. \A e : e \in Events(b) <=> IsEvent(e) /\ \E i \in 1 .. Len(b) : b[i] = e
    BY <1>2, EventsAre
  <2>2. \A e : e \in CallEvents(stack) <=>
                 IsEvent(e) /\ \E i \in 1 .. Len(stack) : stack[i].buf = e
    BY DEF CallEvents
  <2> QED BY <1>2, <2>1, <2>2
<1>4. \A i \in 1 .. Len(b) : IsEvent(b[i]) => i = 1
  BY <1>2 DEF IInv, CallsOK, FrameOK
<1>5. Rising(b)
  BY <1>2, <1>4 DEF Rising
<1> QED BY <1>2, <1>3, <1>5 DEF b

LEMMA CrashStep == IInv /\ Crash => IInv'
<1> SUFFICES ASSUME IInv, Crash PROVE IInv'
  OBVIOUS
<1> DEFINE b == [i \in DOMAIN stack |-> stack[i].buf]
<1>3. Events(b) = CallEvents(stack)
  BY CallBufs
<1>4. /\ Stops /\ Fault /\ UNCHANGED <<file, due, told>>
      /\ lost' = lost \cup Events(buffer) \cup Events(b)
  BY DEF Crash
<1>5. faults' \in 0 .. MaxFaults
  BY <1>4, FaultIs DEF IInv
<1> QED BY <1>3, <1>4, <1>5, StopsStep

\* The connection i becomes d and loses the events X.
LEMMA ConnectionStep ==
    ASSUME IInv, NEW i \in 1 .. Len(conns), NEW d \in ConnectionType, NEW X,
           conns' = [conns EXCEPT ![i] = d], ConnectionOK(d),
           X \subseteq Own(conns[i]), Own(d) = Own(conns[i]) \ X, lost' = lost \cup X,
           UNCHANGED <<phase, stack, buffer, file, open, due, told>>, faults' \in 0 .. MaxFaults,
           NoGoodbye(conns[i].pipe) => NoGoodbye(d.pipe),
           d.state = "open" => conns[i].state = "open",
           Greeted(conns[i]) /\ NoGoodbye(conns[i].pipe) /\ d.state = "open" => Greeted(d)
    PROVE  IInv'
<1>1. /\ conns \in Seq(ConnectionType) /\ Len(conns) \in Nat
      /\ lost \subseteq 1 .. told /\ told \in Nat
  BY DEF IInv, TypeOK
<1>2. /\ conns' \in Seq(ConnectionType) /\ Len(conns') = Len(conns) /\ conns'[i] = d
      /\ \A j \in 1 .. Len(conns) : j # i => conns'[j] = conns[j]
  BY <1>1, ConnsIs
<1>3. Line(conns, Events(file), Events(buffer), CallEvents(stack), 1 .. told \ lost)
  BY DEF IInv, LineInv
<1>4. /\ \A j \in 1 .. Len(conns) : Own(conns[j]) \subseteq 1 .. told \ lost
      /\ Events(file) \subseteq 1 .. told \ lost /\ Events(buffer) \subseteq 1 .. told \ lost
      /\ CallEvents(stack) \subseteq 1 .. told \ lost /\ X \subseteq 1 .. told \ lost
  BY <1>3 DEF Line
<1>5. 1 .. told \ lost \in SUBSET Int
  OBVIOUS
<1>6. \A A \in SUBSET Int : Ahead(A, X) \/ Ahead(X, A) => A \ X = A
  BY <1>4, <1>5, AheadDisjoint
<1>7. /\ Events(file) \ X = Events(file) /\ Events(buffer) \ X = Events(buffer)
      /\ CallEvents(stack) \ X = CallEvents(stack)
  <2>1. Ahead(X, Events(file)) /\ Ahead(X, Events(buffer)) /\ Ahead(X, CallEvents(stack))
    BY <1>3, AheadIs DEF Line
  <2> QED BY <1>4, <1>5, <1>6, <2>1
<1>8. \A j \in 1 .. Len(conns) : Own(conns'[j]) = Own(conns[j]) \ X
  <2> SUFFICES ASSUME NEW j \in 1 .. Len(conns) PROVE Own(conns'[j]) = Own(conns[j]) \ X
    OBVIOUS
  <2>1. CASE j = i
    BY <1>2, <2>1
  <2>2. CASE j # i
    <3>1. j < i \/ i < j
      BY <2>2
    <3>2. Ahead(Own(conns[j]), X) \/ Ahead(X, Own(conns[j]))
      BY <1>3, <3>1, AheadIs DEF Line
    <3>3. Own(conns[j]) \in SUBSET Int
      BY <1>4, <1>5
    <3> QED BY <1>2, <1>6, <2>2, <3>2, <3>3
  <2> QED BY <2>1, <2>2
<1>9. Line(conns', Events(file) \ X, Events(buffer) \ X, CallEvents(stack) \ X,
           (1 .. told \ lost) \ X)
  BY <1>2, <1>3, <1>8, LineLose
<1>10. (1 .. told \ lost) \ X = 1 .. told \ lost'
  BY LoseIs
<1>11. LineInv'
  BY <1>7, <1>9, <1>10 DEF LineInv
<1>12. TypeOK'
  <2>1. lost' \subseteq 1 .. told
    BY <1>1, <1>4
  <2>2. conns' # << >>
    BY <1>1, <1>2
  <2> QED BY <1>2, <2>1, <2>2 DEF IInv, TypeOK
<1>13. \A j \in 1 .. Len(conns') : ConnectionOK(conns'[j])
  BY <1>2 DEF IInv
<1>14. GreetInv'
  <2> SUFFICES ASSUME open, phase \in {"starting", "running"}
               PROVE  GreetingOK(conns'[Newest'], stack)
    BY DEF GreetInv
  <2>1. GreetingOK(conns[Newest], stack) /\ Newest' = Newest /\ Newest \in 1 .. Len(conns)
    BY <1>1, <1>2 DEF IInv, GreetInv, Newest
  <2>2. CASE i = Newest
    BY <1>2, <2>1, <2>2 DEF GreetingOK
  <2>3. CASE i # Newest
    BY <1>2, <2>1, <2>3
  <2> QED BY <2>2, <2>3
<1>15. PhaseInv'
  BY DEF IInv, PhaseInv
<1> QED BY <1>11, <1>12, <1>13, <1>14, <1>15 DEF IInv

LEMMA TakeStep == ASSUME IInv, NEW i \in DOMAIN conns, Take(i) PROVE IInv'
<1> DEFINE c == conns[i]
           m == Head(c.pipe)
           h == ido2db_handle_client_input(c, m)
           d == [h EXCEPT !.pipe = Tail(c.pipe)]
<1>1. /\ i \in 1 .. Len(conns) /\ c \in ConnectionType /\ ConnectionOK(c)
      /\ c.pipe # << >> /\ faults \in 0 .. MaxFaults
  <2>1. conns \in Seq(ConnectionType) /\ faults \in 0 .. MaxFaults
    BY DEF IInv, TypeOK
  <2>2. i \in 1 .. Len(conns) /\ c \in ConnectionType
    BY <2>1
  <2> QED BY <2>1, <2>2 DEF IInv, Take
<1>2. /\ conns' = [conns EXCEPT ![i] = d]
      /\ UNCHANGED <<phase, stack, buffer, file, open, due, told, lost, faults>>
  BY DEF Take
<1> HIDE DEF c
<1>3. /\ c.pipe \in Seq(Message) /\ c.got \in Seq(Message) /\ m \in Message
      /\ Tail(c.pipe) \in Seq(Message)
  <2>1. c.pipe \in Seq(Message) /\ c.got \in Seq(Message)
    BY <1>1, ConnectionHas
  <2> QED BY <1>1, <2>1, HeadIs
<1> HIDE DEF m
<1>4. h \in ConnectionType /\ h.state = c.state
      /\ h.section = (CASE m = Hello -> "data" [] m = Goodbye -> "none" [] OTHER -> c.section)
      /\ h.got = IF IsEvent(m) /\ c.section = "data" THEN Append(c.got, m) ELSE c.got
  <2>0. Append(c.got, m) \in Seq(Message)
    BY <1>3, AppendIs
  <2>1. CASE m = Hello
    <3>1. h = [c EXCEPT !.section = "data"] /\ ~IsEvent(m) /\ m # Goodbye
      BY <2>1, MessageIs DEF ido2db_handle_client_input
    <3> QED BY <1>1, <2>1, <3>1 DEF ConnectionType
  <2>2. CASE m = Goodbye
    <3>1. h = [c EXCEPT !.section = "none"] /\ ~IsEvent(m) /\ m # Hello
      BY <2>2, MessageIs DEF ido2db_handle_client_input
    <3> QED BY <1>1, <2>2, <3>1 DEF ConnectionType
  <2>3. CASE IsEvent(m) /\ c.section = "data"
    <3>1. h = [c EXCEPT !.got = Append(c.got, m)] /\ m # Hello /\ m # Goodbye
      BY <2>3, MessageIs DEF ido2db_handle_client_input
    <3> QED BY <1>1, <2>0, <2>3, <3>1 DEF ConnectionType
  <2>4. CASE m # Hello /\ m # Goodbye /\ ~(IsEvent(m) /\ c.section = "data")
    <3>1. h = c
      BY <2>4 DEF ido2db_handle_client_input
    <3> QED BY <1>1, <2>4, <3>1
  <2> QED BY <2>1, <2>2, <2>3, <2>4
<1> HIDE DEF h
<1>5. /\ d \in ConnectionType /\ d.pipe = Tail(c.pipe) /\ d.got = h.got
      /\ d.section = h.section /\ d.state = h.state
  BY <1>3, <1>4 DEF ConnectionType
<1> HIDE DEF d
<1>6. /\ ConnectionOK(d) /\ Own(d) = Own(c)
      /\ NoGoodbye(c.pipe) => NoGoodbye(d.pipe)
      /\ Greeted(c) /\ NoGoodbye(c.pipe) => Greeted(d)
  BY <1>1, <1>4, <1>5, TakeIs DEF m
<1>7. lost' = lost \cup {} /\ {} \subseteq Own(c) /\ Own(d) = Own(c) \ {}
  BY <1>2, <1>6
<1> QED BY <1>1, <1>2, <1>4, <1>5, <1>6, <1>7, ConnectionStep DEF c

LEMMA ClosedIs ==
    ASSUME NEW c \in ConnectionType, NEW p \in Seq(Message), NEW x \in {"broken", "ended"}
    PROVE  LET d == Left(c, p, x)
           IN /\ d \in ConnectionType /\ d.pipe = p /\ d.got = c.got
              /\ d.section = c.section /\ d.state = x
BY DEF ConnectionType, Left

LEMMA BreakStep == ASSUME IInv, NEW i \in DOMAIN conns, Break(i) PROVE IInv'
<1> DEFINE c == conns[i]
           X == Events(c.pipe)
           x == IF c.state = "open" THEN "broken" ELSE "ended"
           d == Left(c, << >>, x)
<1>1. /\ i \in 1 .. Len(conns) /\ c \in ConnectionType /\ ConnectionOK(c)
  <2>1. conns \in Seq(ConnectionType)
    BY DEF IInv, TypeOK
  <2>2. i \in 1 .. Len(conns) /\ c \in ConnectionType
    BY <2>1
  <2> QED BY <2>2 DEF IInv
<1>2. /\ conns' = [conns EXCEPT ![i] = d] /\ lost' = lost \cup X
      /\ UNCHANGED <<phase, stack, buffer, file, open, due, told>>
  BY DEF Break
<1>3. faults' \in 0 .. MaxFaults
  BY FaultIs DEF IInv, Break
<1>4. x \in {"broken", "ended"}
  OBVIOUS
<1> HIDE DEF c, x
<1>5. /\ d \in ConnectionType /\ d.pipe = << >> /\ d.got = c.got
      /\ d.section = c.section /\ d.state = x
  <2>1. << >> \in Seq(Message)
    OBVIOUS
  <2> QED BY <1>1, <1>4, <2>1, ClosedIs
<1> HIDE DEF d
<1>6. c.pipe \in Seq(Message) /\ Len(c.pipe) \in Nat
  <2>1. c.pipe \in Seq(Message)
    BY <1>1, ConnectionHas
  <2> QED BY <2>1
<1>7. /\ 0 \in 0 .. Len(c.pipe) /\ d.pipe = SubSeq(c.pipe, 1, 0)
      /\ c.pipe = SubSeq(c.pipe, 0 + 1, Len(c.pipe))
  BY <1>5, <1>6
<1>8. /\ ConnectionOK(d) /\ Own(d) = Own(c) \ X /\ X \subseteq Own(c)
      /\ NoGoodbye(c.pipe) => NoGoodbye(d.pipe)
  <2>1. X = Events(SubSeq(c.pipe, 0 + 1, Len(c.pipe)))
    BY <1>7
  <2>2. Drops(c, d, 0, X)
    BY <1>5, <1>7, <2>1 DEF Drops
  <2> HIDE DEF X
  <2> QED BY <1>1, <2>2, DropIs
<1>9. d.state # "open"
  BY <1>4, <1>5
<1> HIDE DEF X
<1> QED BY <1>1, <1>2, <1>3, <1>5, <1>8, <1>9, ConnectionStep DEF c

LEMMA ProxyStep == ASSUME IInv, NEW i \in DOMAIN conns, ido2db_proxy_thread_proc(i) PROVE IInv'
<1> DEFINE c == conns[i]
<1>1. /\ i \in 1 .. Len(conns) /\ c \in ConnectionType /\ ConnectionOK(c)
      /\ faults \in 0 .. MaxFaults
  <2>1. conns \in Seq(ConnectionType) /\ faults \in 0 .. MaxFaults
    BY DEF IInv, TypeOK
  <2>2. i \in 1 .. Len(conns) /\ c \in ConnectionType
    BY <2>1
  <2> QED BY <2>1, <2>2 DEF IInv
<1>2. PICK n \in 0 .. Len(c.pipe) :
        /\ conns' = [conns EXCEPT ![i] = Left(c, SubSeq(c.pipe, 1, n), "ended")]
        /\ lost' = lost \cup Events(SubSeq(c.pipe, n + 1, Len(c.pipe)))
  BY Zenon DEF ido2db_proxy_thread_proc
<1> DEFINE X == Events(SubSeq(c.pipe, n + 1, Len(c.pipe)))
           d == Left(c, SubSeq(c.pipe, 1, n), "ended")
<1>3. UNCHANGED <<phase, stack, buffer, file, open, due, told, faults>>
  BY DEF ido2db_proxy_thread_proc
<1>4. conns' = [conns EXCEPT ![i] = d]
  BY <1>2
<1> HIDE DEF c
<1>5. c.pipe \in Seq(Message)
  BY <1>1, ConnectionHas
<1>6. /\ d \in ConnectionType /\ d.pipe = SubSeq(c.pipe, 1, n) /\ d.got = c.got
      /\ d.section = c.section /\ d.state = "ended"
  <2>1. SubSeq(c.pipe, 1, n) \in Seq(Message)
    BY <1>5, CutIs
  <2> QED BY <1>1, <2>1, ClosedIs
<1> HIDE DEF d
<1>7. /\ ConnectionOK(d) /\ Own(d) = Own(c) \ X /\ X \subseteq Own(c)
      /\ NoGoodbye(c.pipe) => NoGoodbye(d.pipe)
  <2>1. Drops(c, d, n, X)
    BY <1>6 DEF Drops
  <2> HIDE DEF X
  <2> QED BY <1>1, <2>1, DropIs
<1>8. lost' = lost \cup X /\ d.state # "open"
  BY <1>2, <1>6
<1> HIDE DEF X
<1> QED BY <1>1, <1>3, <1>4, <1>6, <1>7, <1>8, ConnectionStep DEF c

---------------------------------------------------------------------------------
(* Every step. *)

LEMMA InitInv == Init => IInv
<1> SUFFICES ASSUME Init PROVE IInv
  OBVIOUS
<1> DEFINE f == Call(Other, FALSE, TRUE)
<1>1. /\ phase = "starting" /\ stack = << f >> /\ buffer = << >> /\ file = << >>
      /\ open = FALSE /\ due = TRUE /\ conns = << >> /\ told = 0 /\ lost = {} /\ faults = 0
  BY DEF Init
<1>2. f \in CallType /\ f.at = "enter" /\ f.buf = Other /\ f.flush_buffer /\ ~f.buffer_write
  BY MessageIs DEF Call, CallType
<1> HIDE DEF f
<1>3. FrameOK(f, 1, "starting")
  BY <1>2, MessageIs DEF FrameOK
<1>4. /\ stack \in Seq(CallType) /\ CallsOK(stack, phase) /\ Flushes(stack, buffer)
      /\ CallEvents(stack) = {}
  BY <1>1, <1>2, <1>3, OneCall, MessageIs
<1>5. TypeOK
  <2>1. << >> \in Seq(ConnectionType) /\ << >> \in Seq(Message) /\ Len(<< >>) <= Slots
    BY LinkAssumption
  <2>2. 0 \in 0 .. MaxEvents /\ 0 \in 0 .. MaxFaults
    BY LinkAssumption
  <2> QED BY <1>1, <1>4, <2>1, <2>2 DEF TypeOK
<1>6. LineInv
  BY <1>1, <1>4, NoEvents, AheadIs DEF LineInv, Line
<1>7. GreetInv /\ PhaseInv
  BY <1>1 DEF GreetInv, PhaseInv
<1>8. Rising(file) /\ Rising(buffer) /\ NoGoodbye(file) /\ NoGoodbye(buffer)
  BY <1>1, NoEvents
<1>9. \A i \in 1 .. Len(conns) : ConnectionOK(conns[i])
  BY <1>1
<1> QED BY <1>4, <1>5, <1>6, <1>7, <1>8, <1>9 DEF IInv

LEMMA StepInv == IInv /\ [Next]_vars => IInv'
<1> SUFFICES ASSUME IInv, [Next]_vars PROVE IInv'
  OBVIOUS
<1>1. CASE WriteToSink
  BY <1>1, EnterStep, ConnectStep, ConnectedStep, CheckStep, FlushStep, FlushItemStep,
     FlushedStep, FlushFailedStep, EndedStep, WriteStep, WriteFailedStep, FailedStep
     DEF WriteToSink
<1>2. CASE TellEvent \/ TellStatus \/ Started \/ Tick
  BY <1>2, TellStep, StartedStep, TickStep
<1>3. CASE idomod_deinit \/ Ended \/ Crash \/ idomod_init
  BY <1>3, DeinitStep, EndedStep, CrashStep, InitStep
<1>4. ASSUME NEW i \in DOMAIN conns, Take(i) \/ Break(i) \/ ido2db_proxy_thread_proc(i)
      PROVE  IInv'
  BY <1>4, TakeStep, BreakStep, ProxyStep
<1>5. CASE UNCHANGED vars
  <2>1. UNCHANGED <<phase, stack, buffer, file, open, due, conns, told, lost, faults>>
    BY <1>5 DEF vars
  <2>2. TypeOK' /\ LineInv'
    BY <2>1 DEF IInv, TypeOK, LineInv
  <2>3. GreetInv' /\ PhaseInv'
    BY <2>1 DEF IInv, GreetInv, GreetingOK, Newest, PhaseInv
  <2> QED BY <2>1, <2>2, <2>3 DEF IInv
<1> QED BY <1>1, <1>2, <1>3, <1>4, <1>5 DEF Next

---------------------------------------------------------------------------------
(* What holds the messages. *)

LEMMA ConcatIs ==
    ASSUME NEW s \in Seq(Message), NEW t \in Seq(Message)
    PROVE  /\ s \o t \in Seq(Message)
           /\ Events(s \o t) = Events(s) \cup Events(t)
           /\ Rising(s) /\ Rising(t) /\ Ahead(Events(s), Events(t)) => Rising(s \o t)
<1> DEFINE u == s \o t
<1>0. Len(s) \in Nat /\ Len(t) \in Nat
  OBVIOUS
<1>1. /\ u \in Seq(Message) /\ Len(u) = Len(s) + Len(t)
      /\ \A i \in 1 .. Len(s) : u[i] = s[i]
      /\ \A i \in 1 .. Len(t) : u[Len(s) + i] = t[i]
  OBVIOUS
<1> HIDE DEF u
<1>2. \A i \in 1 .. Len(u) : \/ i \in 1 .. Len(s) /\ u[i] = s[i]
                             \/ i - Len(s) \in 1 .. Len(t) /\ u[i] = t[i - Len(s)]
  <2> SUFFICES ASSUME NEW i \in 1 .. Len(u), i \notin 1 .. Len(s)
               PROVE  i - Len(s) \in 1 .. Len(t) /\ u[i] = t[i - Len(s)]
    BY <1>1
  <2>1. i - Len(s) \in 1 .. Len(t) /\ Len(s) + (i - Len(s)) = i
    BY <1>0, <1>1
  <2> QED BY <1>1, <2>1
<1>3. /\ \A i \in 1 .. Len(s) : i \in 1 .. Len(u)
      /\ \A i \in 1 .. Len(t) : Len(s) + i \in 1 .. Len(u)
  BY <1>0, <1>1
<1>4. /\ \A e : e \in Events(s) <=> IsEvent(e) /\ \E i \in 1 .. Len(s) : s[i] = e
      /\ \A e : e \in Events(t) <=> IsEvent(e) /\ \E i \in 1 .. Len(t) : t[i] = e
      /\ \A e : e \in Events(u) <=> IsEvent(e) /\ \E i \in 1 .. Len(u) : u[i] = e
  BY <1>1, EventsAre
<1>5. Events(u) = Events(s) \cup Events(t)
  <2>1. ASSUME NEW e \in Events(u) PROVE e \in Events(s) \cup Events(t)
    <3>1. PICK i \in 1 .. Len(u) : u[i] = e
      BY <1>4
    <3>2. \/ \E k \in 1 .. Len(s) : s[k] = e
          \/ \E k \in 1 .. Len(t) : t[k] = e
      BY <1>2, <3>1
    <3> QED BY <1>4, <3>2
  <2>2. ASSUME NEW e \in Events(s) PROVE e \in Events(u)
    BY <1>1, <1>3, <1>4
  <2>3. ASSUME NEW e \in Events(t) PROVE e \in Events(u)
    BY <1>1, <1>3, <1>4
  <2> QED BY <2>1, <2>2, <2>3
<1>6. ASSUME Rising(s), Rising(t), Ahead(Events(s), Events(t)) PROVE Rising(u)
  <2> SUFFICES ASSUME NEW i \in 1 .. Len(u), NEW j \in 1 .. Len(u), i < j,
                      IsEvent(u[i]), IsEvent(u[j])
               PROVE  u[i] < u[j]
    BY DEF Rising
  <2>1. CASE i \in 1 .. Len(s) /\ j \in 1 .. Len(s)
    BY <1>1, <1>6, <2>1 DEF Rising
  <2>2. CASE i \in 1 .. Len(s) /\ j \notin 1 .. Len(s)
    <3>1. u[i] = s[i] /\ j - Len(s) \in 1 .. Len(t) /\ u[j] = t[j - Len(s)]
      BY <1>2, <2>2
    <3>2. u[i] \in Events(s) /\ u[j] \in Events(t)
      BY <1>4, <2>2, <3>1
    <3> QED BY <1>6, <3>2 DEF Ahead
  <2>3. CASE i \notin 1 .. Len(s)
    <3>1. i - Len(s) \in 1 .. Len(t) /\ u[i] = t[i - Len(s)]
      BY <1>2, <2>3
    <3>2. j \notin 1 .. Len(s)
      BY <1>0, <1>1, <2>3
    <3>3. j - Len(s) \in 1 .. Len(t) /\ u[j] = t[j - Len(s)] /\ i - Len(s) < j - Len(s)
      BY <1>0, <1>1, <1>2, <3>2
    <3> QED BY <1>6, <3>1, <3>3 DEF Rising
  <2> QED BY <2>1, <2>2, <2>3
<1> QED BY <1>1, <1>5, <1>6 DEF u

LEMMA CarriersAre ==
    ASSUME IInv
    PROVE  /\ Len(conns) \in Nat /\ DOMAIN Carriers = 1 .. Len(conns) + 3
           /\ \A i \in 1 .. Len(conns) : Carriers[i] = conns[i].got \o conns[i].pipe
           /\ Carriers[Len(conns) + 1] = file
           /\ Carriers[Len(conns) + 2] = buffer
           /\ Carriers[Len(conns) + 3] = [i \in DOMAIN stack |-> stack[i].buf]
<1> DEFINE n == Len(conns)
           b == [i \in DOMAIN stack |-> stack[i].buf]
           a == [i \in DOMAIN conns |-> conns[i].got \o conns[i].pipe]
           z == << file, buffer, b >>
<1>1. conns \in Seq(ConnectionType) /\ file \in Seq(Message) /\ buffer \in Seq(Message)
  BY DEF IInv, TypeOK
<1>2. n \in Nat /\ DOMAIN conns = 1 .. n
  BY <1>1
<1>3. b \in Seq(Message)
  BY CallBufs
<1>4. \A i \in 1 .. n : conns[i].got \o conns[i].pipe \in Seq(Message)
  <2>1. \A i \in 1 .. n : conns[i] \in ConnectionType
    BY <1>1
  <2>2. \A i \in 1 .. n : conns[i].got \in Seq(Message) /\ conns[i].pipe \in Seq(Message)
    BY <2>1, ConnectionHas
  <2> QED BY <2>2
<1>5. /\ a \in Seq(Seq(Message)) /\ Len(a) = n
      /\ \A i \in 1 .. n : a[i] = conns[i].got \o conns[i].pipe
  <2>1. a \in [1 .. n -> Seq(Message)] /\ \A i \in 1 .. n : a[i] = conns[i].got \o conns[i].pipe
    BY <1>2, <1>4
  <2> HIDE DEF a
  <2> QED BY <1>2, <2>1, FcnIsSeq
<1> HIDE DEF b
<1>6. z \in Seq(Seq(Message)) /\ Len(z) = 3 /\ z[1] = file /\ z[2] = buffer /\ z[3] = b
  BY <1>1, <1>3
<1>7. Carriers = a \o z
  BY DEF Carriers, b
<1> HIDE DEF a, z, n
<1> DEFINE y == a \o z
<1>8. /\ y \in Seq(Seq(Message)) /\ Len(y) = Len(a) + Len(z)
      /\ \A i \in 1 .. Len(a) : y[i] = a[i]
      /\ \A i \in 1 .. Len(z) : y[Len(a) + i] = z[i]
  <2>1. a \in Seq(Seq(Message)) /\ z \in Seq(Seq(Message))
    BY <1>5, <1>6
  <2> QED BY <2>1, ConcatHas
<1> HIDE DEF y
<1>9. DOMAIN y = 1 .. n + 3
  BY <1>2, <1>5, <1>6, <1>8
<1>10. y[n + 1] = file /\ y[n + 2] = buffer /\ y[n + 3] = b
  BY <1>5, <1>6, <1>8
<1>11. Carriers = y
  BY <1>7 DEF y
<1> QED BY <1>2, <1>5, <1>8, <1>9, <1>10, <1>11 DEF n, b

\* The events of a carrier are in order, and before those of the carriers after it.
LEMMA CarriedInOrder ==
    ASSUME IInv
    PROVE  /\ \A i \in DOMAIN Carriers : Carriers[i] \in Seq(Message) /\ Rising(Carriers[i])
           /\ \A i, j \in DOMAIN Carriers : i < j => Ahead(Events(Carriers[i]), Events(Carriers[j]))
           /\ \A e : e \in 1 .. told \ lost <=> \E i \in DOMAIN Carriers : e \in Events(Carriers[i])
<1> DEFINE n == Len(conns)
<1>1. /\ n \in Nat /\ DOMAIN Carriers = 1 .. n + 3
      /\ \A i \in 1 .. n : Carriers[i] = conns[i].got \o conns[i].pipe
      /\ Carriers[n + 1] = file /\ Carriers[n + 2] = buffer
      /\ Carriers[n + 3] = [i \in DOMAIN stack |-> stack[i].buf]
  BY CarriersAre
<1>2. ASSUME NEW i \in 1 .. n
      PROVE  /\ Carriers[i] \in Seq(Message) /\ Rising(Carriers[i])
             /\ Events(Carriers[i]) = Own(conns[i])
  <2>1. conns[i] \in ConnectionType
    BY DEF IInv, TypeOK
  <2>2. conns[i].got \in Seq(Message) /\ conns[i].pipe \in Seq(Message)
    BY <2>1, ConnectionHas
  <2>3. ConnectionOK(conns[i])
    BY DEF IInv
  <2> QED BY <1>1, <2>2, <2>3, ConcatIs DEF ConnectionOK, Own
<1>3. /\ Carriers[n + 3] \in Seq(Message) /\ Rising(Carriers[n + 3])
      /\ Events(Carriers[n + 3]) = CallEvents(stack)
  BY <1>1, CallBufs
<1>4. /\ file \in Seq(Message) /\ Rising(file) /\ buffer \in Seq(Message) /\ Rising(buffer)
  BY DEF IInv, TypeOK
<1>5. Line(conns, Events(file), Events(buffer), CallEvents(stack), 1 .. told \ lost)
  BY DEF IInv, LineInv
<1> HIDE DEF n
<1>6. \A i \in DOMAIN Carriers : i \in 1 .. n \/ i = n + 1 \/ i = n + 2 \/ i = n + 3
  BY <1>1
<1>7. \A i \in DOMAIN Carriers : Carriers[i] \in Seq(Message) /\ Rising(Carriers[i])
  BY <1>1, <1>2, <1>3, <1>4, <1>6
<1>8. ASSUME NEW i \in DOMAIN Carriers, NEW j \in DOMAIN Carriers, i < j
      PROVE  Ahead(Events(Carriers[i]), Events(Carriers[j]))
  <2>1. CASE i \in 1 .. n /\ j \in 1 .. n
    BY <1>2, <1>5, <1>8, <2>1 DEF Line, n
  <2>2. CASE i \in 1 .. n /\ j \notin 1 .. n
    <3>1. /\ Ahead(Own(conns[i]), Events(file)) /\ Ahead(Own(conns[i]), Events(buffer))
          /\ Ahead(Own(conns[i]), CallEvents(stack))
      BY <1>5, <2>2 DEF Line, n
    <3>2. j = n + 1 \/ j = n + 2 \/ j = n + 3
      BY <1>6, <2>2
    <3> QED BY <1>1, <1>2, <1>3, <2>2, <3>1, <3>2
  <2>3. CASE i \notin 1 .. n
    <3>1. \/ i = n + 1 /\ j = n + 2
          \/ i = n + 1 /\ j = n + 3
          \/ i = n + 2 /\ j = n + 3
      BY <1>1, <1>6, <1>8, <2>3
    <3>2. /\ Ahead(Events(file), Events(buffer)) /\ Ahead(Events(file), CallEvents(stack))
          /\ Ahead(Events(buffer), CallEvents(stack))
      BY <1>5 DEF Line
    <3> QED BY <1>1, <1>3, <3>1, <3>2
  <2> QED BY <2>1, <2>2, <2>3
<1>9. \A e : e \in 1 .. told \ lost <=> \E i \in DOMAIN Carriers : e \in Events(Carriers[i])
  <2>1. ASSUME NEW e \in 1 .. told \ lost PROVE \E i \in DOMAIN Carriers : e \in Events(Carriers[i])
    <3>1. \/ \E i \in 1 .. n : e \in Own(conns[i])
          \/ e \in Events(file) \/ e \in Events(buffer) \/ e \in CallEvents(stack)
      BY <1>5 DEF Line, n
    <3>2. /\ \A i \in 1 .. n : i \in DOMAIN Carriers
          /\ n + 1 \in DOMAIN Carriers /\ n + 2 \in DOMAIN Carriers /\ n + 3 \in DOMAIN Carriers
      BY <1>1
    <3> QED BY <1>1, <1>2, <1>3, <3>1, <3>2
  <2>2. ASSUME NEW i \in DOMAIN Carriers, NEW e \in Events(Carriers[i])
        PROVE  e \in 1 .. told \ lost
    <3>1. /\ \A k \in 1 .. n : Own(conns[k]) \subseteq 1 .. told \ lost
          /\ Events(file) \subseteq 1 .. told \ lost /\ Events(buffer) \subseteq 1 .. told \ lost
          /\ CallEvents(stack) \subseteq 1 .. told \ lost
      BY <1>5 DEF Line, n
    <3>2. \/ i \in 1 .. n /\ e \in Own(conns[i])
          \/ e \in Events(file) \/ e \in Events(buffer) \/ e \in CallEvents(stack)
      BY <1>1, <1>2, <1>3, <1>6
    <3> QED BY <3>1, <3>2
  <2> QED BY <2>1, <2>2
<1> QED BY <1>7, <1>8, <1>9

LEMMA OrderInv == IInv => InOrder
<1> SUFFICES ASSUME IInv PROVE InOrder
  OBVIOUS
<1> DEFINE C == Carriers
<1>1. /\ \A i \in DOMAIN C : C[i] \in Seq(Message) /\ Rising(C[i])
      /\ \A i, j \in DOMAIN C : i < j => Ahead(Events(C[i]), Events(C[j]))
      /\ \A e : e \in 1 .. told \ lost <=> \E i \in DOMAIN C : e \in Events(C[i])
  BY CarriedInOrder
<1>2. \A p : p \in Places <=> \E i \in DOMAIN C : \E k \in DOMAIN C[i] :
                                p = <<i, k>> /\ IsEvent(C[i][k])
  BY DEF Places, At
<1>3. \A i, k : At(<<i, k>>) = C[i][k]
  BY DEF At
<1>4. \A i \in DOMAIN C : DOMAIN C[i] = 1 .. Len(C[i])
  BY <1>1
<1>5. \A i \in DOMAIN C : \A e : e \in Events(C[i]) <=>
                                   IsEvent(e) /\ \E k \in 1 .. Len(C[i]) : C[i][k] = e
  BY <1>1, EventsAre
<1> HIDE DEF C
<1>6. {At(p) : p \in Places} = 1 .. told \ lost
  <2>1. ASSUME NEW p \in Places PROVE At(p) \in 1 .. told \ lost
    <3>0. PICK i \in DOMAIN C : \E k \in DOMAIN C[i] : p = <<i, k>> /\ IsEvent(C[i][k])
      BY <1>2
    <3>1. PICK k \in DOMAIN C[i] : p = <<i, k>> /\ IsEvent(C[i][k])
      BY <3>0
    <3>2. At(p) \in Events(C[i])
      BY <1>3, <1>4, <1>5, <3>1
    <3> QED BY <1>1, <3>2
  <2>2. ASSUME NEW e \in 1 .. told \ lost PROVE \E p \in Places : At(p) = e
    <3>1. PICK i \in DOMAIN C : e \in Events(C[i])
      BY <1>1
    <3>2. PICK k \in DOMAIN C[i] : C[i][k] = e /\ IsEvent(e)
      BY <1>4, <1>5, <3>1
    <3>3. <<i, k>> \in Places /\ At(<<i, k>>) = e
      BY <1>2, <1>3, <3>2
    <3> QED BY <3>3
  <2> QED BY <2>1, <2>2
<1>7. ASSUME NEW p \in Places, NEW q \in Places, Before(p, q) PROVE At(p) < At(q)
  <2>0. PICK i \in DOMAIN C : \E k \in DOMAIN C[i] : p = <<i, k>> /\ IsEvent(C[i][k])
    BY <1>2
  <2>1. PICK k \in DOMAIN C[i] : p = <<i, k>> /\ IsEvent(C[i][k])
    BY <2>0
  <2>6. PICK j \in DOMAIN C : \E l \in DOMAIN C[j] : q = <<j, l>> /\ IsEvent(C[j][l])
    BY <1>2
  <2>2. PICK l \in DOMAIN C[j] : q = <<j, l>> /\ IsEvent(C[j][l])
    BY <2>6
  <2>3. At(p) = C[i][k] /\ At(q) = C[j][l] /\ (i < j \/ (i = j /\ k < l))
    BY <1>3, <1>7, <2>1, <2>2 DEF Before
  <2>4. CASE i < j
    <3>1. C[i][k] \in Events(C[i]) /\ C[j][l] \in Events(C[j])
      BY <1>4, <1>5, <2>1, <2>2
    <3> QED BY <1>1, <2>3, <2>4, <3>1 DEF Ahead
  <2>5. CASE i = j /\ k < l
    <3>1. k \in 1 .. Len(C[i]) /\ l \in 1 .. Len(C[i])
      BY <1>4, <2>1, <2>2, <2>5
    <3> QED BY <1>1, <2>1, <2>2, <2>3, <2>5, <3>1 DEF Rising
  <2> QED BY <2>3, <2>4, <2>5
<1> QED BY <1>6, <1>7 DEF InOrder, IInv

\* The events that idomod was told and nobody dropped are each in one place - read by a child,
\* on the way in a connection, in the file, in the buffer or in a call - and there in the order
\* they were told in, in every state of the link (idomod_write_to_sink, ido2db's children and
\* proxies, and the restarts of the core).
THEOREM AlwaysInOrder == Spec => []InOrder
<1>1. Init => IInv
  BY InitInv
<1>2. IInv /\ [Next]_vars => IInv'
  BY StepInv
<1>3. IInv => InOrder
  BY OrderInv
<1> QED BY <1>1, <1>2, <1>3, PTL DEF Spec
=================================================================================
