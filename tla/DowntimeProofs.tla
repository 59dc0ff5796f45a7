----------------------------- MODULE DowntimeProofs -------------------------------
(***************************************************************************)
(* Triggered downtimes stay within those that trigger them, and the        *)
(* counters of hosts and services are what the list says, for every set of *)
(* downtimes, clock and number of restarts.                                *)
(***************************************************************************)
EXTENDS Downtime, SequenceTheorems, FiniteSetTheorems, WellFoundedInduction, TLAPS

Procs == {"handle", "start", "stop", "flex"}
Running == {"start", "stop"}
FrameRec == [proc : Procs, id : {0} \cup Ids, todo : Seq(Ids), at : {0} \cup Ids, time : Nat]
EventRec == [kind : {"DOWNTIME", "EXPIRE"}, id : {0} \cup Ids, at : Nat]
\* The downtimes of the calls that end one.
EndingIn(s) == {s[i].id : i \in {j \in DOMAIN s : s[j].proc = "stop"}}

EntryRec == [in_effect : BOOLEAN, trigger_time : Time, start_flex : BOOLEAN,
             incremented : BOOLEAN]

Start(id) == Downtimes[id].start
End(id) == Downtimes[id].end
Duration(id) == Downtimes[id].duration

Types ==
    /\ state \in [Objects -> {"OK", "SOFT", "HARD"}]
    /\ depth \in [Objects -> Int]
    /\ pending \in [Objects -> Int]
    /\ list \in Seq(Ids)
    /\ entry \in [Ids -> EntryRec]
    /\ events \subseteq EventRec
    /\ stack \in Seq(FrameRec)
    /\ now \in Time /\ asked \subseteq Ids /\ restarts \in 0..MaxRestarts

\* The list is in order of time, and what is not in it is blank.
Ordered(seq) ==
    /\ IsInjective(seq)
    /\ \A i, j \in DOMAIN seq : i < j => Start(seq[i]) <= Start(seq[j])

ListInv ==
    /\ Ordered(list)
    /\ Listed \subseteq asked
    /\ \A id \in Ids \ Listed : entry[id] = Blank

\* A downtime that is triggered has an event only for its end.
EventInv ==
    \A e \in events : e.kind = "DOWNTIME" =>
        /\ e.id \in asked
        /\ Parent(e.id) = 0 \/ (e.id \in Listed => InEffect(e.id))

\* The call f was made by the call g: for a downtime that g's triggers, or for a
\* flexible one.
Outer(f, g) ==
    /\ f.proc # "flex"
    /\ \/ g.proc \in Running /\ Parent(f.id) = g.id
       \/ g.proc = "flex" /\ Parent(f.id) = 0

\* Calls go from a downtime to one with a higher id.
Chain(s) ==
    /\ \A i \in 1..Len(s) - 1 : Outer(s[i], s[i + 1])
    /\ \A i, j \in 1..Len(s) : i < j /\ s[j].proc # "flex" => s[j].id < s[i].id

\* The downtimes of the calls are in the list, L, and those that are beyond the start
\* of a call are in effect, E.  The outermost call is of a downtime that nothing
\* triggers, unless it is in effect.
Frames(s, L, E) ==
    /\ Chain(s)
    /\ \A i \in 1..Len(s) : s[i].proc # "flex" =>
          s[i].id \in L /\ (s[i].proc \in Running => s[i].id \in E)
    /\ Len(s) = 1 => (s[1].proc # "flex" => Parent(s[1].id) = 0 \/ s[1].id \in E)

Effective == {id \in Ids : InEffect(id)}

StackInv == Frames(stack, Listed, Effective)

\* The downtimes of an object that are counted as waiting, those that are in effect,
\* and those that are gone or going: each of the last was counted down at most once.
WaitingOf(o) == {id \in Listed : Object(id) = o /\ entry[id].incremented} \ Ending
EffectiveOf(o) == {id \in Listed : Object(id) = o /\ InEffect(id)} \ Ending
GoneOf(o) == {id \in asked : Object(id) = o} \ (Listed \ Ending)

PendingInv ==
    \A o \in Objects : pending[o] <= MaxCount /\ pending[o] >= Cardinality(WaitingOf(o))
DepthInv ==
    \A o \in Objects : depth[o] <= MaxCount /\ depth[o] + Cardinality(GoneOf(o)) >= 0

TimeInv == \A id \in Ids : entry[id].trigger_time <= now

IInv ==
    /\ Types /\ ListInv /\ EventInv /\ StackInv /\ TriggeredWithin
    /\ PendingInv /\ DepthInv /\ TimeInv

---------------------------------------------------------------------------------
(* Sequences *)

\* A list that has the downtimes of a set, each once.
LEMMA ListOf ==
    ASSUME NEW S \in SUBSET Ids, NEW q \in SetToSeqs(S)
    PROVE  q \in Seq(Ids) /\ IsInjective(q) /\ Range(q) = S
<1> DEFINE n == Cardinality(S)
<1>1. IsFiniteSet(S)
  BY BoundAssumption, FS_Subset
<1>2. n \in Nat
  BY <1>1, FS_CardinalityType
<1>4. q \in [1..n -> S] /\ \A i, j \in 1..n : i # j => q[i] # q[j]
  BY DEF SetToSeqs
<1>5. IsFiniteSet(1..n) /\ Cardinality(1..n) = n
  <2>1. 1 \in Int /\ n \in Int
    BY <1>2
  <2>2. IsFiniteSet(1..n) /\ Cardinality(1..n) = IF 1 > n THEN 0 ELSE n - 1 + 1
    BY ONLY <2>1, FS_Interval
  <2> HIDE DEF n
  <2> QED BY <1>2, <2>2
<1>6. q \in Surjection(1..n, S)
  <2>1. q \in Injection(1..n, S)
    BY <1>4 DEF Injection, IsInjective
  <2> QED BY ONLY <1>1, <1>5, <2>1, FS_Injection
<1> HIDE DEF n
<1>7. Range(q) = S
  BY <1>6 DEF Surjection, Range
<1>8. q \in Seq(Ids)
  BY <1>2, <1>4, IsASeq
<1>9. IsInjective(q)
  BY <1>4 DEF IsInjective
<1> QED BY <1>7, <1>8, <1>9

\* What a set of places has in the first place.
LEMMA FirstOf ==
    ASSUME NEW n \in Nat, NEW S \in SUBSET (1..n), S # {}
    PROVE  \E i \in S : \A j \in 1..i - 1 : j \notin S
<1> DEFINE R == OpToRel(<, Nat)
<1>1. IsWellFoundedOn(R, Nat)
  BY NatLessThanWellFounded, Zenon
<1>2. \A x, y \in Nat : <<y, x>> \in R <=> y < x
  BY Zenon DEF OpToRel
<1> HIDE DEF R
<1>3. S \subseteq Nat
  OBVIOUS
<1>4. PICK x \in S : \A y \in S : ~(<<y, x>> \in R)
  BY <1>1, <1>3, WFMin
<1>5. \A y \in S : ~(y < x)
  BY <1>2, <1>3, <1>4
<1>6. \A j \in 1..x - 1 : j \notin S
  BY <1>5
<1> QED BY <1>4, <1>6

\* The places of a sequence.
LEMMA Places ==
    ASSUME NEW S, NEW s \in Seq(S)
    PROVE  /\ Len(s) \in Nat /\ DOMAIN s = 1..Len(s)
           /\ \A i \in 1..Len(s) : s[i] \in S
           /\ s # <<>> => Len(s) >= 1 /\ Head(s) = s[1]
           /\ s = <<>> <=> Len(s) = 0
<1>1. Len(s) \in Nat /\ DOMAIN s = 1..Len(s) /\ \A i \in 1..Len(s) : s[i] \in S
  BY LenProperties, ElementOfSeq
<1>2. s # <<>> => Len(s) \in Nat \ {0}
  BY EmptySeq
<1>3. Len(<<>>) = 0
  BY EmptySeq
<1>4. s # <<>> => Head(s) = s[1]
  OBVIOUS
<1> QED BY <1>1, <1>2, <1>3, <1>4

\* A sequence of two or more has a first and a second.
LEMMA TwoOrMore ==
    ASSUME NEW n \in Nat, n >= 1, n # 1
    PROVE  1 \in 1..n - 1 /\ 1 + 1 \in 1..n
OBVIOUS

\* A call returns.
LEMMA Popped ==
    ASSUME NEW S, NEW s \in Seq(S), s # <<>>
    PROVE  /\ Tail(s) \in Seq(S) /\ Len(Tail(s)) = Len(s) - 1
           /\ \A i \in 1..Len(s) - 1 : Tail(s)[i] = s[i + 1]
<1>1. Tail(s) \in Seq(S) /\ Len(Tail(s)) = Len(s) - 1
      /\ \A i \in 1..Len(Tail(s)) : Tail(s)[i] = s[i + 1]
  BY HeadTailProperties
<1> QED BY <1>1

\* A call is made.
LEMMA Pushed ==
    ASSUME NEW S, NEW s \in Seq(S), NEW f \in S
    PROVE  /\ <<f>> \o s \in Seq(S) /\ Len(<<f>> \o s) = Len(s) + 1
           /\ (<<f>> \o s)[1] = f
           /\ \A i \in 1..Len(s) : (<<f>> \o s)[i + 1] = s[i]
<1>1. <<f>> \in Seq(S) /\ Len(<<f>>) = 1 /\ <<f>>[1] = f
  OBVIOUS
<1>2. <<f>> \o s \in Seq(S) /\ Len(<<f>> \o s) = 1 + Len(s)
  BY <1>1, ConcatProperties
<1>3. Len(s) \in Nat
  BY LenProperties
<1> QED BY <1>1, <1>2, <1>3

---------------------------------------------------------------------------------

(* The stack *)

\* The records of the stack.
LEMMA FrameTypes ==
    ASSUME NEW id \in Ids
    PROVE  Call(id) \in FrameRec /\ Call(id).proc = "handle" /\ Call(id).id = id
<1>1. <<>> \in Seq(Ids)
  BY EmptySeq
<1> QED BY <1>1 DEF Call, Frame, FrameRec, Procs

LEMMA RunningTypes ==
    ASSUME NEW id \in Ids, NEW proc \in Running, NEW todo \in Seq(Ids), NEW at \in {0} \cup Ids
    PROVE  /\ Frame(proc, id, todo, at, 0) \in FrameRec
           /\ Frame(proc, id, todo, at, 0).proc = proc
           /\ Frame(proc, id, todo, at, 0).id = id
           /\ Frame(proc, id, todo, at, 0).todo = todo
BY DEF Frame, FrameRec, Running, Procs

\* Ids are positive, and so is that of what triggers, if anything does.
LEMMA ParentBefore ==
    ASSUME NEW id \in Ids
    PROVE  id \in Nat \ {0} /\ Parent(id) \in {0} \cup Ids /\ Parent(id) < id
BY DowntimeAssumption DEF Parent

LEMMA ChainPop ==
    ASSUME NEW s \in Seq(FrameRec), s # <<>>, Chain(s)
    PROVE  Chain(Tail(s))
<1> DEFINE t == Tail(s)
<1>1. Len(t) = Len(s) - 1 /\ \A i \in 1..Len(s) - 1 : t[i] = s[i + 1]
  BY Popped
<1>2. Len(s) \in Nat
  BY Places
<1> HIDE DEF t
<1>3. \A i \in 1..Len(t) - 1 : Outer(t[i], t[i + 1])
  <2> SUFFICES ASSUME NEW i \in 1..Len(t) - 1 PROVE Outer(t[i], t[i + 1])
    OBVIOUS
  <2>1. t[i] = s[i + 1] /\ t[i + 1] = s[i + 1 + 1] /\ i + 1 \in 1..Len(s) - 1
    BY <1>1, <1>2
  <2> QED BY <2>1 DEF Chain
<1>4. \A i, j \in 1..Len(t) : i < j /\ t[j].proc # "flex" => t[j].id < t[i].id
  <2> SUFFICES ASSUME NEW i \in 1..Len(t), NEW j \in 1..Len(t), i < j, t[j].proc # "flex"
               PROVE  t[j].id < t[i].id
    OBVIOUS
  <2>1. /\ t[i] = s[i + 1] /\ t[j] = s[j + 1] /\ i + 1 < j + 1
        /\ i + 1 \in 1..Len(s) /\ j + 1 \in 1..Len(s)
    BY <1>1, <1>2
  <2> QED BY <2>1 DEF Chain
<1> QED BY <1>3, <1>4 DEF Chain, t

\* The call of another downtime.
LEMMA ChainPush ==
    ASSUME NEW s \in Seq(FrameRec), NEW f \in FrameRec, f.id \in Ids,
           Chain(s), s # <<>> => Outer(f, s[1])
    PROVE  Chain(<<f>> \o s)
<1> DEFINE t == <<f>> \o s
<1>1. Len(t) = Len(s) + 1 /\ t[1] = f /\ \A i \in 1..Len(s) : t[i + 1] = s[i]
  BY Pushed
<1>2. Len(s) \in Nat /\ (s = <<>> <=> Len(s) = 0)
  BY Places
<1>0. \A i \in 1..Len(s) : s[i] \in FrameRec
  BY Places
<1> HIDE DEF t
<1>3. \A i \in 1..Len(t) - 1 : Outer(t[i], t[i + 1])
  <2> SUFFICES ASSUME NEW i \in 1..Len(t) - 1 PROVE Outer(t[i], t[i + 1])
    OBVIOUS
  <2>1. CASE i = 1
    <3>1. t[1 + 1] = s[1] /\ s # <<>>
      BY <1>1, <1>2, <2>1
    <3> QED BY <1>1, <2>1, <3>1
  <2>2. CASE i # 1
    <3>1. /\ i - 1 \in 1..Len(s) - 1 /\ i - 1 \in 1..Len(s) /\ i \in 1..Len(s)
          /\ i - 1 + 1 = i
      BY <1>1, <1>2, <2>2
    <3>2. t[i] = s[i - 1] /\ t[i + 1] = s[i - 1 + 1]
      BY <1>1, <3>1
    <3> QED BY <3>1, <3>2 DEF Chain
  <2> QED BY <2>1, <2>2
<1>4. \A i, j \in 1..Len(t) : i < j /\ t[j].proc # "flex" => t[j].id < t[i].id
  <2> SUFFICES ASSUME NEW i \in 1..Len(t), NEW j \in 1..Len(t), i < j, t[j].proc # "flex"
               PROVE  t[j].id < t[i].id
    OBVIOUS
  <2>1. j - 1 \in 1..Len(s) /\ j - 1 + 1 = j
    BY <1>1, <1>2
  <2>2. t[j] = s[j - 1]
    BY <1>1, <2>1
  <2>3. CASE i # 1
    <3>1. i - 1 \in 1..Len(s) /\ i - 1 + 1 = i /\ i - 1 < j - 1
      BY <1>1, <1>2, <2>3
    <3>2. t[i] = s[i - 1]
      BY <1>1, <3>1
    <3> QED BY <2>1, <2>2, <3>1, <3>2 DEF Chain
  <2>4. CASE i = 1
    <3>1. s # <<>> /\ Outer(f, s[1]) /\ 1 \in 1..Len(s)
      BY <1>2, <2>1
    <3>2. s[1].proc # "flex"
      <4>1. CASE j = 2
        BY <2>2, <4>1
      <4>2. CASE j # 2
        <5>1. 1 \in 1..Len(s) - 1
          BY <1>2, <2>1, <2>4, <4>2
        <5>2. Outer(s[1], s[1 + 1])
          BY <5>1 DEF Chain
        <5> QED BY <5>2 DEF Outer
      <4> QED BY <4>1, <4>2
    <3>3. Parent(f.id) = s[1].id
      BY <3>1, <3>2 DEF Outer
    <3>4. s[1].id < f.id
      BY <3>3, ParentBefore
    <3>5. CASE j = 2
      BY <1>1, <2>2, <2>4, <3>4, <3>5
    <3>6. CASE j # 2
      <4>1. 1 < j - 1
        BY <2>1, <2>4, <3>6
      <4>2. s[j - 1].id < s[1].id
        BY <2>1, <2>2, <3>1, <4>1 DEF Chain
      <4>3. s[j - 1].id \in Int /\ s[1].id \in Int /\ f.id \in Int
        <5>1. \A d \in {0} \cup Ids : d \in Int
          BY ParentBefore
        <5> QED BY <1>0, <2>1, <3>1, <5>1 DEF FrameRec
      <4> QED BY <1>1, <2>2, <2>4, <3>4, <4>2, <4>3
    <3> QED BY <3>5, <3>6
  <2> QED BY <2>3, <2>4
<1> QED BY <1>3, <1>4 DEF Chain, t

\* A call goes on with the same downtime.
LEMMA ChainTop ==
    ASSUME NEW s \in Seq(FrameRec), s # <<>>, Chain(s), NEW f \in FrameRec,
           f.id = s[1].id, f.id \in Ids, f.proc # "flex", s[1].proc # "flex"
    PROVE  Chain(<<f>> \o Tail(s))
<1>1. Tail(s) \in Seq(FrameRec) /\ Chain(Tail(s))
  BY Popped, ChainPop
<1>2. Tail(s) # <<>> => Outer(f, Tail(s)[1])
  <2>1. SUFFICES ASSUME Tail(s) # <<>> PROVE Outer(f, Tail(s)[1])
    OBVIOUS
  <2>2. Len(Tail(s)) # 0 /\ Len(s) \in Nat /\ Len(Tail(s)) \in Nat
    BY <1>1, <2>1, Places
  <2>3. Len(Tail(s)) = Len(s) - 1 /\ \A i \in 1..Len(s) - 1 : Tail(s)[i] = s[i + 1]
    BY Popped
  <2>4. 1 \in 1..Len(s) - 1
    BY <2>2, <2>3
  <2>5. Tail(s)[1] = s[1 + 1] /\ Outer(s[1], s[1 + 1])
    BY <2>3, <2>4 DEF Chain
  <2> QED BY <2>5 DEF Outer
<1> QED BY <1>1, <1>2, ChainPush

\* The call that looks for flexible downtimes is the outermost one.
LEMMA FlexAlone ==
    ASSUME NEW s \in Seq(FrameRec), s # <<>>, Chain(s), s[1].proc = "flex"
    PROVE  Len(s) = 1 /\ Tail(s) = <<>>
<1>1. Len(s) \in Nat /\ Len(s) >= 1
  BY Places
<1>2. ASSUME Len(s) # 1 PROVE FALSE
  <2>1. 1 \in 1..Len(s) - 1
    BY <1>1, <1>2, TwoOrMore
  <2> QED BY <2>1 DEF Chain, Outer
<1>3. Tail(s) \in Seq(FrameRec) /\ Len(Tail(s)) = 0
  BY <1>2, Popped
<1> QED BY <1>2, <1>3, Places

---------------------------------------------------------------------------------

\* A call returns.
LEMMA FramesPop ==
    ASSUME NEW s \in Seq(FrameRec), s # <<>>, NEW L, NEW E, Frames(s, L, E)
    PROVE  Frames(Tail(s), L, E)
<1> DEFINE t == Tail(s)
<1>1. Len(t) = Len(s) - 1 /\ (\A i \in 1..Len(s) - 1 : t[i] = s[i + 1]) /\ Len(s) \in Nat
  BY Popped, Places
<1>2. Chain(t)
  BY ChainPop DEF Frames
<1> HIDE DEF t
<1>3. ASSUME NEW i \in 1..Len(t), t[i].proc # "flex"
      PROVE  t[i].id \in L /\ (t[i].proc \in Running => t[i].id \in E)
  <2>1. t[i] = s[i + 1] /\ i + 1 \in 1..Len(s)
    BY <1>1
  <2> QED BY <1>3, <2>1 DEF Frames
<1>4. ASSUME Len(t) = 1, t[1].proc # "flex" PROVE t[1].id \in E
  <2>1. 1 \in 1..Len(s) - 1 /\ 1 \in 1..Len(t)
    BY <1>1, <1>4
  <2>2. Outer(s[1], s[1 + 1])
    BY <2>1 DEF Frames, Chain
  <2>3. t[1] = s[1 + 1]
    BY <1>1, <2>1
  <2> QED BY <1>3, <1>4, <2>1, <2>2, <2>3 DEF Outer
<1> QED BY <1>2, <1>3, <1>4 DEF Frames, t

\* Only downtimes of no call leave the list or are not in effect any more.
LEMMA FramesKept ==
    ASSUME NEW s \in Seq(FrameRec), NEW L, NEW E, Frames(s, L, E), NEW M, NEW F,
           \A i \in 1..Len(s) : s[i].proc # "flex" =>
              (s[i].id \in L => s[i].id \in M) /\ (s[i].id \in E => s[i].id \in F)
    PROVE  Frames(s, M, F)
<1>1. Len(s) = 1 => 1 \in 1..Len(s)
  OBVIOUS
<1> QED BY <1>1 DEF Frames

\* The call of a downtime that another triggers, or of a flexible one.
LEMMA FramesPush ==
    ASSUME NEW s \in Seq(FrameRec), s # <<>>, NEW L, NEW E, Frames(s, L, E),
           NEW f \in FrameRec, f.proc = "handle", f.id \in L, f.id \in Ids, Outer(f, s[1])
    PROVE  Frames(<<f>> \o s, L, E)
<1> DEFINE t == <<f>> \o s
<1>1. Len(t) = Len(s) + 1 /\ t[1] = f /\ (\A i \in 1..Len(s) : t[i + 1] = s[i])
      /\ Len(s) \in Nat /\ Len(s) >= 1
  BY Pushed, Places
<1>2. Chain(t)
  BY ChainPush DEF Frames
<1> HIDE DEF t
<1>3. ASSUME NEW i \in 1..Len(t), t[i].proc # "flex"
      PROVE  t[i].id \in L /\ (t[i].proc \in Running => t[i].id \in E)
  <2>1. CASE i = 1
    BY <1>1, <2>1 DEF Running
  <2>2. CASE i # 1
    <3>1. i - 1 \in 1..Len(s) /\ i - 1 + 1 = i
      BY <1>1, <2>2
    <3>2. t[i] = s[i - 1]
      BY <1>1, <3>1
    <3> QED BY <1>3, <3>1, <3>2 DEF Frames
  <2> QED BY <2>1, <2>2
<1>4. Len(t) # 1
  BY <1>1
<1> QED BY <1>2, <1>3, <1>4 DEF Frames, t

\* A call goes on with the same downtime, which is in effect by now.
LEMMA FramesTop ==
    ASSUME NEW s \in Seq(FrameRec), s # <<>>, NEW L, NEW E, Frames(s, L, E),
           NEW f \in FrameRec, f.proc \in Running, f.id = s[1].id, f.id \in Ids,
           s[1].proc # "flex", NEW F, f.id \in F, E \subseteq F
    PROVE  Frames(<<f>> \o Tail(s), L, F)
<1> DEFINE t == <<f>> \o Tail(s)
<1>1. Tail(s) \in Seq(FrameRec) /\ Frames(Tail(s), L, E)
  BY Popped, FramesPop
<1>2. Len(t) = Len(Tail(s)) + 1 /\ t[1] = f /\ (\A i \in 1..Len(Tail(s)) : t[i + 1] = Tail(s)[i])
      /\ Len(Tail(s)) \in Nat
  BY <1>1, Pushed, Places
<1>3. Chain(t)
  BY ChainTop DEF Frames, Running
<1>0. 1 \in 1..Len(s)
  BY Places
<1> HIDE DEF t
<1>4. ASSUME NEW i \in 1..Len(t), t[i].proc # "flex"
      PROVE  t[i].id \in L /\ (t[i].proc \in Running => t[i].id \in F)
  <2>1. CASE i = 1
    BY <1>0, <1>2, <2>1 DEF Frames
  <2>2. CASE i # 1
    <3>1. i - 1 \in 1..Len(Tail(s)) /\ i - 1 + 1 = i
      BY <1>2, <2>2
    <3>2. t[i] = Tail(s)[i - 1]
      BY <1>2, <3>1
    <3> QED BY <1>1, <1>4, <3>1, <3>2 DEF Frames
  <2> QED BY <2>1, <2>2
<1> QED BY <1>2, <1>3, <1>4 DEF Frames, t

\* The calls that end a downtime, when one is made, returns or goes on.
LEMMA EndingPush ==
    ASSUME NEW s \in Seq(FrameRec), NEW f \in FrameRec
    PROVE  /\ f.proc = "stop" => EndingIn(<<f>> \o s) = EndingIn(s) \cup {f.id}
           /\ f.proc # "stop" => EndingIn(<<f>> \o s) = EndingIn(s)
<1> DEFINE t == <<f>> \o s
<1>1. Len(t) = Len(s) + 1 /\ t[1] = f /\ (\A i \in 1..Len(s) : t[i + 1] = s[i])
      /\ Len(s) \in Nat /\ DOMAIN s = 1..Len(s) /\ DOMAIN t = 1..Len(t)
  <2>1. t \in Seq(FrameRec)
    BY Pushed
  <2> HIDE DEF t
  <2>2. DOMAIN t = 1..Len(t)
    BY <2>1, Places
  <2> QED BY <2>2, Pushed, Places DEF t
<1> HIDE DEF t
<1>2. ASSUME NEW d \in EndingIn(s) PROVE d \in EndingIn(t)
  <2>1. PICK i \in 1..Len(s) : s[i].proc = "stop" /\ d = s[i].id
    BY <1>1 DEF EndingIn
  <2>2. i + 1 \in 1..Len(t) /\ t[i + 1] = s[i]
    BY <1>1
  <2> QED BY <1>1, <2>1, <2>2 DEF EndingIn
<1>3. ASSUME NEW d \in EndingIn(t) PROVE d \in EndingIn(s) \/ (f.proc = "stop" /\ d = f.id)
  <2>1. PICK i \in 1..Len(t) : t[i].proc = "stop" /\ d = t[i].id
    BY <1>1 DEF EndingIn
  <2>2. CASE i = 1
    BY <1>1, <2>1, <2>2
  <2>3. CASE i # 1
    <3>1. i - 1 \in 1..Len(s) /\ i - 1 + 1 = i
      BY <1>1, <2>3
    <3>2. t[i] = s[i - 1]
      BY <1>1, <3>1
    <3> QED BY <1>1, <2>1, <3>1, <3>2 DEF EndingIn
  <2> QED BY <2>2, <2>3
<1>4. f.proc = "stop" => f.id \in EndingIn(t)
  <2>1. 1 \in 1..Len(t)
    BY <1>1
  <2> QED BY <1>1, <2>1 DEF EndingIn
<1> QED BY <1>2, <1>3, <1>4 DEF t

LEMMA EndingPop ==
    ASSUME NEW s \in Seq(FrameRec), s # <<>>, Chain(s)
    PROVE  /\ s[1].proc = "stop" => EndingIn(Tail(s)) = EndingIn(s) \ {s[1].id}
           /\ s[1].proc # "stop" => EndingIn(Tail(s)) = EndingIn(s)
           /\ s[1].proc \notin {"stop", "flex"} => s[1].id \notin EndingIn(s)
<1> DEFINE t == Tail(s)
<1>1. Len(t) = Len(s) - 1 /\ (\A i \in 1..Len(s) - 1 : t[i] = s[i + 1])
      /\ Len(s) \in Nat /\ Len(s) >= 1 /\ DOMAIN s = 1..Len(s) /\ DOMAIN t = 1..Len(t)
  <2>1. t \in Seq(FrameRec)
    BY Popped
  <2> HIDE DEF t
  <2>2. DOMAIN t = 1..Len(t)
    BY <2>1, Places
  <2> QED BY <2>2, Popped, Places DEF t
<1>0. \A i \in 1..Len(s) : s[i].id \in Int
  <2>1. \A d \in {0} \cup Ids : d \in Int
    BY ParentBefore
  <2>2. \A i \in 1..Len(s) : s[i] \in FrameRec
    BY Places
  <2>3. \A f \in FrameRec : f.id \in {0} \cup Ids
    BY DEF FrameRec
  <2> QED BY <2>1, <2>2, <2>3
<1> HIDE DEF t
<1>2. ASSUME NEW i \in 1..Len(s), s[i].proc = "stop", i # 1 PROVE s[i].id # s[1].id
  <2>1. 1 \in 1..Len(s) /\ 1 < i
    BY <1>1, <1>2
  <2>2. s[i].id < s[1].id
    BY <1>2, <2>1 DEF Chain
  <2> QED BY <1>0, <2>1, <2>2
<1>3. ASSUME NEW d \in EndingIn(t)
      PROVE  d \in EndingIn(s) /\ d # s[1].id
  <2>1. PICK i \in 1..Len(t) : t[i].proc = "stop" /\ d = t[i].id
    BY <1>1 DEF EndingIn
  <2>2. i + 1 \in 1..Len(s) /\ t[i] = s[i + 1] /\ i + 1 # 1
    BY <1>1
  <2> QED BY <1>1, <1>2, <2>1, <2>2 DEF EndingIn
<1>4. ASSUME NEW d \in EndingIn(s)
      PROVE  d \in EndingIn(t) \/ (s[1].proc = "stop" /\ d = s[1].id)
  <2>1. PICK i \in 1..Len(s) : s[i].proc = "stop" /\ d = s[i].id
    BY <1>1 DEF EndingIn
  <2>2. CASE i = 1
    BY <2>1, <2>2
  <2>3. CASE i # 1
    <3>1. i - 1 \in 1..Len(s) - 1 /\ i - 1 + 1 = i
      BY <1>1, <2>3
    <3>2. t[i - 1] = s[i]
      BY <1>1, <3>1
    <3> QED BY <1>1, <2>1, <3>1, <3>2 DEF EndingIn
  <2> QED BY <2>2, <2>3
<1>5. ASSUME s[1].proc \notin {"stop", "flex"}, s[1].id \in EndingIn(s) PROVE FALSE
  BY <1>3, <1>4, <1>5
<1> QED BY <1>3, <1>4, <1>5 DEF t

---------------------------------------------------------------------------------

(* The list *)

LEMMA PrecedesInOrder ==
    ASSUME Ordered(list), NEW a, NEW b, Precedes(a, b)
    PROVE  Start(a) <= Start(b)
BY DEF Ordered, Precedes

\* delete_downtime() takes downtimes off the list and leaves the order of the others.
LEMMA Deleted ==
    ASSUME Types, Ordered(list), NEW gone, Arranged(list', Listed \ gone, Precedes)
    PROVE  list' \in Seq(Ids) /\ Listed' = Listed \ gone /\ Ordered(list')
<1>1. Listed \in SUBSET Ids
  BY RangeOfSeq DEF Types, Listed
<1>2. Listed \ gone \in SUBSET Ids
  BY <1>1
<1>3. list' \in SetToSeqs(Listed \ gone)
  BY DEF Arranged
<1>4. list' \in Seq(Ids) /\ IsInjective(list') /\ Range(list') = Listed \ gone
  BY <1>2, <1>3, ListOf
<1>5. \A i, j \in DOMAIN list' : i < j => Precedes(list'[i], list'[j])
  BY DEF Arranged
<1>6. \A i, j \in DOMAIN list' : i < j => Start(list'[i]) <= Start(list'[j])
  BY <1>5, PrecedesInOrder
<1> QED BY <1>4, <1>6 DEF Listed, Ordered

\* add_downtime() puts one in.
LEMMA Added ==
    ASSUME Types, Ordered(list), NEW id \in Ids, SortedIn(id)
    PROVE  list' \in Seq(Ids) /\ Listed' = Listed \cup {id} /\ Ordered(list')
<1>1. Listed \in SUBSET Ids
  BY RangeOfSeq DEF Types, Listed
<1>2. Listed \cup {id} \in SUBSET Ids
  BY <1>1
<1>3. /\ list' \in SetToSeqs(Listed \cup {id})
      /\ \A i, j \in DOMAIN list' : i < j =>
            CASE list'[j] = id -> Downtimes[list'[i]].start <= Downtimes[id].start
              [] list'[i] = id -> Downtimes[id].start < Downtimes[list'[j]].start
              [] OTHER -> Precedes(list'[i], list'[j])
  BY Zenon DEF SortedIn, Arranged
<1>4. list' \in Seq(Ids) /\ IsInjective(list') /\ Range(list') = Listed \cup {id}
  BY <1>2, <1>3, ListOf
<1>5. ASSUME NEW i \in DOMAIN list', NEW j \in DOMAIN list', i < j
      PROVE  Start(list'[i]) <= Start(list'[j])
  <2>0. Len(list') \in Nat /\ DOMAIN list' = 1..Len(list')
    BY <1>4, Places
  <2>1. list'[i] \in Ids /\ list'[j] \in Ids
    BY <1>4, <2>0, Places
  <2>2. list'[i] # list'[j]
    BY <1>4, <1>5, <2>0 DEF IsInjective
  <2>3. CASE list'[j] = id
    BY <1>3, <1>5, <2>2, <2>3 DEF Start
  <2>4. CASE list'[j] # id /\ list'[i] = id
    <3>1. Downtimes[id].start < Downtimes[list'[j]].start
      BY <1>3, <1>5, <2>4
    <3>2. Start(id) \in Nat /\ Start(list'[j]) \in Nat
      BY <2>1, DowntimeAssumption DEF Start
    <3> QED BY <2>4, <3>1, <3>2 DEF Start
  <2>5. CASE list'[j] # id /\ list'[i] # id
    <3>1. Precedes(list'[i], list'[j])
      BY <1>3, <1>5, <2>5
    <3> QED BY <3>1, PrecedesInOrder
  <2> QED BY <2>3, <2>4, <2>5
<1> QED BY <1>4, <1>5 DEF Listed, Ordered

LEMMA BeforeInOrder ==
    ASSUME NEW a \in Ids, NEW b \in Ids, Before(a, b)
    PROVE  Start(a) <= Start(b)
BY DowntimeAssumption DEF Before, Start

\* The order of the list that is read.
LEMMA ReadInOrder ==
    ASSUME NEW left \in SUBSET Ids, Arranged(list', left, Before)
    PROVE  list' \in Seq(Ids) /\ Listed' = left /\ Ordered(list')
<1>1. list' \in SetToSeqs(left)
  BY DEF Arranged
<1>2. list' \in Seq(Ids) /\ IsInjective(list') /\ Range(list') = left
  BY <1>1, ListOf
<1>3. \A i, j \in DOMAIN list' : i < j => Before(list'[i], list'[j])
  BY DEF Arranged
<1>4. ASSUME NEW i \in DOMAIN list', NEW j \in DOMAIN list', i < j
      PROVE  Start(list'[i]) <= Start(list'[j])
  <2>1. list'[i] \in Ids /\ list'[j] \in Ids
    BY <1>2, Places
  <2>2. Before(list'[i], list'[j])
    BY <1>3, <1>4
  <2> QED BY <2>1, <2>2, BeforeInOrder
<1> QED BY <1>2, <1>4 DEF Listed, Ordered

\* What is deleted with a downtime is closed: with a downtime goes what it triggers.
LEMMA FamilyClosed ==
    ASSUME NEW id, NEW c \in Listed, Parent(c) \in Family(id)
    PROVE  c \in Family(id)
BY DEF Family

---------------------------------------------------------------------------------
(* Counting *)

\* Sets of downtimes can be counted.
LEMMA Countable ==
    ASSUME NEW S \in SUBSET Ids
    PROVE  IsFiniteSet(S) /\ Cardinality(S) \in Nat /\ Cardinality(S) <= MaxCount
<1>1. IsFiniteSet(Ids) /\ Cardinality(Ids) <= MaxCount /\ MaxCount \in Nat
  BY BoundAssumption
<1>2. IsFiniteSet(S) /\ Cardinality(S) <= Cardinality(Ids)
  BY <1>1, FS_Subset
<1>3. Cardinality(S) \in Nat /\ Cardinality(Ids) \in Nat
  BY <1>1, <1>2, FS_CardinalityType
<1> QED BY <1>1, <1>2, <1>3

LEMMA CountFewer ==
    ASSUME NEW T \in SUBSET Ids, NEW S \in SUBSET T
    PROVE  Cardinality(S) <= Cardinality(T)
BY Countable, FS_Subset

LEMMA CountOneMore ==
    ASSUME NEW S \in SUBSET Ids, NEW x \in Ids \ S, NEW T, T = S \cup {x}
    PROVE  Cardinality(T) = Cardinality(S) + 1 /\ Cardinality(S) < MaxCount
<1>1. Cardinality(S \cup {x}) = Cardinality(S) + 1
  BY Countable, FS_AddElement
<1>2. S \cup {x} \in SUBSET Ids
  OBVIOUS
<1>3. Cardinality(S \cup {x}) <= MaxCount /\ Cardinality(S) \in Nat /\ MaxCount \in Nat
  BY <1>2, Countable, BoundAssumption
<1> QED BY <1>1, <1>3

LEMMA CountWithout ==
    ASSUME NEW S \in SUBSET Ids, NEW T
    PROVE  Cardinality(S \ T) = Cardinality(S) - Cardinality(S \cap T)
BY Countable, FS_Difference

---------------------------------------------------------------------------------

(* Steps *)

\* A step keeps what the invariant says of the list and the counters if it leaves
\* them alone.
SameCounts ==
    /\ UNCHANGED <<depth, pending, list, asked>>
    /\ \A id \in Ids : /\ entry'[id].in_effect = entry[id].in_effect
                       /\ entry'[id].incremented = entry[id].incremented
    /\ Ending' = Ending

LEMMA ListedAreIds ==
    ASSUME Types
    PROVE  Listed \subseteq Ids
BY RangeOfSeq DEF Types, Listed

LEMMA CountsStay ==
    ASSUME Types, TriggeredWithin, PendingInv, DepthInv, SameCounts
    PROVE  TriggeredWithin' /\ PendingInv' /\ DepthInv'
<1>1. Listed' = Listed /\ Listed \subseteq Ids
  BY ListedAreIds DEF SameCounts, Listed
<1>2. \A o \in Objects : WaitingOf(o)' = WaitingOf(o)
  BY <1>1 DEF WaitingOf, SameCounts
<1>3. \A o \in Objects : GoneOf(o)' = GoneOf(o)
  BY <1>1 DEF GoneOf, SameCounts
<1>4. TriggeredWithin'
  BY <1>1 DEF TriggeredWithin, SameCounts, InEffect
<1>5. PendingInv'
  BY <1>2 DEF PendingInv, SameCounts
<1>6. DepthInv'
  BY <1>3 DEF DepthInv, SameCounts
<1> QED BY <1>4, <1>5, <1>6

\* Without calls no downtime is ending.
LEMMA NoneEnding ==
    /\ EndingIn(<<>>) = {}
    /\ Ending = EndingIn(stack)
    /\ Ending' = EndingIn(stack')
BY DEF EndingIn, Ending

\* The call on top of the stack.
LEMMA TopFacts ==
    ASSUME Types, StackInv, NEW proc \in Procs, Calling(proc)
    PROVE  /\ stack \in Seq(FrameRec) /\ stack # <<>> /\ Top = stack[1] /\ Top \in FrameRec
           /\ Top.proc = proc
           /\ Chain(stack) /\ Frames(stack, Listed, Effective)
           /\ proc # "flex" => Top.id \in Ids /\ Top.id \in Listed
           /\ proc \in Running => InEffect(Top.id) /\ Top.id \in Effective
           /\ Top.todo \in Seq(Ids)
           /\ Tail(stack) \in Seq(FrameRec)
           /\ Frames(Tail(stack), Listed, Effective)
<1>1. stack \in Seq(FrameRec) /\ stack # <<>> /\ Top.proc = proc
  BY DEF Types, Calling, Idle
<1>2. Top = stack[1] /\ Top \in FrameRec /\ 1 \in 1..Len(stack)
  <2>1. Top = stack[1] /\ Len(stack) >= 1 /\ Len(stack) \in Nat
    BY <1>1, Places DEF Top
  <2>2. 1 \in 1..Len(stack)
    BY <2>1
  <2> QED BY <1>1, <2>1, <2>2, Places
<1>3. Frames(stack, Listed, Effective) /\ Chain(stack)
  BY DEF StackInv, Frames
<1>4. proc # "flex" => Top.id \in Listed /\ (proc \in Running => Top.id \in Effective)
  BY <1>1, <1>2, <1>3 DEF Frames
<1>5. Top.id \in {0} \cup Ids /\ Top.todo \in Seq(Ids)
  BY <1>2 DEF FrameRec
<1>6. proc # "flex" => Top.id \in Ids /\ Top.id \in Listed
  BY <1>4, ListedAreIds
<1>7. proc \in Running => InEffect(Top.id) /\ Top.id \in Effective
  BY <1>4 DEF Effective, Running
<1>8. Tail(stack) \in Seq(FrameRec) /\ Frames(Tail(stack), Listed, Effective)
  BY <1>1, <1>3, Popped, FramesPop
<1> QED BY <1>1, <1>2, <1>3, <1>4, <1>5, <1>6, <1>7, <1>8

\* What remains of a downtime's entry.
SameEntries ==
    \A id \in Ids : /\ entry'[id].in_effect = entry[id].in_effect
                    /\ entry'[id].incremented = entry[id].incremented
                    /\ entry'[id].trigger_time = entry[id].trigger_time

LEMMA SameIsSame ==
    ASSUME UNCHANGED entry
    PROVE  SameEntries /\ Effective' = Effective
BY DEF SameEntries, Effective, InEffect

---------------------------------------------------------------------------------
(* Time, events and calls without effect *)

LEMMA TickKeeps ==
    ASSUME IInv, Tick
    PROVE  IInv'
<1> USE DEF IInv, Tick, vars, counters, downtimes, outside
<1>1. now' \in Time /\ now' >= now
  BY BoundAssumption DEF Types, Time
<1>2. Types'
  BY <1>1 DEF Types
<1>3. ListInv' /\ EventInv'
  BY DEF ListInv, EventInv, Ordered, Listed, InEffect
<1>4. StackInv'
  BY SameIsSame DEF StackInv, Listed
<1>5. SameCounts
  BY NoneEnding DEF SameCounts
<1>6. TriggeredWithin' /\ PendingInv' /\ DepthInv'
  BY <1>5, CountsStay
<1>7. TimeInv'
  <2>1. \A id \in Ids : entry[id].trigger_time \in Int
    BY BoundAssumption DEF Types, EntryRec, Time
  <2>2. now \in Int /\ now' \in Int
    BY <1>1, BoundAssumption DEF Types, Time
  <2> QED BY <1>1, <2>1, <2>2 DEF TimeInv
<1> QED BY <1>2, <1>3, <1>4, <1>6, <1>7

---------------------------------------------------------------------------------

LEMMA NoFrames ==
    ASSUME NEW L, NEW E
    PROVE  Frames(<<>>, L, E)
<1>1. Len(<<>>) = 0
  BY EmptySeq
<1> QED BY <1>1 DEF Frames, Chain

LEMMA OneFrame ==
    ASSUME NEW f \in FrameRec, NEW L, NEW E,
           f.proc # "flex" => /\ f.id \in L /\ (f.proc \in Running => f.id \in E)
                              /\ Parent(f.id) = 0 \/ f.id \in E
    PROVE  <<f>> \in Seq(FrameRec) /\ Frames(<<f>>, L, E)
<1>1. <<f>> \in Seq(FrameRec) /\ Len(<<f>>) = 1 /\ <<f>>[1] = f
  OBVIOUS
<1>2. \A i \in 1..Len(<<f>>) : <<f>>[i] = f
  BY <1>1
<1>3. Chain(<<f>>)
  BY <1>1 DEF Chain
<1> QED BY <1>1, <1>2, <1>3 DEF Frames

LEMMA EventTypes ==
    /\ \A id \in Ids, at \in Nat : Event(id, at) \in EventRec
    /\ \A at \in Nat : Expiry(at) \in EventRec
    /\ \A id \in Ids : Start(id) \in Nat /\ End(id) \in Nat /\ Duration(id) \in Nat
                       /\ Object(id) \in Objects /\ Fixed(id) \in BOOLEAN
BY DowntimeAssumption
   DEF Event, Expiry, EventRec, Start, End, Duration, Object, Fixed

---------------------------------------------------------------------------------
(* Commands *)

\* The new downtime is blank: it counts for nothing, and it is not gone yet.
LEMMA AcceptKeeps ==
    ASSUME IInv, NEW id \in Ids, Idle, id \notin asked, asked' = asked \cup {id},
           SortedIn(id), Parent(id) \in Listed \cup {0},
           events' = IF Parent(id) = 0
                     THEN events \cup {Event(id, Downtimes[id].start)} ELSE events,
           UNCHANGED <<counters, entry, state, restarts, stack, now>>
    PROVE  IInv'
<1> USE DEF counters
<1>0. Types /\ Ordered(list) /\ Listed \subseteq Ids /\ Listed \subseteq asked
  BY ListedAreIds DEF IInv, ListInv
<1>1. list' \in Seq(Ids) /\ Listed' = Listed \cup {id} /\ Ordered(list')
  BY <1>0, Added
<1>2. stack = <<>> /\ stack' = <<>> /\ Ending = {} /\ Ending' = {}
  BY NoneEnding DEF Idle
<1>3. id \notin Listed /\ entry[id] = Blank
  BY <1>0 DEF IInv, ListInv
<1>4. ~entry[id].in_effect /\ ~entry[id].incremented
  BY <1>3 DEF Blank
<1>5. Types'
  <2>1. Event(id, Downtimes[id].start) \in EventRec
    BY EventTypes DEF Start
  <2>2. events' \subseteq EventRec
    BY <1>0, <2>1 DEF Types
  <2> QED BY <1>0, <1>1, <2>2 DEF Types
<1>6. ListInv'
  BY <1>0, <1>1 DEF IInv, ListInv
<1>7. EventInv'
  <2> SUFFICES ASSUME NEW e \in events', e.kind = "DOWNTIME"
               PROVE  /\ e.id \in asked'
                      /\ Parent(e.id) = 0 \/ (e.id \in Listed' => entry'[e.id].in_effect)
    BY DEF EventInv, InEffect
  <2>1. CASE e \in events
    <3>1. e.id \in asked /\ (Parent(e.id) = 0 \/ (e.id \in Listed => InEffect(e.id)))
      BY <2>1 DEF IInv, EventInv
    <3> QED BY <1>1, <3>1 DEF InEffect
  <2>2. CASE e \notin events
    <3>1. Parent(id) = 0 /\ e = Event(id, Downtimes[id].start)
      BY <2>2
    <3> QED BY <3>1 DEF Event
  <2> QED BY <2>1, <2>2
<1>8. StackInv'
  BY <1>2, NoFrames DEF StackInv
<1>9. TriggeredWithin'
  <2>1. \A c \in Listed : Parent(c) = id => ~entry[c].in_effect
    <3>1. id # 0
      BY ParentBefore
    <3> QED BY <1>3, <3>1 DEF IInv, TriggeredWithin, InEffect
  <2> QED BY <1>1, <1>4 DEF IInv, TriggeredWithin, InEffect
<1>10. \A o \in Objects : WaitingOf(o)' = WaitingOf(o) /\ GoneOf(o)' = GoneOf(o)
  <2> TAKE o \in Objects
  <2>1. WaitingOf(o)' = WaitingOf(o)
    BY <1>1, <1>2, <1>4 DEF WaitingOf
  <2>2. GoneOf(o)' = GoneOf(o)
    BY <1>0, <1>1, <1>2, <1>3 DEF GoneOf
  <2> QED BY <2>1, <2>2
<1>11. PendingInv' /\ DepthInv'
  BY <1>10 DEF IInv, PendingInv, DepthInv
<1>12. TimeInv'
  BY DEF IInv, TimeInv
<1> QED BY <1>5, <1>6, <1>7, <1>8, <1>9, <1>11, <1>12 DEF IInv

LEMMA ScheduleKeeps ==
    ASSUME IInv, NEW id \in Ids, Schedule(id)
    PROVE  IInv'
<1>1. CASE UNCHANGED <<list, events>>
  <2> USE DEF Schedule, counters
  <2>0. Types /\ Listed \subseteq Ids /\ Listed' = Listed /\ asked \subseteq asked'
        /\ asked' \subseteq Ids
    BY <1>1, ListedAreIds DEF IInv, Types, Listed
  <2>1. stack = <<>> /\ stack' = <<>> /\ Ending = {} /\ Ending' = {}
    BY NoneEnding DEF Idle
  <2>2. Types' /\ ListInv' /\ EventInv'
    BY <1>1, <2>0 DEF IInv, Types, ListInv, EventInv, InEffect
  <2>3. StackInv' /\ TriggeredWithin' /\ TimeInv'
    BY <1>1, <2>0, <2>1, NoFrames DEF IInv, StackInv, TriggeredWithin, InEffect, TimeInv
  <2>4. PendingInv'
    BY <2>0, <2>1 DEF IInv, PendingInv, WaitingOf
  <2>5. DepthInv'
    <3> SUFFICES ASSUME NEW o \in Objects
                 PROVE  depth[o] <= MaxCount /\ depth[o] + Cardinality(GoneOf(o)') >= 0
      BY DEF DepthInv
    <3>1. GoneOf(o) \subseteq GoneOf(o)' /\ GoneOf(o)' \subseteq Ids
      BY <2>0, <2>1 DEF GoneOf
    <3>2. Cardinality(GoneOf(o)) <= Cardinality(GoneOf(o)')
      BY <3>1, CountFewer
    <3>3. Cardinality(GoneOf(o)) \in Nat /\ Cardinality(GoneOf(o)') \in Nat /\ depth[o] \in Int
      BY <2>0, <3>1, Countable DEF Types
    <3>4. depth[o] <= MaxCount /\ depth[o] + Cardinality(GoneOf(o)) >= 0
      BY DEF IInv, DepthInv
    <3> QED BY <3>2, <3>3, <3>4
  <2> QED BY <2>2, <2>3, <2>4, <2>5 DEF IInv
<1>2. CASE ~UNCHANGED <<list, events>>
  BY <1>2, AcceptKeeps DEF Schedule
<1> QED BY <1>1, <1>2

---------------------------------------------------------------------------------

\* Downtimes are deleted, of which none triggers one that is in effect and stays.
LEMMA DeleteKeeps ==
    ASSUME IInv, NEW gone, Delete(gone), events' \subseteq events,
           UNCHANGED <<state, asked, restarts, now>>,
           \A c \in Listed \ gone : InEffect(c) => Parent(c) \notin gone
    PROVE  /\ list' \in Seq(Ids) /\ entry' \in [Ids -> EntryRec] /\ events' \subseteq EventRec
           /\ Listed' = Listed \ gone /\ Effective' = Effective \ gone
           /\ \A id \in Listed' : entry'[id] = entry[id]
           /\ ListInv' /\ EventInv' /\ TriggeredWithin' /\ TimeInv'
<1>0. Types /\ Ordered(list) /\ Listed \subseteq Ids /\ Listed \subseteq asked
  BY ListedAreIds DEF IInv, ListInv
<1>1. list' \in Seq(Ids) /\ Listed' = Listed \ gone /\ Ordered(list')
  BY <1>0, Deleted DEF Delete
<1>2. Blank \in EntryRec /\ ~Blank.in_effect /\ Blank.trigger_time = 0
  BY BoundAssumption DEF Blank, EntryRec, Time
<1>3. \A id \in Ids : entry'[id] = IF id \in gone THEN Blank ELSE entry[id]
  BY DEF Delete
<1>4. entry' \in [Ids -> EntryRec]
  BY <1>0, <1>2 DEF Delete, Types
<1>5. events' \subseteq EventRec
  BY <1>0 DEF Types
<1>6. \A id \in Listed' : entry'[id] = entry[id]
  BY <1>0, <1>1, <1>3
<1>7. Effective' = Effective \ gone
  BY <1>2, <1>3 DEF Effective, InEffect
<1>8. ListInv'
  <2>1. \A id \in Ids \ Listed' : entry'[id] = Blank
    BY <1>1, <1>3 DEF IInv, ListInv
  <2> QED BY <1>0, <1>1, <2>1 DEF ListInv
<1>9. EventInv'
  BY <1>1, <1>6 DEF IInv, EventInv, InEffect
<1>10. TriggeredWithin'
  BY <1>1, <1>6 DEF IInv, TriggeredWithin, InEffect
<1>11. TimeInv'
  <2>1. now >= 0
    BY <1>0, BoundAssumption DEF Types, Time
  <2> QED BY <1>2, <1>3, <2>1 DEF IInv, TimeInv
<1> QED BY <1>1, <1>4, <1>5, <1>6, <1>7, <1>8, <1>9, <1>10, <1>11

\* The counting of the downtimes that go at rest: w and g are the numbers of those
\* that were counted as waiting and of those that are gone.
LEMMA DeleteCounts ==
    ASSUME Types, Idle, stack' = stack, asked' = asked, NEW gone \in SUBSET Listed,
           Listed' = Listed \ gone, \A id \in Listed' : entry'[id] = entry[id],
           Listed \subseteq asked, NEW o \in Objects,
           NEW A, A \subseteq {id \in gone : Object(id) = o /\ entry[id].incremented},
           NEW B, B \subseteq {id \in gone : Object(id) = o}
    PROVE  /\ Cardinality(WaitingOf(o)') + Cardinality(A) <= Cardinality(WaitingOf(o))
           /\ Cardinality(GoneOf(o)) + Cardinality(B) <= Cardinality(GoneOf(o)')
           /\ Cardinality(A) \in Nat /\ Cardinality(B) \in Nat
           /\ Cardinality(WaitingOf(o)) \in Nat /\ Cardinality(WaitingOf(o)') \in Nat
           /\ Cardinality(GoneOf(o)) \in Nat /\ Cardinality(GoneOf(o)') \in Nat
<1>0. Listed \subseteq Ids /\ asked \subseteq Ids /\ asked' \subseteq Ids
  BY ListedAreIds DEF Types
<1>1. Ending = {} /\ Ending' = {}
  BY NoneEnding DEF Idle
<1> DEFINE W == WaitingOf(o)
           V == WaitingOf(o)'
           G == GoneOf(o)
           H == GoneOf(o)'
<1>2. W \in SUBSET Ids /\ V \in SUBSET Ids /\ A \in SUBSET Ids /\ V = W \ gone /\ A \subseteq W \cap gone
      /\ W \cap gone \in SUBSET Ids
  BY <1>0, <1>1 DEF WaitingOf
<1>3. G \in SUBSET Ids /\ H \in SUBSET Ids /\ B \in SUBSET Ids /\ G = H \ gone /\ B \subseteq H \cap gone
      /\ H \cap gone \in SUBSET Ids
  BY <1>0, <1>1 DEF GoneOf
<1> HIDE DEF W, V, G, H
<1>4. /\ Cardinality(V) = Cardinality(W) - Cardinality(W \cap gone)
      /\ Cardinality(G) = Cardinality(H) - Cardinality(H \cap gone)
  <2>1. Cardinality(W \ gone) = Cardinality(W) - Cardinality(W \cap gone)
    BY <1>2, CountWithout
  <2>2. Cardinality(H \ gone) = Cardinality(H) - Cardinality(H \cap gone)
    BY <1>3, CountWithout
  <2> QED BY <1>2, <1>3, <2>1, <2>2
<1>5. Cardinality(A) <= Cardinality(W \cap gone) /\ Cardinality(B) <= Cardinality(H \cap gone)
  BY <1>2, <1>3, CountFewer
<1>6. /\ Cardinality(A) \in Nat /\ Cardinality(B) \in Nat /\ Cardinality(W) \in Nat
      /\ Cardinality(V) \in Nat /\ Cardinality(G) \in Nat /\ Cardinality(H) \in Nat
      /\ Cardinality(W \cap gone) \in Nat /\ Cardinality(H \cap gone) \in Nat
  BY <1>2, <1>3, Countable
<1>7. /\ Cardinality(V) + Cardinality(A) <= Cardinality(W)
      /\ Cardinality(G) + Cardinality(B) <= Cardinality(H)
  BY <1>4, <1>5, <1>6
<1> QED BY <1>6, <1>7 DEF W, V, G, H

\* The downtime goes with all that it triggers, and each was counted.
LEMMA UnscheduleKeeps ==
    ASSUME IInv, NEW id \in Ids, Unschedule(id)
    PROVE  IInv'
<1> DEFINE family == Family(id)
           A(o) == {d \in family : Object(d) = o /\ ~Fixed(d) /\ entry[d].incremented}
           B(o) == {d \in family : Object(d) = o /\ InEffect(d)}
<1>0. Types /\ Listed \subseteq asked /\ family \in SUBSET Listed
  BY DEF IInv, ListInv, Family
<1>1. /\ Idle /\ Delete(family) /\ UNCHANGED <<state, asked, restarts, events, stack, now>>
      /\ events' \subseteq events /\ stack' = stack /\ asked' = asked
  BY DEF Unschedule, outside
<1>2. /\ depth' = [o \in Objects |-> depth[o] - Cardinality(B(o))]
      /\ pending' = [o \in Objects |-> pending[o] - Cardinality(A(o))]
  <2>1. \A o : /\ {d \in {x \in family : Object(x) = o} : InEffect(d)} = B(o)
               /\ {d \in {x \in family : Object(x) = o} : ~Fixed(d) /\ entry[d].incremented} = A(o)
    OBVIOUS
  <2> QED BY <2>1 DEF Unschedule
<1>3. \A c \in Listed \ family : InEffect(c) => Parent(c) \notin family
  BY FamilyClosed
<1> HIDE DEF family
<1>4. /\ list' \in Seq(Ids) /\ entry' \in [Ids -> EntryRec] /\ events' \subseteq EventRec
      /\ Listed' = Listed \ family
      /\ \A d \in Listed' : entry'[d] = entry[d]
      /\ ListInv' /\ EventInv' /\ TriggeredWithin' /\ TimeInv'
  BY <1>1, <1>3, DeleteKeeps
<1>5. StackInv'
  BY <1>1, NoFrames DEF StackInv, Idle
<1>6. \A o \in Objects :
         /\ Cardinality(WaitingOf(o)') + Cardinality(A(o)) <= Cardinality(WaitingOf(o))
         /\ Cardinality(GoneOf(o)) + Cardinality(B(o)) <= Cardinality(GoneOf(o)')
         /\ Cardinality(A(o)) \in Nat /\ Cardinality(B(o)) \in Nat
         /\ Cardinality(WaitingOf(o)) \in Nat /\ Cardinality(WaitingOf(o)') \in Nat
         /\ Cardinality(GoneOf(o)) \in Nat /\ Cardinality(GoneOf(o)') \in Nat
  <2> TAKE o \in Objects
  <2>1. /\ A(o) \subseteq {d \in family : Object(d) = o /\ entry[d].incremented}
        /\ B(o) \subseteq {d \in family : Object(d) = o}
    OBVIOUS
  <2> HIDE DEF A, B
  <2> QED BY <1>0, <1>1, <1>4, <2>1, DeleteCounts
<1>7. \A o \in Objects : depth[o] \in Int /\ pending[o] \in Int
  BY <1>0 DEF Types
<1> HIDE DEF A, B
<1>8. Types'
  BY <1>0, <1>1, <1>2, <1>4, <1>6, <1>7 DEF Types
<1>9. PendingInv'
  <2> SUFFICES ASSUME NEW o \in Objects
               PROVE  pending'[o] <= MaxCount /\ pending'[o] >= Cardinality(WaitingOf(o)')
    BY DEF PendingInv
  <2>1. pending[o] <= MaxCount /\ pending[o] >= Cardinality(WaitingOf(o))
    BY DEF IInv, PendingInv
  <2>2. pending'[o] = pending[o] - Cardinality(A(o)) /\ MaxCount \in Int
    BY <1>2, BoundAssumption
  <2> QED BY <1>6, <1>7, <2>1, <2>2
<1>10. DepthInv'
  <2> SUFFICES ASSUME NEW o \in Objects
               PROVE  depth'[o] <= MaxCount /\ depth'[o] + Cardinality(GoneOf(o)') >= 0
    BY DEF DepthInv
  <2>1. depth[o] <= MaxCount /\ depth[o] + Cardinality(GoneOf(o)) >= 0
    BY DEF IInv, DepthInv
  <2>2. depth'[o] = depth[o] - Cardinality(B(o)) /\ MaxCount \in Int
    BY <1>2, BoundAssumption
  <2> QED BY <1>6, <1>7, <2>1, <2>2
<1> QED BY <1>4, <1>5, <1>8, <1>9, <1>10 DEF IInv

---------------------------------------------------------------------------------

(* Events, check results and restarts *)

LEMMA RunScheduledKeeps ==
    ASSUME IInv, NEW e \in events, RunScheduled(e)
    PROVE  IInv'
<1> USE DEF counters, downtimes, outside
<1>1. /\ Idle /\ events' = events \ {e} /\ e.kind = "DOWNTIME"
      /\ UNCHANGED <<depth, pending, list, entry, state, asked, restarts, now>>
  BY DEF RunScheduled
<1>2. Listed' = Listed /\ Effective' = Effective /\ SameEntries /\ Listed \subseteq Ids
  BY <1>1, SameIsSame, ListedAreIds DEF Listed, IInv
<1>3. stack' \in Seq(FrameRec) /\ Frames(stack', Listed, Effective) /\ EndingIn(stack') = {}
  <2>1. CASE e.id \in Listed
    <3>1. stack' = <<Call(e.id)>>
      BY <2>1 DEF RunScheduled
    <3>2. Call(e.id) \in FrameRec /\ Call(e.id).proc = "handle" /\ Call(e.id).id = e.id
      <4> QED BY <1>2, <2>1, FrameTypes
    <3>3. Parent(e.id) = 0 \/ e.id \in Effective
      BY <1>1, <1>2, <2>1 DEF IInv, EventInv, Effective
    <3>4. EndingIn(<<Call(e.id)>>) = {}
      BY <3>2 DEF EndingIn
    <3> QED BY <2>1, <3>1, <3>2, <3>3, <3>4, OneFrame DEF Running
  <2>2. CASE e.id \notin Listed
    <3>1. stack' = <<>>
      BY <2>2 DEF RunScheduled
    <3> QED BY <3>1, NoFrames, NoneEnding, EmptySeq
  <2> QED BY <2>1, <2>2
<1>4. SameCounts
  <2>1. Ending = {} /\ Ending' = {}
    BY <1>1, <1>3, NoneEnding DEF Idle
  <2> QED BY <1>1, <1>2, <2>1 DEF SameCounts, SameEntries
<1>5. Types' /\ ListInv' /\ EventInv' /\ TimeInv'
  BY <1>1, <1>2, <1>3 DEF IInv, Types, ListInv, EventInv, TimeInv, InEffect
<1>6. StackInv'
  BY <1>2, <1>3 DEF StackInv
<1>7. TriggeredWithin' /\ PendingInv' /\ DepthInv'
  BY <1>4, CountsStay DEF IInv
<1> QED BY <1>5, <1>6, <1>7 DEF IInv

\* What expires is not in effect.
LEMMA RunExpireKeeps ==
    ASSUME IInv, NEW e \in events, RunExpire(e)
    PROVE  IInv'
<1> DEFINE gone == {id \in Listed : ~InEffect(id) /\ Downtimes[id].end < now}
<1>0. Types /\ Listed \subseteq asked /\ gone \in SUBSET Listed
  BY DEF IInv, ListInv
<1>1. /\ Idle /\ Delete(gone) /\ events' \subseteq events
      /\ UNCHANGED <<depth, pending, state, asked, restarts, stack, now>>
      /\ stack' = stack /\ asked' = asked
  BY DEF RunExpire, outside, counters
<1>2. \A c \in Listed \ gone : InEffect(c) => Parent(c) \notin gone
  <2>1. 0 \notin Listed
    BY <1>0, ListedAreIds, ParentBefore
  <2> QED BY <2>1 DEF IInv, TriggeredWithin
<1> HIDE DEF gone
<1>4. /\ list' \in Seq(Ids) /\ entry' \in [Ids -> EntryRec] /\ events' \subseteq EventRec
      /\ Listed' = Listed \ gone
      /\ \A d \in Listed' : entry'[d] = entry[d]
      /\ ListInv' /\ EventInv' /\ TriggeredWithin' /\ TimeInv'
  BY <1>1, <1>2, DeleteKeeps
<1>5. StackInv'
  BY <1>1, NoFrames DEF StackInv, Idle
<1>6. \A o \in Objects :
         /\ Cardinality(WaitingOf(o)') <= Cardinality(WaitingOf(o))
         /\ Cardinality(GoneOf(o)) <= Cardinality(GoneOf(o)')
         /\ Cardinality(WaitingOf(o)) \in Nat /\ Cardinality(WaitingOf(o)') \in Nat
         /\ Cardinality(GoneOf(o)) \in Nat /\ Cardinality(GoneOf(o)') \in Nat
  <2> TAKE o \in Objects
  <2> DEFINE none == {}
  <2>1. none \subseteq {d \in gone : Object(d) = o /\ entry[d].incremented}
        /\ none \subseteq {d \in gone : Object(d) = o}
    OBVIOUS
  <2>3. Cardinality(none) = 0
    BY FS_EmptySet
  <2> HIDE DEF none
  <2>2. /\ Cardinality(WaitingOf(o)') + Cardinality(none) <= Cardinality(WaitingOf(o))
        /\ Cardinality(GoneOf(o)) + Cardinality(none) <= Cardinality(GoneOf(o)')
        /\ Cardinality(WaitingOf(o)) \in Nat /\ Cardinality(WaitingOf(o)') \in Nat
        /\ Cardinality(GoneOf(o)) \in Nat /\ Cardinality(GoneOf(o)') \in Nat
    BY <1>0, <1>1, <1>4, <2>1, DeleteCounts
  <2> QED BY <2>2, <2>3
<1>7. \A o \in Objects : depth[o] \in Int /\ pending[o] \in Int
  BY <1>0 DEF Types
<1>8. Types'
  BY <1>0, <1>1, <1>4 DEF Types
<1>9. PendingInv'
  <2> SUFFICES ASSUME NEW o \in Objects
               PROVE  pending[o] <= MaxCount /\ pending[o] >= Cardinality(WaitingOf(o)')
    BY <1>1 DEF PendingInv
  <2>1. pending[o] <= MaxCount /\ pending[o] >= Cardinality(WaitingOf(o))
    BY DEF IInv, PendingInv
  <2> QED BY <1>6, <1>7, <2>1
<1>10. DepthInv'
  <2> SUFFICES ASSUME NEW o \in Objects
               PROVE  depth[o] <= MaxCount /\ depth[o] + Cardinality(GoneOf(o)') >= 0
    BY <1>1 DEF DepthInv
  <2>1. depth[o] <= MaxCount /\ depth[o] + Cardinality(GoneOf(o)) >= 0
    BY DEF IInv, DepthInv
  <2> QED BY <1>6, <1>7, <2>1
<1> QED BY <1>4, <1>5, <1>8, <1>9, <1>10 DEF IInv

LEMMA CheckResultKeeps ==
    ASSUME IInv, NEW o \in Objects, NEW new \in {"OK", "SOFT", "HARD"}, CheckResult(o, new)
    PROVE  IInv'
<1> USE DEF counters, downtimes, outside
<1> DEFINE S == {id \in Listed : Object(id) = o}
<1>1. /\ Idle /\ UNCHANGED <<depth, pending, list, entry, asked, restarts, events, now>>
      /\ state' = [state EXCEPT ![o] = new]
      /\ \/ \E mine \in SetToSeqs(S) : stack' = <<Frame("flex", 0, mine, 0, now)>>
         \/ stack' = <<>>
  BY Zenon DEF CheckResult
<1>2. Listed' = Listed /\ Effective' = Effective /\ SameEntries
  BY <1>1, SameIsSame DEF Listed
<1>3. S \in SUBSET Ids
  BY ListedAreIds DEF IInv
<1> HIDE DEF S
<1>4. stack' \in Seq(FrameRec) /\ Frames(stack', Listed, Effective) /\ EndingIn(stack') = {}
  <2>1. ASSUME NEW mine \in SetToSeqs(S), stack' = <<Frame("flex", 0, mine, 0, now)>>
        PROVE  stack' \in Seq(FrameRec) /\ Frames(stack', Listed, Effective)
               /\ EndingIn(stack') = {}
    <3> DEFINE f == Frame("flex", 0, mine, 0, now)
    <3>1. f \in FrameRec /\ f.proc = "flex"
      <4>1. now \in Nat
        BY BoundAssumption DEF IInv, Types, Time
      <4>2. mine \in Seq(Ids)
        BY <1>3, ListOf
      <4> QED BY <4>1, <4>2 DEF Frame, FrameRec, Procs
    <3> HIDE DEF f
    <3>2. EndingIn(<<f>>) = {}
      BY <3>1 DEF EndingIn
    <3>3. stack' = <<f>>
      BY <2>1 DEF f
    <3> QED BY <3>1, <3>2, <3>3, OneFrame
  <2>2. CASE stack' = <<>>
    BY <2>2, NoFrames, NoneEnding, EmptySeq
  <2> QED BY <1>1, <2>1, <2>2
<1>5. SameCounts
  <2>1. Ending = {} /\ Ending' = {}
    BY <1>1, <1>4, NoneEnding DEF Idle
  <2> QED BY <1>1, <1>2, <2>1 DEF SameCounts, SameEntries
<1>6. Types' /\ ListInv' /\ EventInv' /\ TimeInv'
  BY <1>1, <1>2, <1>4 DEF IInv, Types, ListInv, EventInv, TimeInv, InEffect
<1>7. StackInv'
  BY <1>2, <1>4 DEF StackInv
<1>8. TriggeredWithin' /\ PendingInv' /\ DepthInv'
  BY <1>5, CountsStay DEF IInv
<1> QED BY <1>6, <1>7, <1>8 DEF IInv

---------------------------------------------------------------------------------

\* What is restored after a restart: who was in effect still is, since when it was, and
\* nothing is counted.
Restored(r) == [r EXCEPT !.start_flex = FALSE, !.incremented = FALSE]

LEMMA RestoredFields ==
    ASSUME NEW r \in EntryRec
    PROVE  /\ Restored(r) \in EntryRec /\ Restored(r).in_effect = r.in_effect
           /\ Restored(r).trigger_time = r.trigger_time /\ ~Restored(r).incremented
BY DEF Restored, EntryRec

\* The parent of a downtime that is restored is restored: it is not later in the list,
\* so it is validated first.
LEMMA RestartKeeps ==
    ASSUME IInv, Restart
    PROVE  IInv'
<1>1. PICK got \in SUBSET Listed : \E left \in SUBSET got :
         /\ Loads(got) /\ Validates(got, left)
         /\ Arranged(list', left, Before)
         /\ entry' = [id \in Ids |-> IF id \in left THEN Restored(entry[id]) ELSE Blank]
         /\ events' = {Event(id, Downtimes[id].start) : id \in {i \in got : Parent(i) = 0}}
  BY Zenon DEF Restart, Restored
<1>2. PICK left \in SUBSET got :
         /\ Loads(got) /\ Validates(got, left)
         /\ Arranged(list', left, Before)
         /\ entry' = [id \in Ids |-> IF id \in left THEN Restored(entry[id]) ELSE Blank]
         /\ events' = {Event(id, Downtimes[id].start) : id \in {i \in got : Parent(i) = 0}}
  BY <1>1
<1>20. /\ Idle /\ stack' = stack /\ UNCHANGED <<state, asked, now>> /\ restarts' \in 0..MaxRestarts
      /\ depth' = [o \in Objects |-> 0] /\ pending' = [o \in Objects |-> 0]
  <2>1. restarts < MaxRestarts /\ restarts' = restarts + 1
    BY Zenon DEF Restart
  <2>2. restarts' \in 0..MaxRestarts
    BY <2>1, BoundAssumption DEF IInv, Types
  <2>3. /\ Idle /\ depth' = [o \in Objects |-> 0] /\ pending' = [o \in Objects |-> 0]
        /\ UNCHANGED <<state, asked, stack, now>>
    BY Zenon DEF Restart
  <2> QED BY <2>2, <2>3
<1>0. /\ Types /\ Listed \subseteq Ids /\ Listed \subseteq asked /\ Ordered(list)
      /\ \A id \in Ids : entry[id] \in EntryRec
  BY ListedAreIds DEF IInv, ListInv, Types
<1>3. list' \in Seq(Ids) /\ Listed' = left /\ Ordered(list')
  <2>1. left \in SUBSET Ids
    BY <1>0
  <2> QED BY <1>2, <2>1, ReadInOrder
<1>4. Blank \in EntryRec /\ ~Blank.in_effect /\ ~Blank.incremented /\ Blank.trigger_time = 0
  BY BoundAssumption DEF Blank, EntryRec, Time
<1>5. \A id \in Ids :
         /\ entry'[id] \in EntryRec /\ ~entry'[id].incremented
         /\ id \in left => /\ entry'[id].in_effect = entry[id].in_effect
                           /\ entry'[id].trigger_time = entry[id].trigger_time
         /\ id \notin left => entry'[id] = Blank
  BY <1>0, <1>2, <1>4, RestoredFields
<1>6. entry' \in [Ids -> EntryRec]
  <2>1. \A id \in Ids : (IF id \in left THEN Restored(entry[id]) ELSE Blank) \in EntryRec
    BY <1>0, <1>4, RestoredFields
  <2> QED BY <1>2, <2>1
<1>7. \A e \in events' : e \in EventRec /\ e.id \in asked /\ Parent(e.id) = 0
  <2> SUFFICES ASSUME NEW e \in events'
               PROVE  e \in EventRec /\ e.id \in asked /\ Parent(e.id) = 0
    OBVIOUS
  <2>1. PICK id \in got : Parent(id) = 0 /\ e = Event(id, Downtimes[id].start)
    BY <1>2
  <2>2. id \in Ids /\ id \in asked /\ e = Event(id, Start(id))
    BY <1>0, <2>1 DEF Start
  <2>3. e.id = id
    BY <2>2 DEF Event
  <2> QED BY <2>1, <2>2, <2>3, EventTypes
<1>8. Types'
  <2>1. \A o \in Objects : 0 \in Int
    OBVIOUS
  <2> QED BY <1>0, <1>20, <1>3, <1>6, <1>7 DEF Types
<1>9. ListInv' /\ EventInv'
  BY <1>0, <1>20, <1>3, <1>5, <1>7 DEF ListInv, EventInv
<1>10. StackInv'
  BY <1>20, NoFrames DEF StackInv, Idle
<1>11. TriggeredWithin'
  <2> SUFFICES ASSUME NEW id \in left, entry'[id].in_effect, Parent(id) # 0
               PROVE  Parent(id) \in left /\ entry'[Parent(id)].in_effect
    BY <1>3 DEF TriggeredWithin, InEffect
  <2>1. id \in Listed /\ id \in got /\ id \in Ids
    BY <1>0, <1>1
  <2>2. Parent(id) \in got /\ Precedes(Parent(id), id)
    BY <1>2, <2>1 DEF Loads
  <2>3. Parent(id) \in Ids /\ Parent(id) \in Listed /\ Parent(id) < id /\ id \in Nat
    BY <1>0, <1>2, <2>1, <2>2, ParentBefore
  <2>4. Before(Parent(id), id)
    <3>1. Start(Parent(id)) <= Start(id)
      BY <1>0, <2>2, PrecedesInOrder
    <3>2. Start(Parent(id)) \in Nat /\ Start(id) \in Nat
      BY <2>1, <2>3, EventTypes
    <3> QED BY <2>3, <3>1, <3>2 DEF Before, Start
  <2>5. Parent(id) \in left
    BY <1>2, <2>1, <2>4 DEF Validates
  <2>6. InEffect(id)
    BY <1>5, <2>1 DEF InEffect
  <2>7. InEffect(Parent(id))
    BY <2>1, <2>6 DEF IInv, TriggeredWithin
  <2> QED BY <1>5, <2>3, <2>5, <2>7 DEF InEffect
<1>12. PendingInv'
  <2> SUFFICES ASSUME NEW o \in Objects
               PROVE  pending'[o] <= MaxCount /\ pending'[o] >= Cardinality(WaitingOf(o)')
    BY DEF PendingInv
  <2>1. WaitingOf(o)' = {}
    BY <1>0, <1>3, <1>5 DEF WaitingOf
  <2>2. Cardinality({}) = 0
    BY FS_EmptySet
  <2>3. Cardinality(WaitingOf(o)') = 0
    BY <2>1, <2>2
  <2> QED BY <1>20, <2>3, BoundAssumption
<1>13. DepthInv'
  <2> SUFFICES ASSUME NEW o \in Objects
               PROVE  depth'[o] <= MaxCount /\ depth'[o] + Cardinality(GoneOf(o)') >= 0
    BY DEF DepthInv
  <2>1. GoneOf(o)' \in SUBSET Ids
    BY <1>8 DEF GoneOf, Types
  <2>2. Cardinality(GoneOf(o)') \in Nat
    BY <2>1, Countable
  <2> QED BY <1>20, <2>2, BoundAssumption
<1>14. TimeInv'
  <2>1. now \in Nat
    BY <1>0, BoundAssumption DEF Types, Time
  <2> QED BY <1>20, <1>4, <1>5, <2>1 DEF IInv, TimeInv
<1> QED BY <1>8, <1>9, <1>10, <1>11, <1>12, <1>13, <1>14 DEF IInv

---------------------------------------------------------------------------------

(* The calls of handle_scheduled_downtime() *)

\* The call that handles a downtime, and what called it.
LEMMA HandleFacts ==
    ASSUME IInv, Calling("handle")
    PROVE  /\ Top.id \in Ids /\ Top.id \in Listed /\ Top.id \in asked
           /\ entry[Top.id] \in EntryRec /\ Object(Top.id) \in Objects
           /\ EndingIn(Tail(stack)) = Ending /\ Top.id \notin Ending
           /\ \/ Parent(Top.id) = 0
              \/ Parent(Top.id) \in Listed /\ InEffect(Parent(Top.id))
<1>1. /\ stack \in Seq(FrameRec) /\ stack # <<>> /\ Top = stack[1] /\ Top.proc = "handle"
      /\ Chain(stack) /\ Frames(stack, Listed, Effective)
      /\ Top.id \in Ids /\ Top.id \in Listed
  BY TopFacts DEF IInv, Procs
<1>2. EndingIn(Tail(stack)) = Ending /\ Top.id \notin Ending
  BY <1>1, EndingPop, NoneEnding
<1>3. entry[Top.id] \in EntryRec /\ Top.id \in asked /\ Object(Top.id) \in Objects
  BY <1>1, EventTypes DEF IInv, Types, ListInv
<1>4. Parent(Top.id) = 0 \/ (Parent(Top.id) \in Listed /\ InEffect(Parent(Top.id)))
  <2>1. Len(stack) \in Nat /\ Len(stack) >= 1
    BY <1>1, Places
  <2>2. CASE Len(stack) = 1
    <3>1. Parent(Top.id) = 0 \/ Top.id \in Effective
      BY <1>1, <2>2 DEF Frames
    <3> QED BY <1>1, <3>1 DEF IInv, TriggeredWithin, Effective
  <2>3. CASE Len(stack) # 1
    <3>1. 1 \in 1..Len(stack) - 1 /\ 1 + 1 \in 1..Len(stack)
      BY <2>1, <2>3, TwoOrMore
    <3>2. Outer(stack[1], stack[1 + 1])
      BY <1>1, <3>1 DEF Chain
    <3>3. stack[1 + 1].proc \in Running =>
             stack[1 + 1].id \in Listed /\ stack[1 + 1].id \in Effective
      BY <1>1, <3>1 DEF Frames, Running
    <3> QED BY <1>1, <3>2, <3>3 DEF Outer, Effective
  <2> QED BY <2>2, <2>3
<1> QED BY <1>1, <1>2, <1>3, <1>4

\* The downtime is counted as waiting once more, and it was counted or not.
LEMMA HandleWaitsKeeps ==
    ASSUME IInv, HandleWaits
    PROVE  IInv'
<1> DEFINE id == Top.id
           p == Object(id)
<1>1. /\ Calling("handle") /\ UNCHANGED <<depth, list, state, asked, restarts, now>>
      /\ pending' = [pending EXCEPT ![p] = More(@)]
      /\ entry' = [entry EXCEPT ![id].incremented = TRUE]
      /\ events' = events \cup {Expiry(Downtimes[id].end + 1)}
      /\ stack' = Tail(stack)
  BY DEF HandleWaits, outside
<1>2. /\ id \in Ids /\ id \in Listed /\ entry[id] \in EntryRec /\ p \in Objects
      /\ EndingIn(Tail(stack)) = Ending /\ id \notin Ending
  BY <1>1, HandleFacts
<1>3. Tail(stack) \in Seq(FrameRec) /\ Frames(Tail(stack), Listed, Effective)
  BY <1>1, TopFacts DEF IInv, Procs
<1>0. Types /\ Listed' = Listed /\ Listed \subseteq Ids /\ Ending' = Ending
  BY <1>1, <1>2, ListedAreIds, NoneEnding DEF IInv, Listed
<1> HIDE DEF id, p
<1>4. /\ entry' \in [Ids -> EntryRec]
      /\ entry'[id].incremented
      /\ \A d \in Ids : /\ entry'[d].in_effect = entry[d].in_effect
                        /\ entry'[d].trigger_time = entry[d].trigger_time
                        /\ d # id => entry'[d] = entry[d]
  <2>1. [entry[id] EXCEPT !.incremented = TRUE] \in EntryRec
    BY <1>2 DEF EntryRec
  <2>2. entry \in [Ids -> EntryRec]
    BY <1>0 DEF Types
  <2>3. entry' = [entry EXCEPT ![id] = [entry[id] EXCEPT !.incremented = TRUE]]
    BY <1>1
  <2>4. /\ [entry[id] EXCEPT !.incremented = TRUE].in_effect = entry[id].in_effect
        /\ [entry[id] EXCEPT !.incremented = TRUE].trigger_time = entry[id].trigger_time
        /\ [entry[id] EXCEPT !.incremented = TRUE].incremented
    BY <1>2 DEF EntryRec
  <2> QED BY <1>2, <2>1, <2>2, <2>3, <2>4
<1>5. Effective' = Effective
  BY <1>4 DEF Effective, InEffect
<1>6. \A o \in Objects : pending'[o] = IF o = p THEN More(pending[o]) ELSE pending[o]
  BY <1>0, <1>1 DEF Types
<1>7. Types'
  <2>1. Expiry(Downtimes[id].end + 1) \in EventRec
    <3>1. End(id) + 1 \in Nat
      BY <1>2, EventTypes
    <3> QED BY <3>1, EventTypes DEF End
  <2>2. pending' \in [Objects -> Int]
    <3>1. \A o \in Objects : pending[o] \in Int /\ More(pending[o]) \in Int
      BY <1>0 DEF Types, More
    <3> QED BY <1>0, <1>1, <1>2, <3>1 DEF Types
  <2> QED BY <1>0, <1>1, <1>3, <1>4, <2>1, <2>2 DEF Types
<1>8. ListInv' /\ EventInv'
  <2>1. \A d \in Ids \ Listed : d # id
    BY <1>2
  <2>2. \A e \in events' : e.kind = "DOWNTIME" => e \in events
    BY <1>1 DEF Expiry
  <2> QED BY <1>0, <1>1, <1>4, <2>1, <2>2 DEF IInv, ListInv, EventInv, InEffect
<1>9. StackInv'
  BY <1>0, <1>1, <1>3, <1>5 DEF StackInv
<1>10. TriggeredWithin' /\ TimeInv'
  BY <1>0, <1>1, <1>4 DEF IInv, TriggeredWithin, TimeInv, InEffect
<1>11. DepthInv'
  <2>1. \A o \in Objects : GoneOf(o)' = GoneOf(o)
    BY <1>0, <1>1 DEF GoneOf
  <2> QED BY <1>1, <2>1 DEF IInv, DepthInv
<1>12. PendingInv'
  <2> SUFFICES ASSUME NEW o \in Objects
               PROVE  pending'[o] <= MaxCount /\ pending'[o] >= Cardinality(WaitingOf(o)')
    BY DEF PendingInv
  <2>1. pending[o] <= MaxCount /\ pending[o] >= Cardinality(WaitingOf(o)) /\ pending[o] \in Int
        /\ MaxCount \in Int
    BY <1>0, BoundAssumption DEF IInv, PendingInv, Types
  <2>2. CASE o # p
    <3>1. WaitingOf(o)' = WaitingOf(o)
      BY <1>0, <1>1, <1>4, <2>2 DEF WaitingOf, p
    <3> QED BY <1>6, <2>1, <2>2, <3>1
  <2>3. CASE o = p
    <3> DEFINE W == WaitingOf(o)
               V == WaitingOf(o)'
    <3>1. V = W \cup {id} /\ W \in SUBSET Ids
      BY <1>0, <1>1, <1>2, <1>4, <2>3 DEF WaitingOf, p
    <3> HIDE DEF W, V
    <3>2. Cardinality(W) \in Nat
      BY <3>1, Countable
    <3>3. CASE id \in W
      <4>1. V = W
        BY <3>1, <3>3
      <4> QED BY <1>6, <2>1, <2>3, <3>2, <4>1 DEF More, V, W
    <3>4. CASE id \notin W
      <4>1. Cardinality(V) = Cardinality(W) + 1 /\ Cardinality(W) < MaxCount
        BY <1>2, <3>1, <3>4, CountOneMore
      <4> QED BY <1>6, <2>1, <2>3, <3>2, <4>1 DEF More, V, W
    <3> QED BY <3>3, <3>4
  <2> QED BY <2>2, <2>3
<1> QED BY <1>7, <1>8, <1>9, <1>10, <1>11, <1>12 DEF IInv

---------------------------------------------------------------------------------

\* The downtime is counted down and is ending from now on: it is gone, and it does not
\* wait any more.
LEMMA HandleStopKeeps ==
    ASSUME IInv, HandleStop
    PROVE  IInv'
<1> DEFINE id == Top.id
           p == Object(id)
           f == Frame("stop", id, <<>>, 0, 0)
<1>1. /\ Calling("handle") /\ HandlingEnded(id)
      /\ UNCHANGED <<list, entry, state, asked, restarts, events, now>>
      /\ depth' = [depth EXCEPT ![p] = Less(@)]
      /\ pending' = IF ~Fixed(id) /\ entry[id].incremented /\ pending[p] > 0
                    THEN [pending EXCEPT ![p] = @ - 1] ELSE pending
      /\ stack' = <<f>> \o Tail(stack)
  BY DEF HandleStop, outside, downtimes
<1>2. /\ id \in Ids /\ id \in Listed /\ id \in asked /\ p \in Objects
      /\ EndingIn(Tail(stack)) = Ending /\ id \notin Ending
  BY <1>1, HandleFacts
<1>3. /\ Tail(stack) \in Seq(FrameRec) /\ stack \in Seq(FrameRec) /\ stack # <<>>
      /\ id = stack[1].id /\ stack[1].proc # "flex" /\ Frames(stack, Listed, Effective)
  BY <1>1, TopFacts DEF IInv, Procs
<1>4. f \in FrameRec /\ f.proc = "stop" /\ f.id = id
  <2>1. <<>> \in Seq(Ids) /\ "stop" \in Running
    BY EmptySeq DEF Running
  <2> HIDE DEF id
  <2> QED BY <1>2, <2>1 DEF Frame, FrameRec, Procs
<1>5. id \in Effective
  BY <1>1, <1>2 DEF HandlingEnded, Effective
<1> HIDE DEF id, p, f
<1>0. Types /\ Listed' = Listed /\ Listed \subseteq Ids /\ Effective' = Effective
  BY <1>1, ListedAreIds, SameIsSame DEF IInv, Listed
<1>6. Ending' = Ending \cup {id}
  BY <1>1, <1>2, <1>3, <1>4, EndingPush, NoneEnding
<1>7. StackInv'
  BY <1>0, <1>1, <1>2, <1>3, <1>4, <1>5, FramesTop DEF StackInv, Running
<1>8. \A o \in Objects :
         /\ depth'[o] = IF o = p THEN Less(depth[o]) ELSE depth[o]
         /\ pending'[o] = IF o = p /\ ~Fixed(id) /\ entry[id].incremented /\ pending[p] > 0
                          THEN pending[o] - 1 ELSE pending[o]
         /\ depth[o] \in Int /\ pending[o] \in Int
  BY <1>0, <1>1 DEF Types
<1>9. Types'
  <2>1. depth' \in [Objects -> Int] /\ pending' \in [Objects -> Int]
    BY <1>0, <1>1, <1>2, <1>8 DEF Types, Less
  <2>2. stack' \in Seq(FrameRec)
    BY <1>1, <1>3, <1>4, Pushed
  <2> QED BY <1>0, <1>1, <2>1, <2>2 DEF Types
<1>10. ListInv' /\ EventInv' /\ TriggeredWithin' /\ TimeInv'
  BY <1>0, <1>1 DEF IInv, ListInv, EventInv, TriggeredWithin, TimeInv, InEffect
<1>11. DepthInv'
  <2> SUFFICES ASSUME NEW o \in Objects
               PROVE  depth'[o] <= MaxCount /\ depth'[o] + Cardinality(GoneOf(o)') >= 0
    BY DEF DepthInv
  <2>1. /\ depth[o] <= MaxCount /\ depth[o] + Cardinality(GoneOf(o)) >= 0
        /\ depth[o] \in Int /\ MaxCount \in Nat
    BY <1>8, BoundAssumption DEF IInv, DepthInv
  <2>2. CASE o # p
    <3>1. GoneOf(o)' = GoneOf(o)
      BY <1>0, <1>1, <1>6, <2>2 DEF GoneOf, p
    <3> QED BY <1>8, <2>1, <2>2, <3>1
  <2>3. CASE o = p
    <3> DEFINE G == GoneOf(o)
               H == GoneOf(o)'
    <3>1. H = G \cup {id} /\ G \in SUBSET Ids /\ id \notin G
      BY <1>0, <1>1, <1>2, <1>6, <2>3 DEF GoneOf, Types, p
    <3> HIDE DEF G, H
    <3>2. Cardinality(H) = Cardinality(G) + 1 /\ Cardinality(G) < MaxCount
          /\ Cardinality(G) \in Nat
      BY <1>2, <3>1, CountOneMore, Countable
    <3>3. depth'[o] = Less(depth[o]) /\ depth[o] + Cardinality(G) >= 0
      BY <1>8, <2>1, <2>3 DEF G
    <3> QED BY <2>1, <3>2, <3>3 DEF Less, H
  <2> QED BY <2>2, <2>3
<1>12. PendingInv'
  <2> SUFFICES ASSUME NEW o \in Objects
               PROVE  pending'[o] <= MaxCount /\ pending'[o] >= Cardinality(WaitingOf(o)')
    BY DEF PendingInv
  <2>1. pending[o] <= MaxCount /\ pending[o] >= Cardinality(WaitingOf(o)) /\ pending[o] \in Int
        /\ MaxCount \in Int
    BY <1>8, BoundAssumption DEF IInv, PendingInv
  <2>2. CASE o # p
    <3>1. WaitingOf(o)' = WaitingOf(o)
      BY <1>0, <1>1, <1>6, <2>2 DEF WaitingOf, p
    <3> QED BY <1>8, <2>1, <2>2, <3>1
  <2>3. CASE o = p
    <3> DEFINE W == WaitingOf(o)
               V == WaitingOf(o)'
    <3>1. V = W \ {id} /\ W \in SUBSET Ids /\ V \in SUBSET Ids
      BY <1>0, <1>1, <1>6 DEF WaitingOf
    <3>2. entry[id].incremented => id \in W
      BY <1>2, <2>3 DEF WaitingOf, p
    <3> HIDE DEF W, V
    <3>3. Cardinality(W) \in Nat /\ Cardinality(V) \in Nat /\ IsFiniteSet(W)
      BY <3>1, Countable
    <3>4. Cardinality(V) = IF id \in W THEN Cardinality(W) - 1 ELSE Cardinality(W)
      BY <3>1, <3>3, FS_RemoveElement
    <3>5. pending'[o] \in {pending[o], pending[o] - 1}
          /\ (pending'[o] # pending[o] => entry[id].incremented)
      BY <1>8
    <3>6. pending[o] >= Cardinality(W)
      BY <2>1 DEF W
    <3> QED BY <2>1, <3>2, <3>3, <3>4, <3>5, <3>6 DEF V
  <2> QED BY <2>2, <2>3
<1> QED BY <1>7, <1>9, <1>10, <1>11, <1>12 DEF IInv

\* A call is made for a downtime that the one on top triggers.
LEMMA CallKeeps ==
    ASSUME IInv, NEW proc \in Running, Calling(proc), NEW c \in Listed, Parent(c) = Top.id,
           NEW s \in Seq(FrameRec), s # <<>>, Frames(s, Listed, Effective), EndingIn(s) = Ending,
           s[1].proc = proc, s[1].id = Top.id, stack' = <<Call(c)>> \o s,
           UNCHANGED <<counters, downtimes, outside, events, now>>
    PROVE  IInv'
<1> USE DEF counters, downtimes, outside
<1>0. Types /\ Listed' = Listed /\ Listed \subseteq Ids /\ Effective' = Effective /\ SameEntries
  BY ListedAreIds, SameIsSame DEF IInv, Listed
<1>1. c \in Ids
  BY <1>0
<1>2. Call(c) \in FrameRec /\ Call(c).proc = "handle" /\ Call(c).id = c
  BY <1>1, FrameTypes
<1>3. Outer(Call(c), s[1])
  BY <1>2 DEF Outer
<1>4. stack' \in Seq(FrameRec) /\ Frames(stack', Listed, Effective)
  BY <1>1, <1>2, <1>3, Pushed, FramesPush
<1>5. Ending' = Ending
  BY <1>2, EndingPush, NoneEnding
<1>6. SameCounts
  BY <1>0, <1>5 DEF SameCounts, SameEntries
<1>7. Types' /\ ListInv' /\ EventInv' /\ TimeInv'
  BY <1>0, <1>4 DEF IInv, Types, ListInv, EventInv, TimeInv, InEffect
<1>8. StackInv'
  BY <1>0, <1>4 DEF StackInv
<1>9. TriggeredWithin' /\ PendingInv' /\ DepthInv'
  BY <1>6, CountsStay DEF IInv
<1> QED BY <1>7, <1>8, <1>9 DEF IInv

\* The first one that is found.
LEMMA FirstFound ==
    ASSUME NEW q \in Seq(Ids), NEW S, \E i \in DOMAIN q : q[i] \in S
    PROVE  \E i \in DOMAIN q : q[i] \in S /\ \A j \in 1..i - 1 : q[j] \notin S
<1> DEFINE T == {i \in DOMAIN q : q[i] \in S}
<1>1. Len(q) \in Nat /\ DOMAIN q = 1..Len(q)
  BY Places
<1>2. T \in SUBSET (1..Len(q)) /\ T # {}
  BY <1>1
<1>3. PICK i \in T : \A j \in 1..i - 1 : j \notin T
  BY <1>1, <1>2, FirstOf
<1>4. \A j \in 1..i - 1 : j \in DOMAIN q
  BY <1>1
<1> QED BY <1>3, <1>4

\* The loop that ends what a downtime triggers calls for one of them.
LEMMA StopNextDoes ==
    ASSUME IInv, StopNext
    PROVE  /\ Calling("stop")
           /\ UNCHANGED <<counters, downtimes, outside, events, now>>
           /\ \E c \in Listed : Parent(c) = Top.id /\ stack' = <<Call(c)>> \o stack
<1> DEFINE Triggered(c) == Parent(c) = Top.id
           k == FirstAt(list, Triggered)
           S == {d \in Ids : Parent(d) = Top.id}
<1>1. /\ Calling("stop") /\ ~None(list, Triggered)
      /\ stack' = <<Call(list[k])>> \o stack
      /\ UNCHANGED <<counters, downtimes, outside, events, now>>
  BY Zenon DEF StopNext
<1>2. list \in Seq(Ids) /\ Len(list) \in Nat /\ DOMAIN list = 1..Len(list)
      /\ \A i \in DOMAIN list : list[i] \in Ids
  BY Places DEF IInv, Types
<1>3. \E i \in DOMAIN list : list[i] \in S
  BY <1>1, <1>2 DEF None
<1>4. \E i \in DOMAIN list : list[i] \in S /\ \A j \in 1..i - 1 : list[j] \notin S
  BY <1>2, <1>3, FirstFound
<1>5. \E i \in DOMAIN list : Triggered(list[i]) /\ \A j \in 1..i - 1 : ~Triggered(list[j])
  <2>1. \A i \in DOMAIN list, j \in Int : j \in 1..i - 1 => j \in DOMAIN list
    BY <1>2
  <2> QED BY <1>2, <1>4, <2>1
<1>6. k \in DOMAIN list /\ Triggered(list[k])
  BY <1>5 DEF FirstAt
<1>7. list[k] \in Listed /\ Parent(list[k]) = Top.id
  BY <1>6 DEF Listed, Range
<1> HIDE DEF k
<1> QED BY <1>1, <1>7

LEMMA StopNextKeeps ==
    ASSUME IInv, StopNext
    PROVE  IInv'
<1>1. PICK c \in Listed : Parent(c) = Top.id /\ stack' = <<Call(c)>> \o stack
  BY StopNextDoes
<1>2. Calling("stop") /\ UNCHANGED <<counters, downtimes, outside, events, now>>
  BY StopNextDoes
<1>3. /\ stack \in Seq(FrameRec) /\ stack # <<>> /\ stack[1].proc = "stop" /\ stack[1].id = Top.id
      /\ Frames(stack, Listed, Effective) /\ EndingIn(stack) = Ending
  BY <1>2, TopFacts, NoneEnding DEF IInv, Procs
<1> QED BY <1>1, <1>2, <1>3, CallKeeps DEF Running

---------------------------------------------------------------------------------

\* The downtime goes; no other call is of this one, and none that is in the list is
\* triggered by it.
LEMMA StopDoneKeeps ==
    ASSUME IInv, StopDone
    PROVE  IInv'
<1> DEFINE id == Top.id
           gone == {id}
<1>1. /\ Calling("stop") /\ Delete(gone) /\ stack' = Tail(stack) /\ events' \subseteq events
      /\ UNCHANGED <<depth, pending, state, asked, restarts, now>>
      /\ \A c \in Listed : Parent(c) # id
  BY DEF StopDone, outside, counters
<1>2. /\ stack \in Seq(FrameRec) /\ stack # <<>> /\ stack[1].proc = "stop" /\ stack[1].id = id
      /\ Chain(stack) /\ id \in Ids /\ id \in Listed
      /\ Tail(stack) \in Seq(FrameRec) /\ Frames(Tail(stack), Listed, Effective)
  BY <1>1, TopFacts DEF IInv, Procs, Running
<1> HIDE DEF id
<1>0. Types /\ Listed \subseteq Ids
  BY ListedAreIds DEF IInv
<1>3. \A c \in Listed \ gone : InEffect(c) => Parent(c) \notin gone
  BY <1>1
<1>4. /\ list' \in Seq(Ids) /\ entry' \in [Ids -> EntryRec] /\ events' \subseteq EventRec
      /\ Listed' = Listed \ gone /\ Effective' = Effective \ gone
      /\ \A d \in Listed' : entry'[d] = entry[d]
      /\ ListInv' /\ EventInv' /\ TriggeredWithin' /\ TimeInv'
  BY <1>1, <1>3, DeleteKeeps
<1>5. Ending' = Ending \ {id} /\ id \in Ending
  <2>1. id \in EndingIn(stack)
    <3>1. 1 \in DOMAIN stack
      BY <1>2, Places
    <3> QED BY <1>2, <3>1 DEF EndingIn
  <2> QED BY <1>1, <1>2, <2>1, EndingPop, NoneEnding
<1>6. StackInv'
  <2> DEFINE t == Tail(stack)
  <2>1. \A i \in 1..Len(t) : t[i].proc # "flex" => t[i].id # id
    <3> SUFFICES ASSUME NEW i \in 1..Len(t), t[i].proc # "flex" PROVE t[i].id # id
      OBVIOUS
    <3>1. Len(t) = Len(stack) - 1 /\ Len(stack) \in Nat /\ Len(stack) >= 1
          /\ \A j \in 1..Len(stack) - 1 : t[j] = stack[j + 1]
      BY <1>2, Popped, Places
    <3>2. t[i] = stack[i + 1] /\ i + 1 \in 1..Len(stack) /\ 1 \in 1..Len(stack) /\ 1 < i + 1
      BY <3>1
    <3>3. t[i].id < id
      BY <1>2, <3>2 DEF Chain
    <3>4. id \in Nat
      BY <1>2, ParentBefore
    <3> QED BY <3>3, <3>4
  <2>2. Frames(t, Listed \ gone, Effective \ gone)
    <3> HIDE DEF t
    <3>1. \A i \in 1..Len(t) : t[i].proc # "flex" =>
             /\ t[i].id \in Listed => t[i].id \in Listed \ gone
             /\ t[i].id \in Effective => t[i].id \in Effective \ gone
      BY <2>1
    <3> QED BY ZenonT(60), <1>2, <3>1, FramesKept DEF t
  <2> QED BY <1>1, <1>4, <2>2 DEF StackInv
<1>7. Types'
  BY <1>0, <1>1, <1>2, <1>4 DEF Types
<1>8. \A o \in Objects : WaitingOf(o)' = WaitingOf(o) /\ GoneOf(o)' = GoneOf(o)
  <2> TAKE o \in Objects
  <2>1. WaitingOf(o)' = WaitingOf(o)
    BY <1>4, <1>5 DEF WaitingOf
  <2>2. GoneOf(o)' = GoneOf(o)
    BY <1>1, <1>4, <1>5 DEF GoneOf
  <2> QED BY <2>1, <2>2
<1>9. PendingInv' /\ DepthInv'
  BY <1>1, <1>8 DEF IInv, PendingInv, DepthInv
<1> QED BY <1>4, <1>6, <1>7, <1>9 DEF IInv

LEMMA BegunFields ==
    ASSUME NEW r \in EntryRec, NEW first, now \in Time
    PROVE  /\ Begun(r, first) \in EntryRec /\ Begun(r, first).in_effect
           /\ Begun(r, first).trigger_time \in {r.trigger_time, now}
           /\ ~r.in_effect /\ r.trigger_time = now => Begun(r, first).trigger_time = now
           /\ Begun(r, first).incremented = r.incremented
           /\ Begun(r, first).start_flex = r.start_flex
BY DEF Begun, EntryRec

\* The downtime is in effect from now on, and so is what triggers it.
EndOf(id) == IF Fixed(id) THEN End(id) ELSE now + Duration(id)
Begins(id) == Frame("start", id, list, 0, 0)

LEMMA HandleStartDoes ==
    ASSUME IInv, HandleStart
    PROVE  /\ Calling("handle") /\ ~HandlingEnded(Top.id)
           /\ UNCHANGED <<pending, list, state, asked, restarts, now>> /\ Listed' = Listed
           /\ depth' = [depth EXCEPT ![Object(Top.id)] = More(depth[Object(Top.id)])]
           /\ events' = events \cup {Event(Top.id, EndOf(Top.id))} /\ EndOf(Top.id) \in Nat
           /\ stack' = <<Begins(Top.id)>> \o Tail(stack)
           /\ Begins(Top.id) \in FrameRec /\ Begins(Top.id).proc = "start"
           /\ Begins(Top.id).id = Top.id /\ Begins(Top.id).todo = list
           /\ Effective' = Effective \cup {Top.id} /\ Ending' = Ending
           /\ entry' \in [Ids -> EntryRec]
           /\ entry'[Top.id].in_effect /\ entry'[Top.id].incremented = entry[Top.id].incremented
           /\ entry'[Top.id].trigger_time \in {entry[Top.id].trigger_time, now}
           /\ \A d \in Ids : d # Top.id => entry'[d] = entry[d]
<1> DEFINE id == Top.id
           p == Object(id)
           first == depth[p] = 0
           f == Begins(id)
<1>1. /\ Calling("handle") /\ ~HandlingEnded(id)
      /\ UNCHANGED <<pending, list, state, asked, restarts, now>>
      /\ entry' = [entry EXCEPT ![id] = Begun(entry[id], first)]
      /\ depth' = [depth EXCEPT ![p] = More(depth[p])]
      /\ events' = events \cup {Event(id, EndOf(id))}
      /\ stack' = <<f>> \o Tail(stack)
  BY Zenon DEF HandleStart, outside, Begins, EndOf, End, Duration
<1>2. /\ id \in Ids /\ entry[id] \in EntryRec
      /\ EndingIn(Tail(stack)) = Ending /\ id \notin Ending
  BY <1>1, HandleFacts
<1>3. Tail(stack) \in Seq(FrameRec)
  BY <1>1, TopFacts DEF IInv, Procs
<1>0. Types /\ Listed' = Listed
  BY <1>1 DEF IInv, Listed
<1>4. f \in FrameRec /\ f.proc = "start" /\ f.id = id /\ f.todo = list
  <2>1. list \in Seq(Ids) /\ "start" \in Running
    BY <1>0 DEF Types, Running
  <2> HIDE DEF id
  <2> QED BY <1>2, <2>1, RunningTypes DEF Begins
<1>5. EndOf(id) \in Nat
  <2>1. End(id) \in Nat /\ Duration(id) \in Nat /\ now \in Nat
    BY <1>0, <1>2, EventTypes, BoundAssumption DEF Types, Time
  <2> QED BY <2>1 DEF EndOf
<1> HIDE DEF id, p, f, first
<1>6. /\ entry' \in [Ids -> EntryRec]
      /\ entry'[id].in_effect /\ entry'[id].incremented = entry[id].incremented
      /\ entry'[id].trigger_time \in {entry[id].trigger_time, now}
      /\ \A d \in Ids : d # id => entry'[d] = entry[d]
  <2>1. entry \in [Ids -> EntryRec] /\ now \in Time
    BY <1>0 DEF Types
  <2> DEFINE r == Begun(entry[id], first)
  <2>2. /\ r \in EntryRec /\ r.in_effect /\ r.incremented = entry[id].incremented
        /\ r.trigger_time \in {entry[id].trigger_time, now}
    BY <1>2, <2>1, BegunFields
  <2>3. entry' = [entry EXCEPT ![id] = r]
    BY <1>1
  <2> HIDE DEF r
  <2> QED BY <1>2, <2>1, <2>2, <2>3
<1>7. Effective' = Effective \cup {id}
  BY <1>2, <1>6 DEF Effective, InEffect
<1>8. Ending' = Ending
  BY <1>1, <1>2, <1>3, <1>4, EndingPush, NoneEnding
<1> QED BY <1>0, <1>1, <1>4, <1>5, <1>6, <1>7, <1>8 DEF id, p, f

LEMMA HandleStartKeeps ==
    ASSUME IInv, HandleStart
    PROVE  IInv'
<1> DEFINE id == Top.id
           p == Object(id)
           end == EndOf(id)
           f == Begins(id)
<1>1. /\ Calling("handle")
      /\ UNCHANGED <<pending, list, state, asked, restarts, now>>
      /\ depth' = [depth EXCEPT ![p] = More(depth[p])]
      /\ events' = events \cup {Event(id, end)}
      /\ stack' = <<f>> \o Tail(stack)
  BY HandleStartDoes
<1>2. /\ id \in Ids /\ id \in Listed /\ id \in asked /\ p \in Objects /\ entry[id] \in EntryRec
      /\ Parent(id) = 0 \/ (Parent(id) \in Listed /\ InEffect(Parent(id)))
  BY <1>1, HandleFacts
<1>3. /\ Tail(stack) \in Seq(FrameRec) /\ stack \in Seq(FrameRec) /\ stack # <<>>
      /\ id = stack[1].id /\ stack[1].proc # "flex" /\ Frames(stack, Listed, Effective)
  BY <1>1, TopFacts DEF IInv, Procs
<1>0. Types /\ Listed' = Listed /\ Listed \subseteq Ids
  BY <1>1, ListedAreIds DEF IInv, Listed
<1>4. f \in FrameRec /\ f.proc = "start" /\ f.id = id
  BY HandleStartDoes
<1>5. end \in Nat /\ Effective' = Effective \cup {id} /\ Ending' = Ending
  BY HandleStartDoes
<1>6. /\ entry' \in [Ids -> EntryRec]
      /\ entry'[id].in_effect /\ entry'[id].incremented = entry[id].incremented
      /\ entry'[id].trigger_time \in {entry[id].trigger_time, now}
      /\ \A d \in Ids : d # id => entry'[d] = entry[d]
  BY HandleStartDoes
<1> HIDE DEF id, p, f, end
<1>9. StackInv'
  <2>1. id \in Effective \cup {id} /\ Effective \subseteq Effective \cup {id}
    OBVIOUS
  <2>2. Frames(<<f>> \o Tail(stack), Listed, Effective \cup {id})
    BY <1>2, <1>3, <1>4, <2>1, FramesTop DEF Running
  <2> QED BY <1>0, <1>1, <1>5, <2>2 DEF StackInv
<1>10. \A o \in Objects :
          /\ depth'[o] = IF o = p THEN More(depth[o]) ELSE depth[o]
          /\ depth[o] \in Int
  BY <1>0, <1>1 DEF Types
<1>11. Types'
  <2>1. depth' \in [Objects -> Int]
    BY <1>0, <1>1, <1>2, <1>10 DEF Types, More
  <2>2. stack' \in Seq(FrameRec)
    BY <1>1, <1>3, <1>4, Pushed
  <2>3. events' \subseteq EventRec
    BY <1>0, <1>1, <1>2, <1>5, EventTypes DEF Types
  <2> QED BY <1>0, <1>1, <1>6, <2>1, <2>2, <2>3 DEF Types
<1>12. ListInv'
  <2>1. \A d \in Ids \ Listed : entry'[d] = entry[d]
    BY <1>2, <1>6
  <2> QED BY <1>0, <1>1, <2>1 DEF IInv, ListInv
<1>13. \A d \in Ids : InEffect(d) => entry'[d].in_effect
  BY <1>6 DEF InEffect
<1>14. EventInv'
  <2> SUFFICES ASSUME NEW e \in events', e.kind = "DOWNTIME"
               PROVE  e.id \in asked' /\ (Parent(e.id) = 0 \/ (e.id \in Listed' => InEffect(e.id)'))
    BY DEF EventInv
  <2>1. CASE e \in events
    <3>1. e.id \in asked /\ (Parent(e.id) = 0 \/ (e.id \in Listed => InEffect(e.id)))
      BY <2>1 DEF IInv, EventInv
    <3> QED BY <1>0, <1>1, <1>13, <3>1 DEF InEffect
  <2>2. CASE e \notin events
    <3>1. e.id = id
      BY <1>1, <2>2 DEF Event
    <3> QED BY <1>1, <1>2, <1>6, <3>1 DEF InEffect
  <2> QED BY <2>1, <2>2
<1>15. TriggeredWithin'
  <2> SUFFICES ASSUME NEW d \in Listed, entry'[d].in_effect, Parent(d) # 0
               PROVE  Parent(d) \in Listed /\ entry'[Parent(d)].in_effect
    BY <1>0 DEF TriggeredWithin, InEffect
  <2>1. CASE d = id
    BY <1>0, <1>2, <1>13, <2>1
  <2>2. CASE d # id
    <3>1. InEffect(d)
      BY <1>0, <1>6, <2>2 DEF InEffect
    <3>2. Parent(d) \in Listed /\ InEffect(Parent(d))
      BY <3>1 DEF IInv, TriggeredWithin
    <3> QED BY <1>0, <1>13, <3>2
  <2> QED BY <2>1, <2>2
<1>16. PendingInv'
  <2>1. \A o \in Objects : WaitingOf(o)' = WaitingOf(o)
    <3> TAKE o \in Objects
    <3>1. \A d \in Listed : entry'[d].incremented = entry[d].incremented
      BY <1>0, <1>6
    <3> QED BY <1>0, <1>5, <3>1 DEF WaitingOf
  <2> QED BY <1>1, <2>1 DEF IInv, PendingInv
<1>17. DepthInv'
  <2> SUFFICES ASSUME NEW o \in Objects
               PROVE  depth'[o] <= MaxCount /\ depth'[o] + Cardinality(GoneOf(o)') >= 0
    BY DEF DepthInv
  <2>1. GoneOf(o)' = GoneOf(o) /\ GoneOf(o) \in SUBSET Ids
    BY <1>0, <1>1, <1>5 DEF GoneOf, Types
  <2>2. Cardinality(GoneOf(o)) \in Nat
    BY <2>1, Countable
  <2>3. depth[o] <= MaxCount /\ depth[o] + Cardinality(GoneOf(o)) >= 0 /\ MaxCount \in Nat
    BY BoundAssumption DEF IInv, DepthInv
  <2>4. depth'[o] \in {depth[o], More(depth[o])} /\ depth[o] \in Int
    BY <1>10
  <2> QED BY <2>1, <2>2, <2>3, <2>4 DEF More
<1>18. TimeInv'
  <2>1. now \in Int /\ now <= now
    BY <1>0, BoundAssumption DEF Types, Time
  <2> QED BY <1>1, <1>6, <2>1 DEF IInv, TimeInv
<1> QED BY <1>9, <1>11, <1>12, <1>14, <1>15, <1>16, <1>17, <1>18 DEF IInv

---------------------------------------------------------------------------------

\* A call that ends no downtime returns.
LEMMA ReturnKeeps ==
    ASSUME IInv, NEW proc \in {"start", "flex"}, Calling(proc), stack' = Tail(stack),
           UNCHANGED <<counters, downtimes, outside, events, now>>
    PROVE  IInv'
<1> USE DEF counters, downtimes, outside
<1>0. Types /\ Listed' = Listed /\ Effective' = Effective /\ SameEntries
  BY SameIsSame DEF IInv, Listed
<1>1. /\ stack' \in Seq(FrameRec) /\ Frames(stack', Listed, Effective) /\ Ending' = Ending
  BY TopFacts, EndingPop, NoneEnding DEF IInv, Procs
<1>2. SameCounts
  BY <1>0, <1>1 DEF SameCounts, SameEntries
<1>3. Types' /\ ListInv' /\ EventInv' /\ TimeInv'
  BY <1>0, <1>1 DEF IInv, Types, ListInv, EventInv, TimeInv, InEffect
<1>4. StackInv'
  BY <1>0, <1>1 DEF StackInv
<1>5. TriggeredWithin' /\ PendingInv' /\ DepthInv'
  BY <1>2, CountsStay DEF IInv
<1> QED BY <1>3, <1>4, <1>5 DEF IInv

\* Two calls are pushed one after the other.
LEMMA PushedTwo ==
    ASSUME NEW S, NEW s \in Seq(S), NEW a \in S, NEW b \in S
    PROVE  <<a, b>> \o s = <<a>> \o (<<b>> \o s)
<1>1. <<a>> \in Seq(S) /\ <<b>> \in Seq(S)
  OBVIOUS
<1>3. <<a>> \o <<b>> = <<a, b>>
  <2> DEFINE t == <<a>> \o <<b>>
             u == <<a, b>>
  <2>1. t \in Seq(S) /\ Len(t) = 2 /\ t[1] = a /\ t[2] = b
    OBVIOUS
  <2>2. u \in Seq(S) /\ Len(u) = 2 /\ u[1] = a /\ u[2] = b
    OBVIOUS
  <2> HIDE DEF t, u
  <2>3. \A i \in 1..Len(t) : t[i] = u[i]
    BY <2>1, <2>2
  <2>4. t = u
    BY <2>1, <2>2, <2>3, SeqEqual
  <2> QED BY <2>4 DEF t, u
<1>2. (<<a>> \o <<b>>) \o s = <<a>> \o (<<b>> \o s)
  BY <1>1, ConcatAssociative
<1> QED BY <1>2, <1>3

\* What the loop over a sequence that found a downtime at a place has before it.
Resumes(rest, q, c) ==
    /\ rest \in Seq(Ids) /\ Range(rest) \subseteq Range(q) /\ c \in Range(q)
    /\ IsInjective(q) => IsInjective(rest) /\ c \notin Range(rest)

LEMMA AfterResumes ==
    ASSUME NEW q \in Seq(Ids), NEW k \in DOMAIN q
    PROVE  Resumes(After(q, k), q, q[k])
<1> DEFINE r == After(q, k)
<1>1. Len(q) \in Nat /\ k \in 1..Len(q) /\ DOMAIN q = 1..Len(q) /\ \A i \in 1..Len(q) : q[i] \in Ids
  BY Places
<1>2. k + 1 \in Int /\ Len(q) \in Int /\ \A i \in k + 1..Len(q) : q[i] \in Ids
  BY <1>1
<1>3. /\ r \in Seq(Ids) /\ Len(r) = IF k + 1 <= Len(q) THEN Len(q) - (k + 1) + 1 ELSE 0
      /\ \A i \in 1..Len(q) - (k + 1) + 1 : r[i] = q[k + 1 + i - 1]
  BY <1>2, SubSeqProperties DEF After
<1> HIDE DEF r
<1>4. DOMAIN r = 1..Len(r) /\ Len(r) \in Nat
  BY <1>3, Places
<1>5. \A i \in DOMAIN r : i + k \in DOMAIN q /\ r[i] = q[i + k] /\ i + k # k
  <2> SUFFICES ASSUME NEW i \in DOMAIN r
               PROVE  i + k \in DOMAIN q /\ r[i] = q[i + k] /\ i + k # k
    OBVIOUS
  <2>1. i \in 1..Len(q) - (k + 1) + 1 /\ i + k \in 1..Len(q) /\ k + 1 + i - 1 = i + k /\ i + k # k
    BY <1>1, <1>3, <1>4
  <2> QED BY <1>1, <1>3, <2>1
<1>6. Range(r) \subseteq Range(q) /\ q[k] \in Range(q)
  BY <1>5 DEF Range
<1>7. ASSUME IsInjective(q) PROVE IsInjective(r) /\ q[k] \notin Range(r)
  <2>1. q[k] \notin Range(r)
    BY <1>5, <1>7 DEF IsInjective, Range
  <2>2. ASSUME NEW i \in DOMAIN r, NEW j \in DOMAIN r, r[i] = r[j] PROVE i = j
    <3>1. i + k = j + k
      BY <1>5, <1>7, <2>2 DEF IsInjective
    <3> QED BY <1>1, <1>4, <3>1
  <2> QED BY <2>1, <2>2 DEF IsInjective
<1> QED BY <1>3, <1>6, <1>7 DEF Resumes, r

\* The downtime of the loop over a sequence that is found first.
LEMMA FoundIn ==
    ASSUME NEW q \in Seq(Ids), NEW S \in SUBSET Ids, NEW k,
           ~(\A i \in DOMAIN q : q[i] \notin S),
           k = CHOOSE i \in DOMAIN q : q[i] \in S /\ \A j \in 1..i - 1 : q[j] \notin S
    PROVE  k \in DOMAIN q /\ q[k] \in S /\ Resumes(After(q, k), q, q[k])
<1>1. \E i \in DOMAIN q : q[i] \in S /\ \A j \in 1..i - 1 : q[j] \notin S
  BY FirstFound
<1>2. k \in DOMAIN q /\ q[k] \in S
  BY <1>1
<1> QED BY <1>2, AfterResumes

\* The loop that starts what a downtime triggers calls for one of them, and goes on
\* behind it.
Goes(id, rest, c) == Frame("start", id, rest, c, 0)

LEMMA StartNextDoes ==
    ASSUME IInv, StartNext
    PROVE  /\ Calling("start")
           /\ UNCHANGED <<counters, downtimes, outside, events, now>>
           /\ \E c \in Listed, rest \in Seq(Ids) :
                 /\ Parent(c) = Top.id /\ Resumes(rest, Top.todo, c)
                 /\ stack' = <<Call(c), Goes(Top.id, rest, c)>> \o Tail(stack)
<1> DEFINE S == {d \in Listed : Parent(d) = Top.id}
           k == CHOOSE i \in DOMAIN Top.todo :
                   Top.todo[i] \in S /\ \A j \in 1..i - 1 : Top.todo[j] \notin S
           c == Top.todo[k]
<1>1. /\ Calling("start") /\ ~(\A i \in DOMAIN Top.todo : Top.todo[i] \notin S)
      /\ stack' = <<Call(c), Goes(Top.id, After(Top.todo, k), c)>> \o Tail(stack)
      /\ UNCHANGED <<counters, downtimes, outside, events, now>>
  <2>1. \A d : d \in Listed /\ Parent(d) = Top.id <=> d \in S
    OBVIOUS
  <2> HIDE DEF S
  <2> QED BY <2>1, Zenon DEF StartNext, FirstAt, None, Goes
<1>2. Top.todo \in Seq(Ids) /\ S \in SUBSET Ids
  BY <1>1, TopFacts, ListedAreIds DEF IInv, Procs
<1>3. c \in S /\ Resumes(After(Top.todo, k), Top.todo, c)
  <2> HIDE DEF S
  <2> QED BY <1>1, <1>2, FoundIn
<1>4. c \in Listed /\ Parent(c) = Top.id
  BY <1>3
<1> HIDE DEF c, k, S
<1>5. After(Top.todo, k) \in Seq(Ids)
  BY <1>3 DEF Resumes
<1> QED BY <1>1, <1>3, <1>4, <1>5

\* The call that goes on with its loop.
LEMMA LoopTypes ==
    ASSUME NEW id \in Ids, NEW rest \in Seq(Ids), NEW c \in Ids
    PROVE  /\ Goes(id, rest, c) \in FrameRec /\ Goes(id, rest, c).proc = "start"
           /\ Goes(id, rest, c).id = id /\ Goes(id, rest, c).todo = rest
BY DEF Goes, Frame, FrameRec, Procs

GoesTypes(f, rest) == f \in FrameRec /\ f.proc = "start" /\ f.id = Top.id /\ f.todo = rest
Looping(s, f) ==
    /\ s \in Seq(FrameRec) /\ s # <<>> /\ s[1] = f
    /\ Frames(s, Listed, Effective) /\ EndingIn(s) = Ending

LEMMA LoopFacts ==
    ASSUME IInv, Calling("start"), NEW c \in Listed, NEW rest \in Seq(Ids)
    PROVE  /\ GoesTypes(Goes(Top.id, rest, c), rest)
           /\ Looping(<<Goes(Top.id, rest, c)>> \o Tail(stack), Goes(Top.id, rest, c))
           /\ <<Call(c), Goes(Top.id, rest, c)>> \o Tail(stack) =
                 <<Call(c)>> \o (<<Goes(Top.id, rest, c)>> \o Tail(stack))
<1> DEFINE f == Goes(Top.id, rest, c)
           s == <<f>> \o Tail(stack)
<1>1. /\ stack \in Seq(FrameRec) /\ stack # <<>> /\ Chain(stack) /\ Frames(stack, Listed, Effective)
      /\ stack[1].proc = "start" /\ stack[1].id = Top.id
      /\ Top.id \in Ids /\ Top.id \in Effective /\ Tail(stack) \in Seq(FrameRec) /\ c \in Ids
  BY TopFacts, ListedAreIds DEF IInv, Procs, Running
<1>2. f \in FrameRec /\ f.proc = "start" /\ f.id = Top.id /\ f.todo = rest
  BY <1>1, LoopTypes
<1> HIDE DEF f
<1>3. s \in Seq(FrameRec) /\ s # <<>> /\ s[1] = f
  <2>1. s \in Seq(FrameRec) /\ s[1] = f /\ Len(s) = Len(Tail(stack)) + 1
    BY <1>1, <1>2, Pushed
  <2>2. Len(Tail(stack)) \in Nat
    BY <1>1, Places
  <2> HIDE DEF s
  <2> QED BY <2>1, <2>2, Places
<1>4. Frames(s, Listed, Effective)
  BY <1>1, <1>2, FramesTop DEF Running
<1>5. EndingIn(s) = Ending
  BY <1>1, <1>2, EndingPush, EndingPop, NoneEnding
<1>6. <<Call(c), f>> \o Tail(stack) = <<Call(c)>> \o s
  BY <1>1, <1>2, FrameTypes, PushedTwo
<1>7. GoesTypes(f, rest) /\ Looping(s, f)
  <2> HIDE DEF s
  <2> QED BY <1>2, <1>3, <1>4, <1>5 DEF GoesTypes, Looping
<1> QED BY <1>6, <1>7 DEF f

LEMMA StartNextKeeps ==
    ASSUME IInv, StartNext
    PROVE  IInv'
<1>1. Calling("start") /\ UNCHANGED <<counters, downtimes, outside, events, now>>
  BY StartNextDoes
<1>2. PICK c \in Listed, rest \in Seq(Ids) :
         /\ Parent(c) = Top.id
         /\ stack' = <<Call(c), Goes(Top.id, rest, c)>> \o Tail(stack)
  BY StartNextDoes
<1> DEFINE f == Goes(Top.id, rest, c)
           s == <<f>> \o Tail(stack)
<1>3. /\ s \in Seq(FrameRec) /\ s # <<>> /\ Frames(s, Listed, Effective) /\ EndingIn(s) = Ending
      /\ s[1].proc = "start" /\ s[1].id = Top.id /\ stack' = <<Call(c)>> \o s
  <2>1. GoesTypes(f, rest) /\ Looping(s, f) /\ stack' = <<Call(c)>> \o s
    BY <1>1, <1>2, LoopFacts
  <2> HIDE DEF f, s
  <2> QED BY <2>1 DEF GoesTypes, Looping
<1> HIDE DEF s
<1> QED BY <1>1, <1>2, <1>3, CallKeeps DEF Running

\* The search for flexible downtimes calls for one, and goes on behind it.
LEMMA FlexNextDoes ==
    ASSUME IInv, FlexNext
    PROVE  /\ Calling("flex")
           /\ UNCHANGED <<depth, pending, list, state, asked, restarts, events, now>>
           /\ Tail(stack) = <<>> /\ Top \in FrameRec /\ Top.proc = "flex"
           /\ \E c \in Listed, rest \in Seq(Ids) :
                 /\ Starts(c) /\ Resumes(rest, Top.todo, c)
                 /\ entry' = [entry EXCEPT ![c].start_flex = TRUE]
                 /\ stack' = <<Call(c)>> \o <<[Top EXCEPT !.todo = rest]>>
<1> DEFINE S == {d \in Listed : Starts(d)}
           k == CHOOSE i \in DOMAIN Top.todo :
                   Top.todo[i] \in S /\ \A j \in 1..i - 1 : Top.todo[j] \notin S
           c == Top.todo[k]
           f == [Top EXCEPT !.todo = After(Top.todo, k)]
<1>1. /\ Calling("flex") /\ ~(\A i \in DOMAIN Top.todo : Top.todo[i] \notin S)
      /\ entry' = [entry EXCEPT ![c].start_flex = TRUE]
      /\ stack' = <<Call(c), f>> \o Tail(stack)
      /\ UNCHANGED <<depth, pending, list, state, asked, restarts, events, now>>
  <2>1. \A d : Starts(d) <=> d \in S
    BY DEF Starts
  <2> HIDE DEF S
  <2> QED BY <2>1, Zenon DEF FlexNext, FirstAt, None, counters, outside
<1>2. /\ stack \in Seq(FrameRec) /\ stack # <<>> /\ Chain(stack) /\ Top = stack[1]
      /\ Top \in FrameRec /\ Top.proc = "flex" /\ Top.todo \in Seq(Ids)
  BY <1>1, TopFacts DEF IInv, Procs
<1>3. S \in SUBSET Ids
  BY ListedAreIds DEF IInv
<1>4. c \in S /\ Resumes(After(Top.todo, k), Top.todo, c)
  <2> HIDE DEF S
  <2> QED BY <1>1, <1>2, <1>3, FoundIn
<1>5. c \in Listed /\ Starts(c)
  BY <1>4
<1>6. Tail(stack) = <<>>
  BY <1>2, FlexAlone
<1>7. stack' = <<Call(c)>> \o <<f>>
  <2>1. <<Call(c), f>> \o <<>> = <<Call(c)>> \o <<f>>
    OBVIOUS
  <2> QED BY <1>1, <1>6, <2>1
<1> HIDE DEF c, k, S
<1>8. After(Top.todo, k) \in Seq(Ids)
  BY <1>4 DEF Resumes
<1> QED BY <1>1, <1>2, <1>4, <1>5, <1>6, <1>7, <1>8

LEMMA FlexTypes ==
    ASSUME NEW f \in FrameRec, NEW rest \in Seq(Ids)
    PROVE  /\ [f EXCEPT !.todo = rest] \in FrameRec
           /\ [f EXCEPT !.todo = rest].proc = f.proc
           /\ [f EXCEPT !.todo = rest].todo = rest
BY DEF FrameRec

\* Only start_flex changes.
LEMMA FlexEntries ==
    ASSUME Types, NEW c \in Ids, entry' = [entry EXCEPT ![c].start_flex = TRUE]
    PROVE  entry' \in [Ids -> EntryRec] /\ SameEntries /\ \A d \in Ids \ {c} : entry'[d] = entry[d]
<1>1. entry \in [Ids -> EntryRec] /\ entry[c] \in EntryRec
  BY DEF Types
<1> DEFINE r == [entry[c] EXCEPT !.start_flex = TRUE]
<1>2. /\ r \in EntryRec /\ r.in_effect = entry[c].in_effect
      /\ r.incremented = entry[c].incremented /\ r.trigger_time = entry[c].trigger_time
  BY <1>1 DEF EntryRec
<1>3. entry' = [entry EXCEPT ![c] = r]
  OBVIOUS
<1> HIDE DEF r
<1> QED BY <1>1, <1>2, <1>3 DEF SameEntries

\* The call for a flexible downtime: no downtime is ending.
LEMMA FlexStack ==
    ASSUME IInv, Calling("flex"), NEW c \in Listed, Parent(c) = 0, NEW f \in FrameRec, f.proc = "flex",
           Tail(stack) = <<>>, stack' = <<Call(c)>> \o <<f>>
    PROVE  /\ stack' \in Seq(FrameRec) /\ Frames(stack', Listed, Effective) /\ Ending' = Ending
           /\ <<f>> \in Seq(FrameRec) /\ <<f>> # <<>> /\ <<f>>[1] = f
<1>1. /\ stack \in Seq(FrameRec) /\ stack # <<>> /\ Chain(stack) /\ stack[1].proc = "flex" /\ c \in Ids
  BY TopFacts, ListedAreIds DEF IInv, Procs
<1>2. <<f>> \in Seq(FrameRec) /\ Frames(<<f>>, Listed, Effective) /\ <<f>> # <<>> /\ <<f>>[1] = f
  BY OneFrame
<1>3. Call(c) \in FrameRec /\ Call(c).proc = "handle" /\ Call(c).id = c
  BY <1>1, FrameTypes
<1>4. Outer(Call(c), f)
  BY <1>3 DEF Outer
<1>5. stack' \in Seq(FrameRec) /\ Frames(stack', Listed, Effective)
  BY <1>1, <1>2, <1>3, <1>4, Pushed, FramesPush
<1>6. Ending' = Ending
  <2>1. EndingIn(<<f>>) = {}
    BY DEF EndingIn
  <2>2. EndingIn(stack') = {}
    BY <1>2, <1>3, <2>1, EndingPush
  <2>3. EndingIn(stack) = {}
    BY <1>1, EndingPop, NoneEnding
  <2> QED BY <2>2, <2>3, NoneEnding
<1> QED BY <1>2, <1>5, <1>6

LEMMA FlexNextKeeps ==
    ASSUME IInv, FlexNext
    PROVE  IInv'
<1>1. /\ Calling("flex") /\ UNCHANGED <<depth, pending, list, state, asked, restarts, events, now>>
      /\ Tail(stack) = <<>> /\ Top \in FrameRec /\ Top.proc = "flex"
  BY FlexNextDoes
<1>2. PICK c \in Listed, rest \in Seq(Ids) :
         /\ Starts(c) /\ entry' = [entry EXCEPT ![c].start_flex = TRUE]
         /\ stack' = <<Call(c)>> \o <<[Top EXCEPT !.todo = rest]>>
  BY FlexNextDoes
<1>0. Types /\ Listed' = Listed /\ Listed \subseteq Ids /\ c \in Ids /\ Parent(c) = 0
  BY <1>1, <1>2, ListedAreIds DEF IInv, Listed, Starts
<1>10. stack' \in Seq(FrameRec) /\ Frames(stack', Listed, Effective) /\ Ending' = Ending
  <2> DEFINE f == [Top EXCEPT !.todo = rest]
  <2>1. f \in FrameRec /\ f.proc = "flex"
    BY <1>1, FlexTypes
  <2>2. stack' = <<Call(c)>> \o <<f>>
    BY <1>2
  <2> HIDE DEF f
  <2> QED BY <1>0, <1>1, <2>1, <2>2, FlexStack
<1>12. entry' \in [Ids -> EntryRec] /\ SameEntries /\ \A d \in Ids \ {c} : entry'[d] = entry[d]
  BY <1>0, <1>2, FlexEntries
<1>13. SameCounts /\ Effective' = Effective
  BY <1>1, <1>10, <1>12 DEF SameCounts, SameEntries, Effective, InEffect
<1>14. Types'
  BY <1>0, <1>1, <1>10, <1>12 DEF Types
<1>15. ListInv'
  BY <1>0, <1>1, <1>12 DEF IInv, ListInv
<1>16. EventInv' /\ TimeInv'
  BY <1>0, <1>1, <1>12 DEF IInv, EventInv, TimeInv, InEffect, SameEntries
<1>17. StackInv'
  BY <1>0, <1>10, <1>13 DEF StackInv
<1>18. TriggeredWithin' /\ PendingInv' /\ DepthInv'
  BY <1>13, CountsStay DEF IInv
<1> QED BY <1>14, <1>15, <1>16, <1>17, <1>18 DEF IInv

---------------------------------------------------------------------------------
(* The theorems *)

LEMMA InitIInv == Init => IInv
<1> SUFFICES ASSUME Init PROVE IInv
  OBVIOUS
<1> USE DEF Init
<1>1. Blank \in EntryRec /\ Blank.trigger_time = 0 /\ ~Blank.in_effect /\ ~Blank.incremented
  BY BoundAssumption DEF Blank, EntryRec, Time
<1>2. list = <<>> /\ Listed = {} /\ stack = <<>> /\ Ending = {}
  BY NoneEnding DEF Listed, Range
<1>3. Types
  <2>1. 0 \in Time /\ 0 \in 0..MaxRestarts
    BY BoundAssumption DEF Time
  <2>2. <<>> \in Seq(Ids) /\ <<>> \in Seq(FrameRec)
    BY EmptySeq
  <2> QED BY <1>1, <2>1, <2>2 DEF Types
<1>4. ListInv /\ EventInv /\ TriggeredWithin /\ TimeInv
  BY <1>1, <1>2 DEF ListInv, EventInv, TriggeredWithin, TimeInv, Ordered, IsInjective
<1>5. StackInv
  BY <1>2, NoFrames DEF StackInv
<1>6. \A o \in Objects : WaitingOf(o) = {} /\ GoneOf(o) = {}
  BY <1>2 DEF WaitingOf, GoneOf
<1>7. PendingInv /\ DepthInv
  <2>1. Cardinality({}) = 0
    BY FS_EmptySet
  <2>2. \A o \in Objects : Cardinality(WaitingOf(o)) = 0 /\ Cardinality(GoneOf(o)) = 0
    BY <1>6, <2>1
  <2> QED BY <2>2, BoundAssumption DEF PendingInv, DepthInv
<1> QED BY <1>3, <1>4, <1>5, <1>7 DEF IInv

LEMMA StepIInv == IInv /\ [Next]_vars => IInv'
<1> SUFFICES ASSUME IInv, [Next]_vars PROVE IInv'
  OBVIOUS
<1>1. ASSUME NEW id \in Ids, Schedule(id) PROVE IInv'
  BY <1>1, ScheduleKeeps
<1>2. ASSUME NEW id \in Ids, Unschedule(id) PROVE IInv'
  BY <1>2, UnscheduleKeeps
<1>3. ASSUME NEW e \in events, RunScheduled(e) PROVE IInv'
  BY <1>3, RunScheduledKeeps
<1>4. ASSUME NEW e \in events, RunExpire(e) PROVE IInv'
  BY <1>4, RunExpireKeeps
<1>5. CASE HandleWaits
  BY <1>5, HandleWaitsKeeps
<1>6. CASE HandleStop
  BY <1>6, HandleStopKeeps
<1>7. CASE StopNext
  BY <1>7, StopNextKeeps
<1>8. CASE StopDone
  BY <1>8, StopDoneKeeps
<1>9. CASE HandleStart
  BY <1>9, HandleStartKeeps
<1>10. CASE StartNext
  BY <1>10, StartNextKeeps
<1>11. CASE StartDone
  BY <1>11, ReturnKeeps DEF StartDone
<1>12. CASE FlexNext
  BY <1>12, FlexNextKeeps
<1>13. CASE FlexDone
  BY <1>13, ReturnKeeps DEF FlexDone
<1>14. ASSUME NEW o \in Objects, NEW new \in {"OK", "SOFT", "HARD"}, CheckResult(o, new)
       PROVE  IInv'
  BY <1>14, CheckResultKeeps
<1>15. CASE Restart
  BY <1>15, RestartKeeps
<1>16. CASE Tick
  BY <1>16, TickKeeps
<1>17. CASE UNCHANGED vars
  <2> USE <1>17 DEF vars, counters, downtimes, outside
  <2>1. Types' /\ ListInv' /\ EventInv' /\ TimeInv' /\ Listed' = Listed /\ Effective' = Effective
    BY SameIsSame DEF IInv, Types, ListInv, EventInv, TimeInv, InEffect, Listed
  <2>2. StackInv'
    BY <2>1 DEF IInv, StackInv
  <2>3. SameCounts
    BY NoneEnding DEF SameCounts
  <2>4. TriggeredWithin' /\ PendingInv' /\ DepthInv'
    BY <2>3, CountsStay DEF IInv
  <2> QED BY <2>1, <2>2, <2>4 DEF IInv
<1> QED
  BY <1>1, <1>2, <1>3, <1>4, <1>5, <1>6, <1>7, <1>8, <1>9, <1>10, <1>11, <1>12, <1>13,
     <1>14, <1>15, <1>16, <1>17
  DEF Next, Command, RunEvent, Handler

LEMMA Invariant == Spec => []IInv
BY InitIInv, StepIInv, PTL DEF Spec

---------------------------------------------------------------------------------
(* Theorems *)

\* depth and pending stay within the bounds of the type, because each downtime that
\* is gone was counted down at most once.
LEMMA WithinBounds ==
    ASSUME IInv, NEW o \in Objects
    PROVE  /\ depth[o] \in -MaxCount..MaxCount /\ pending[o] \in 0..MaxCount
           /\ Cardinality(WaitingOf(o)) \in Nat
<1>1. depth[o] \in Int /\ pending[o] \in Int /\ MaxCount \in Nat
  BY BoundAssumption DEF IInv, Types
<1>2. WaitingOf(o) \in SUBSET Ids /\ GoneOf(o) \in SUBSET Ids
  BY ListedAreIds DEF IInv, Types, WaitingOf, GoneOf
<1>3. /\ Cardinality(WaitingOf(o)) \in Nat /\ Cardinality(GoneOf(o)) \in Nat
      /\ Cardinality(GoneOf(o)) <= MaxCount
  BY <1>2, Countable
<1>4. /\ pending[o] <= MaxCount /\ pending[o] >= Cardinality(WaitingOf(o))
      /\ depth[o] <= MaxCount /\ depth[o] + Cardinality(GoneOf(o)) >= 0
  BY DEF IInv, PendingInv, DepthInv
<1> QED BY <1>1, <1>3, <1>4

\* The fields of downtimes, calls and events have their types, the list is in order of
\* time without a downtime twice, and no counter leaves its bounds.
THEOREM TypeCorrect == Spec => []TypeOK
<1>1. IInv => TypeOK
  <2> SUFFICES ASSUME IInv PROVE TypeOK
    OBVIOUS
  <2>1. /\ depth \in [Objects -> -MaxCount..MaxCount]
        /\ pending \in [Objects -> 0..MaxCount]
    <3>1. depth \in [Objects -> Int] /\ pending \in [Objects -> Int]
      BY DEF IInv, Types
    <3> QED BY <3>1, WithinBounds
  <2>2. /\ Range(list) \subseteq Ids /\ IsInjective(list)
        /\ \A i, j \in DOMAIN list :
              i < j => Downtimes[list[i]].start <= Downtimes[list[j]].start
    BY ListedAreIds DEF IInv, ListInv, Ordered, Listed, Start
  <2>3. \A e \in events : e.kind \in {"DOWNTIME", "EXPIRE"} /\ e.at \in Nat
    BY DEF IInv, Types, EventRec
  <2>4. \A i \in DOMAIN stack : stack[i].proc \in {"handle", "start", "stop", "flex"}
    <3>1. \A i \in DOMAIN stack : stack[i] \in FrameRec
      BY Places DEF IInv, Types
    <3> QED BY <3>1 DEF FrameRec, Procs
  <2> QED BY <2>1, <2>2, <2>3, <2>4 DEF IInv, Types, TypeOK, EntryRec
<1> QED BY Invariant, <1>1, PTL

\* A downtime that another triggers is in effect only while that one is, whatever is
\* scheduled, deleted, ended, expired or restarted, and in the middle of the calls that
\* start and end both.
THEOREM TriggeredAlwaysWithin == Spec => []TriggeredWithin
<1>1. IInv => TriggeredWithin
  BY DEF IInv
<1> QED BY Invariant, <1>1, PTL

\* pending_flex_downtime counts at least the flexible downtimes that wait, so a service
\* never skips the search for one that its problem starts.
THEOREM WaitingAlwaysCounted == Spec => []WaitingIsCounted
<1>1. IInv => WaitingIsCounted
  <2> SUFFICES ASSUME IInv, NEW o \in Objects
               PROVE  pending[o] >= Cardinality({id \in Listed :
                          Object(id) = o /\ entry[id].incremented /\ ~InEffect(id)})
    BY DEF WaitingIsCounted
  <2> DEFINE S == {id \in Listed : Object(id) = o /\ entry[id].incremented /\ ~InEffect(id)}
  <2>1. \A d \in Ending : InEffect(d)
    <3> SUFFICES ASSUME NEW i \in DOMAIN stack, stack[i].proc = "stop"
                 PROVE  InEffect(stack[i].id)
      BY DEF Ending
    <3>1. i \in 1..Len(stack)
      BY Places DEF IInv, Types
    <3> QED BY <3>1 DEF IInv, StackInv, Frames, Running, Effective
  <2>2. S \subseteq WaitingOf(o) /\ WaitingOf(o) \in SUBSET Ids /\ S \in SUBSET Ids
    BY <2>1, ListedAreIds DEF IInv, WaitingOf
  <2> HIDE DEF S
  <2>3. Cardinality(S) <= Cardinality(WaitingOf(o)) /\ Cardinality(S) \in Nat
    BY <2>2, CountFewer, Countable
  <2>4. /\ Cardinality(WaitingOf(o)) \in Nat /\ pending[o] \in Int
        /\ pending[o] >= Cardinality(WaitingOf(o))
    <3>1. pending[o] \in Int
      BY DEF IInv, Types
    <3> QED BY <3>1, WithinBounds DEF IInv, PendingInv
  <2>5. pending[o] >= Cardinality(S)
    BY <2>3, <2>4
  <2> QED BY <2>5 DEF S
<1> QED BY Invariant, <1>1, PTL

---------------------------------------------------------------------------------
(* The depth is the number of downtimes in effect *)

\* What is triggered is fixed and ends no later than what triggers it, and a flexible
\* downtime is of a service that has no other.  Otherwise a downtime may be started
\* twice, and is counted twice then: a triggered one that outlives its trigger, by the
\* loop that ends the trigger, and a host's flexible one, by a check result that comes
\* before its own event.
Plain ==
    \A id \in Ids :
        /\ Parent(id) # 0 => /\ Fixed(id) /\ Fixed(Parent(id))
                             /\ End(id) <= End(Parent(id))
        /\ ~Fixed(id) => /\ Object(id) \notin Hosts
                         /\ \A d \in Ids : ~Fixed(d) /\ Object(d) = Object(id) => d = id

Finish(id) == IF Fixed(id) THEN End(id) ELSE entry[id].trigger_time + Duration(id)

\* The downtimes that are over if they are in effect, those that have no event, and
\* those that were counted as waiting.
Due == {id \in Ids : now >= Finish(id)}
Quiet == {id \in Ids : \A e \in events : e.kind = "DOWNTIME" => e.id # id}
Counted == {id \in Ids : entry[id].incremented}

\* A downtime in effect has events only for its end, another one only for its start, and
\* none once it waits.
EventsOnce ==
    \A e \in events : e.kind = "DOWNTIME" /\ e.id \in Listed =>
        IF InEffect(e.id) THEN e.at >= Finish(e.id)
                          ELSE e.at = Start(e.id) /\ ~entry[e.id].incremented

\* A call for a downtime that is in effect, E, ends it, because it is due, D, and one
\* that starts a downtime leaves it without another event, Q.  The loop over the list, L,
\* that starts what a downtime triggers finds none that is in effect, and the search for
\* flexible ones finds those that wait, C.
Good(f, L, E, D, Q, C) ==
    /\ f.proc = "handle" => IF f.id \in E THEN f.id \in D ELSE f.id \in Q
    /\ f.proc = "stop" => f.id \in D
    /\ f.proc = "start" =>
          /\ IsInjective(f.todo)
          /\ \A c \in Range(f.todo) \cap L : Parent(c) = f.id => c \notin E
    /\ f.proc = "flex" => \A c \in Range(f.todo) \cap L : ~Fixed(c) => c \in C

\* The loop does not come again to the downtime it has called for.
Apart(f, g) == g.proc = "start" => f.id \notin Range(g.todo)

Calls(s, L, E, D, Q, C) ==
    /\ \A i \in 1..Len(s) : Good(s[i], L, E, D, Q, C)
    /\ \A i \in 1..Len(s) - 1 : Apart(s[i], s[i + 1])

CallsInv == Calls(stack, Listed, Effective, Due, Quiet, Counted)

\* An object has one flexible downtime, so if one waits that one does.
PendingMeansWaiting ==
    \A d \in Ids : ~Fixed(d) /\ pending[Object(d)] > 0 =>
        d \in asked /\ (d \in Listed => entry[d].incremented)

DepthIsCount == \A o \in Objects : depth[o] = Cardinality(EffectiveOf(o))

CountInv == EventsOnce /\ CallsInv /\ PendingMeansWaiting /\ DepthIsCount

---------------------------------------------------------------------------------

LEMMA CallsNone ==
    ASSUME NEW L, NEW E, NEW D, NEW Q, NEW C
    PROVE  Calls(<<>>, L, E, D, Q, C)
<1>1. Len(<<>>) = 0
  BY EmptySeq
<1> QED BY <1>1 DEF Calls

LEMMA CallsOne ==
    ASSUME NEW f \in FrameRec, NEW L, NEW E, NEW D, NEW Q, NEW C, Good(f, L, E, D, Q, C)
    PROVE  Calls(<<f>>, L, E, D, Q, C)
<1>1. Len(<<f>>) = 1 /\ <<f>>[1] = f
  OBVIOUS
<1>2. \A i \in 1..Len(<<f>>) : <<f>>[i] = f
  BY <1>1
<1>3. 1..Len(<<f>>) - 1 = {}
  BY <1>1
<1> QED BY <1>2, <1>3 DEF Calls

LEMMA CallsPop ==
    ASSUME NEW s \in Seq(FrameRec), s # <<>>, NEW L, NEW E, NEW D, NEW Q, NEW C,
           Calls(s, L, E, D, Q, C)
    PROVE  Calls(Tail(s), L, E, D, Q, C)
<1> DEFINE t == Tail(s)
<1>1. Len(t) = Len(s) - 1 /\ (\A i \in 1..Len(s) - 1 : t[i] = s[i + 1]) /\ Len(s) \in Nat
  BY Popped, Places
<1> HIDE DEF t
<1>2. ASSUME NEW i \in 1..Len(t) PROVE Good(t[i], L, E, D, Q, C)
  <2>1. t[i] = s[i + 1] /\ i + 1 \in 1..Len(s)
    BY <1>1
  <2> QED BY <2>1 DEF Calls
<1>3. ASSUME NEW i \in 1..Len(t) - 1 PROVE Apart(t[i], t[i + 1])
  <2>1. t[i] = s[i + 1] /\ t[i + 1] = s[i + 1 + 1] /\ i + 1 \in 1..Len(s) - 1
    BY <1>1
  <2> QED BY <2>1 DEF Calls
<1> QED BY <1>2, <1>3 DEF Calls, t

LEMMA CallsPush ==
    ASSUME NEW s \in Seq(FrameRec), NEW f \in FrameRec,
           NEW L, NEW E, NEW D, NEW Q, NEW C,
           Calls(s, L, E, D, Q, C), Good(f, L, E, D, Q, C), s # <<>> => Apart(f, s[1])
    PROVE  Calls(<<f>> \o s, L, E, D, Q, C)
<1> DEFINE t == <<f>> \o s
<1>1. Len(t) = Len(s) + 1 /\ t[1] = f /\ (\A i \in 1..Len(s) : t[i + 1] = s[i])
      /\ Len(s) \in Nat /\ (s = <<>> <=> Len(s) = 0)
  BY Pushed, Places
<1> HIDE DEF t
<1>2. ASSUME NEW i \in 1..Len(t) PROVE Good(t[i], L, E, D, Q, C)
  <2>1. CASE i = 1
    BY <1>1, <2>1
  <2>2. CASE i # 1
    <3>1. i - 1 \in 1..Len(s) /\ i - 1 + 1 = i
      BY <1>1, <2>2
    <3>2. t[i] = s[i - 1]
      BY <1>1, <3>1
    <3> QED BY <3>1, <3>2 DEF Calls
  <2> QED BY <2>1, <2>2
<1>3. ASSUME NEW i \in 1..Len(t) - 1 PROVE Apart(t[i], t[i + 1])
  <2>1. CASE i = 1
    <3>1. t[1 + 1] = s[1] /\ s # <<>>
      BY <1>1, <2>1
    <3> QED BY <1>1, <2>1, <3>1
  <2>2. CASE i # 1
    <3>1. /\ i - 1 \in 1..Len(s) - 1 /\ i - 1 \in 1..Len(s) /\ i \in 1..Len(s)
          /\ i - 1 + 1 = i
      BY <1>1, <2>2
    <3>2. t[i] = s[i - 1] /\ t[i + 1] = s[i - 1 + 1]
      BY <1>1, <3>1
    <3> QED BY <3>1, <3>2 DEF Calls
  <2> QED BY <2>1, <2>2
<1> QED BY <1>2, <1>3 DEF Calls, t

\* What the call on top has below it.
LEMMA CallsBelow ==
    ASSUME NEW s \in Seq(FrameRec), s # <<>>, Chain(s)
    PROVE  /\ \A i \in 1..Len(Tail(s)) : Tail(s)[i].proc # "handle"
           /\ Tail(s) # <<>> => Outer(s[1], Tail(s)[1])
           /\ \A i \in 1..Len(Tail(s)) : Tail(s)[i].proc # "flex" => Tail(s)[i].id < s[1].id
           /\ \A i \in 1..Len(Tail(s)) : Tail(s)[i].proc # "flex" /\ i # 1 =>
                 Tail(s)[i].id < Tail(s)[1].id
           /\ \A L, E, D, Q, C : Calls(s, L, E, D, Q, C) /\ Tail(s) # <<>> =>
                 Apart(s[1], Tail(s)[1])
<1> DEFINE t == Tail(s)
<1>1. Len(t) = Len(s) - 1 /\ (\A i \in 1..Len(s) - 1 : t[i] = s[i + 1])
      /\ Len(s) \in Nat /\ Len(s) >= 1 /\ (t = <<>> <=> Len(t) = 0) /\ Len(t) \in Nat
  <2>1. t \in Seq(FrameRec)
    BY Popped
  <2>2. Len(t) = Len(s) - 1 /\ (\A i \in 1..Len(s) - 1 : t[i] = s[i + 1])
    BY Popped
  <2> HIDE DEF t
  <2> QED BY <2>1, <2>2, Places
<1> HIDE DEF t
<1>2. ASSUME NEW i \in 1..Len(t) PROVE t[i].proc # "handle"
  <2>1. i \in 1..Len(s) - 1 /\ t[i] = s[i + 1]
    BY <1>1
  <2>2. Outer(s[i], s[i + 1])
    BY <2>1 DEF Chain
  <2> QED BY <2>1, <2>2 DEF Outer, Running
<1>3. ASSUME t # <<>> PROVE 1 \in 1..Len(s) - 1 /\ t[1] = s[1 + 1]
  BY <1>1, <1>3
<1>4. ASSUME t # <<>> PROVE Outer(s[1], t[1])
  BY <1>3, <1>4 DEF Chain
<1>5. ASSUME NEW i \in 1..Len(t), t[i].proc # "flex" PROVE t[i].id < s[1].id
  <2>1. i + 1 \in 1..Len(s) /\ t[i] = s[i + 1] /\ 1 \in 1..Len(s) /\ 1 < i + 1
    BY <1>1
  <2> QED BY <1>5, <2>1 DEF Chain
<1>6. ASSUME NEW i \in 1..Len(t), t[i].proc # "flex", i # 1 PROVE t[i].id < t[1].id
  <2>1. /\ i + 1 \in 1..Len(s) /\ t[i] = s[i + 1] /\ 1 + 1 \in 1..Len(s) /\ 1 + 1 < i + 1
        /\ t[1] = s[1 + 1]
    BY <1>1, <1>6
  <2> QED BY <1>6, <2>1 DEF Chain
<1>7. ASSUME NEW L, NEW E, NEW D, NEW Q, NEW C, Calls(s, L, E, D, Q, C), t # <<>>
      PROVE  Apart(s[1], t[1])
  BY <1>3, <1>7 DEF Calls
<1> QED BY <1>2, <1>4, <1>5, <1>6, <1>7 DEF t

\* Each call stays as it should be when the downtimes change.
LEMMA CallsKept ==
    ASSUME NEW s \in Seq(FrameRec),
           NEW L, NEW E, NEW D, NEW Q, NEW C, Calls(s, L, E, D, Q, C),
           NEW M, NEW F, NEW G, NEW R, NEW B,
           \A i \in 1..Len(s) : Good(s[i], L, E, D, Q, C) => Good(s[i], M, F, G, R, B)
    PROVE  Calls(s, M, F, G, R, B)
BY DEF Calls

LEMMA CallsMore ==
    ASSUME NEW s \in Seq(FrameRec),
           NEW L, NEW E, NEW D, NEW Q, NEW C, Calls(s, L, E, D, Q, C),
           NEW G, NEW R, D \subseteq G, Q \subseteq R
    PROVE  Calls(s, L, E, G, R, C)
<1>1. \A f : Good(f, L, E, D, Q, C) => Good(f, L, E, G, R, C)
  BY DEF Good
<1> QED BY <1>1, CallsKept

LEMMA GoodKept ==
    ASSUME NEW f, NEW L, NEW E, NEW D, NEW Q, NEW C, Good(f, L, E, D, Q, C),
           f.proc # "handle",
           NEW M, NEW F, NEW G, NEW R, NEW B, M \subseteq L,
           f.proc = "stop" => f.id \in G,
           C \cap M \subseteq B,
           f.proc = "start" =>
              \A c \in Range(f.todo) \cap M : Parent(c) = f.id /\ c \in F => c \in E
    PROVE  Good(f, M, F, G, R, B)
<1>1. f.proc = "start" =>
         /\ IsInjective(f.todo)
         /\ \A c \in Range(f.todo) \cap M : Parent(c) = f.id => c \notin F
  BY DEF Good
<1>2. f.proc = "flex" => \A c \in Range(f.todo) \cap M : ~Fixed(c) => c \in B
  BY DEF Good
<1> QED BY <1>1, <1>2 DEF Good

---------------------------------------------------------------------------------
(* Steps that leave the counters alone *)

\* Time passes and calls are made, and no downtime and counter changes.
Leaves ==
    /\ UNCHANGED <<depth, pending, list, asked>>
    /\ SameEntries
    /\ events' \subseteq events /\ now' >= now
    /\ Ending' = Ending

LEMMA LeavesCounts ==
    ASSUME IInv, IInv', CountInv, Leaves
    PROVE  /\ EventsOnce' /\ PendingMeansWaiting' /\ DepthIsCount'
           /\ Listed' = Listed /\ Effective' = Effective /\ Counted' = Counted
           /\ Due \subseteq Due' /\ Quiet \subseteq Quiet'
<1>0. Listed' = Listed /\ Listed \subseteq Ids
  BY ListedAreIds DEF Leaves, Listed, IInv
<1>1. \A id \in Ids : Finish(id)' = Finish(id) /\ InEffect(id)' = InEffect(id)
                      /\ entry'[id].incremented = entry[id].incremented
  BY DEF Leaves, SameEntries, Finish, InEffect
<1>2. \A id \in Ids : Finish(id) \in Int
  <2>1. \A id \in Ids : End(id) \in Nat /\ Duration(id) \in Nat
    BY EventTypes
  <2>2. \A id \in Ids : entry[id].trigger_time \in Int
    BY BoundAssumption DEF IInv, Types, EntryRec, Time
  <2> QED BY <2>1, <2>2 DEF Finish
<1>3. now \in Int /\ now' \in Int
  BY BoundAssumption DEF IInv, Types, Time
<1>4. EventsOnce'
  BY <1>0, <1>1 DEF EventsOnce, CountInv, Leaves
<1>5. PendingMeansWaiting'
  BY <1>0, <1>1 DEF PendingMeansWaiting, CountInv, Leaves
<1>6. DepthIsCount'
  <2>1. \A o \in Objects : EffectiveOf(o)' = EffectiveOf(o)
    BY <1>0, <1>1 DEF EffectiveOf, Leaves
  <2> QED BY <2>1 DEF DepthIsCount, CountInv, Leaves
<1>7. Effective' = Effective /\ Counted' = Counted
  BY <1>1 DEF Effective, Counted
<1>8. Due \subseteq Due'
  BY <1>1, <1>2, <1>3 DEF Due, Leaves
<1>9. Quiet \subseteq Quiet'
  BY DEF Quiet, Leaves
<1> QED BY <1>0, <1>4, <1>5, <1>6, <1>7, <1>8, <1>9

LEMMA TickCounts ==
    ASSUME IInv, IInv', CountInv, Tick
    PROVE  CountInv'
<1> USE DEF Tick, counters, downtimes, outside
<1>1. SameEntries /\ Ending' = Ending
  BY SameIsSame, NoneEnding
<1>2. now' >= now
  BY BoundAssumption DEF IInv, Types, Time
<1>3. Leaves
  BY <1>1, <1>2 DEF Leaves
<1>4. /\ EventsOnce' /\ PendingMeansWaiting' /\ DepthIsCount'
      /\ Listed' = Listed /\ Effective' = Effective /\ Counted' = Counted
      /\ Due \subseteq Due' /\ Quiet \subseteq Quiet'
  BY <1>3, LeavesCounts
<1>5. stack \in Seq(FrameRec) /\ Calls(stack, Listed, Effective, Due, Quiet, Counted)
  BY DEF CountInv, CallsInv, IInv, Types
<1>6. CallsInv'
  BY <1>4, <1>5, CallsMore DEF CallsInv
<1> QED BY <1>4, <1>6 DEF CountInv

\* Events of one downtime and one time are one.
LEMMA SameEvent ==
    ASSUME NEW e \in EventRec, NEW f \in EventRec, e.kind = f.kind, e.id = f.id, e.at = f.at
    PROVE  e = f
BY DEF EventRec

\* The event of a downtime in effect is for its end, which has come.  That of another
\* is for its start, and it has no other.
LEMMA RunScheduledCounts ==
    ASSUME IInv, IInv', CountInv, NEW e \in events, RunScheduled(e)
    PROVE  CountInv'
<1> USE DEF counters, downtimes, outside
<1>1. /\ Idle /\ e.kind = "DOWNTIME" /\ e.at <= now /\ events' = events \ {e}
      /\ UNCHANGED <<depth, pending, list, entry, state, asked, restarts, now>>
      /\ stack' = IF e.id \in Listed THEN <<Call(e.id)>> ELSE <<>>
  BY DEF RunScheduled
<1>0. Types /\ Listed \subseteq Ids
  BY ListedAreIds DEF IInv
<1>2. Ending = {} /\ Ending' = {}
  <2>1. e.id \in Listed => EndingIn(<<Call(e.id)>>) = {}
    <3>1. e.id \in Listed => Call(e.id).proc = "handle"
      BY <1>0, FrameTypes
    <3> QED BY <3>1 DEF EndingIn
  <2> QED BY <1>1, <2>1, NoneEnding DEF Idle
<1>3. Leaves
  <2>1. now \in Int
    BY <1>0, BoundAssumption DEF Types, Time
  <2> QED BY <1>1, <1>2, <2>1, SameIsSame DEF Leaves
<1>4. /\ EventsOnce' /\ PendingMeansWaiting' /\ DepthIsCount'
      /\ Listed' = Listed /\ Effective' = Effective /\ Counted' = Counted
      /\ Due \subseteq Due' /\ Quiet \subseteq Quiet'
  BY <1>3, LeavesCounts
<1>5. CallsInv'
  <2>1. CASE e.id \notin Listed
    BY <1>1, <2>1, CallsNone DEF CallsInv
  <2>2. CASE e.id \in Listed
    <3> DEFINE id == e.id
               f == Call(id)
    <3>1. id \in Ids /\ f \in FrameRec /\ f.proc = "handle" /\ f.id = id
      BY <1>0, <2>2, FrameTypes
    <3>2. ASSUME id \in Effective PROVE id \in Due'
      <4>1. e.at >= Finish(id)
        BY <1>1, <2>2, <3>2 DEF CountInv, EventsOnce, Effective
      <4>2. Finish(id) \in Int /\ e.at \in Int /\ now \in Int
        <5>1. End(id) \in Nat /\ Duration(id) \in Nat
          BY <3>1, EventTypes
        <5>2. entry[id].trigger_time \in Int /\ now \in Int
          BY <1>0, <3>1, BoundAssumption DEF Types, EntryRec, Time
        <5>3. e.at \in Int
          BY <1>0 DEF Types, EventRec
        <5> QED BY <5>1, <5>2, <5>3 DEF Finish
      <4>3. id \in Due
        BY <1>1, <3>1, <4>1, <4>2 DEF Due
      <4> QED BY <1>4, <4>3
    <3>3. ASSUME id \notin Effective PROVE id \in Quiet'
      <4>1. \A g \in events : g.kind = "DOWNTIME" /\ g.id = id => g.at = Start(id)
        BY <2>2, <3>1, <3>3 DEF CountInv, EventsOnce, Effective
      <4>2. \A g \in events : g.kind = "DOWNTIME" /\ g.id = id => g = e
        <5>1. \A g \in events : g \in EventRec
          BY <1>0 DEF Types
        <5> QED BY <1>1, <4>1, <5>1, SameEvent
      <4> QED BY <1>1, <3>1, <4>2 DEF Quiet
    <3>4. Good(f, Listed', Effective', Due', Quiet', Counted')
      BY <1>4, <3>1, <3>2, <3>3 DEF Good
    <3>5. stack' = <<f>>
      BY <1>1, <2>2
    <3> QED BY <3>1, <3>4, <3>5, CallsOne DEF CallsInv
  <2> QED BY <2>1, <2>2
<1> QED BY <1>4, <1>5 DEF CountInv

\* The search for flexible downtimes is of a service whose downtime waits.
LEMMA CheckResultCounts ==
    ASSUME Plain, IInv, IInv', CountInv,
           NEW o \in Objects, NEW new \in {"OK", "SOFT", "HARD"}, CheckResult(o, new)
    PROVE  CountInv'
<1> USE DEF counters, downtimes, outside
<1> DEFINE S == {id \in Listed : Object(id) = o}
<1>1. /\ Idle /\ UNCHANGED <<depth, pending, list, entry, asked, restarts, events, now>>
      /\ \/ /\ o \in Hosts \/ pending[o] > 0
            /\ \E mine \in SetToSeqs(S) : stack' = <<Frame("flex", 0, mine, 0, now)>>
         \/ stack' = <<>>
  BY Zenon DEF CheckResult
<1>0. Types /\ Listed \subseteq Ids /\ S \in SUBSET Ids
  BY ListedAreIds DEF IInv
<1>2. \A c \in S : (o \in Hosts \/ pending[o] > 0) /\ ~Fixed(c) => c \in Counted
  BY <1>0 DEF Plain, CountInv, PendingMeansWaiting, Counted
<1> HIDE DEF S
<1>3. ASSUME NEW mine \in SetToSeqs(S), stack' = <<Frame("flex", 0, mine, 0, now)>>,
             o \in Hosts \/ pending[o] > 0
      PROVE  EndingIn(stack') = {} /\ Calls(stack', Listed, Effective, Due, Quiet, Counted)
  <2> DEFINE f == Frame("flex", 0, mine, 0, now)
  <2>1. mine \in Seq(Ids) /\ Range(mine) = S
    BY <1>0, ListOf
  <2>2. f \in FrameRec /\ f.proc = "flex" /\ f.todo = mine
    <3>1. now \in Nat
      BY <1>0, BoundAssumption DEF Types, Time
    <3> QED BY <2>1, <3>1 DEF Frame, FrameRec, Procs
  <2> HIDE DEF f
  <2>3. Good(f, Listed, Effective, Due, Quiet, Counted)
    BY <1>2, <1>3, <2>1, <2>2 DEF Good
  <2>4. EndingIn(<<f>>) = {}
    BY <2>2 DEF EndingIn
  <2>5. stack' = <<f>>
    BY <1>3 DEF f
  <2> QED BY <2>2, <2>3, <2>4, <2>5, CallsOne
<1>4. EndingIn(stack') = {} /\ Calls(stack', Listed, Effective, Due, Quiet, Counted)
  BY <1>1, <1>3, CallsNone, NoneEnding
<1>5. Leaves
  <2>1. now \in Int
    BY <1>0, BoundAssumption DEF Types, Time
  <2>2. Ending = {} /\ Ending' = {}
    BY <1>1, <1>4, NoneEnding DEF Idle
  <2> QED BY <1>1, <2>1, <2>2, SameIsSame DEF Leaves
<1>6. /\ EventsOnce' /\ PendingMeansWaiting' /\ DepthIsCount'
      /\ Listed' = Listed /\ Effective' = Effective /\ Counted' = Counted
      /\ Due \subseteq Due' /\ Quiet \subseteq Quiet'
  BY <1>5, LeavesCounts
<1>7. CallsInv'
  <2>1. stack' \in Seq(FrameRec)
    BY DEF IInv, Types
  <2> QED BY <1>4, <1>6, <2>1, CallsMore DEF CallsInv
<1> QED BY <1>6, <1>7 DEF CountInv

LEMMA ReturnCounts ==
    ASSUME IInv, IInv', CountInv, NEW proc \in {"start", "flex"}, Calling(proc),
           stack' = Tail(stack),
           UNCHANGED <<counters, downtimes, outside, events, now>>
    PROVE  CountInv'
<1> USE DEF counters, downtimes, outside
<1>1. /\ stack \in Seq(FrameRec) /\ stack # <<>> /\ Ending' = Ending
      /\ stack' \in Seq(FrameRec) /\ now \in Int
  <2>1. now \in Int /\ stack' \in Seq(FrameRec)
    BY BoundAssumption DEF IInv, Types, Time
  <2> QED BY <2>1, TopFacts, EndingPop, NoneEnding DEF IInv, Procs
<1>2. Leaves
  BY <1>1, SameIsSame DEF Leaves
<1>3. /\ EventsOnce' /\ PendingMeansWaiting' /\ DepthIsCount'
      /\ Listed' = Listed /\ Effective' = Effective /\ Counted' = Counted
      /\ Due \subseteq Due' /\ Quiet \subseteq Quiet'
  BY <1>2, LeavesCounts
<1>4. Calls(stack', Listed, Effective, Due, Quiet, Counted)
  BY <1>1, CallsPop DEF CountInv, CallsInv
<1>5. CallsInv'
  BY <1>1, <1>3, <1>4, CallsMore DEF CallsInv
<1> QED BY <1>3, <1>5 DEF CountInv

\* A call for a downtime that another triggers: it has no event, and it is in effect only
\* if it is due.
LEMMA CallCounts ==
    ASSUME IInv, IInv', CountInv, NEW proc \in Running, Calling(proc),
           NEW c \in Listed, Parent(c) = Top.id, InEffect(c) => c \in Due,
           NEW s \in Seq(FrameRec), s # <<>>, EndingIn(s) = Ending,
           Calls(s, Listed, Effective, Due, Quiet, Counted), Apart(Call(c), s[1]),
           stack' = <<Call(c)>> \o s,
           UNCHANGED <<counters, downtimes, outside, events, now>>
    PROVE  CountInv'
<1> USE DEF counters, downtimes, outside
<1>0. Types /\ Listed \subseteq Ids /\ now \in Int /\ c \in Ids
  <2>1. now \in Int
    BY BoundAssumption DEF IInv, Types, Time
  <2> QED BY <2>1, ListedAreIds DEF IInv
<1>1. Call(c) \in FrameRec /\ Call(c).proc = "handle" /\ Call(c).id = c
  BY <1>0, FrameTypes
<1>2. Parent(c) # 0
  BY TopFacts, ParentBefore DEF IInv, Procs, Running
<1>3. Good(Call(c), Listed, Effective, Due, Quiet, Counted)
  <2>1. c \notin Effective => c \in Quiet
    BY <1>0, <1>2 DEF Effective, Quiet, IInv, EventInv
  <2>2. c \in Effective => c \in Due
    BY DEF Effective
  <2> QED BY <1>1, <2>1, <2>2 DEF Good
<1>4. Calls(stack', Listed, Effective, Due, Quiet, Counted)
  BY <1>1, <1>3, CallsPush
<1>5. Leaves
  <2>1. Ending' = Ending
    BY <1>1, EndingPush, NoneEnding
  <2> QED BY <1>0, <2>1, SameIsSame DEF Leaves
<1>6. /\ EventsOnce' /\ PendingMeansWaiting' /\ DepthIsCount'
      /\ Listed' = Listed /\ Effective' = Effective /\ Counted' = Counted
      /\ Due \subseteq Due' /\ Quiet \subseteq Quiet'
  BY <1>5, LeavesCounts
<1>7. CallsInv'
  <2>1. stack' \in Seq(FrameRec)
    BY DEF IInv, Types
  <2> QED BY <1>4, <1>6, <2>1, CallsMore DEF CallsInv
<1> QED BY <1>6, <1>7 DEF CountInv

\* What is triggered by a downtime that is due is due.
LEMMA StopNextCounts ==
    ASSUME Plain, IInv, IInv', CountInv, StopNext
    PROVE  CountInv'
<1>1. Calling("stop") /\ UNCHANGED <<counters, downtimes, outside, events, now>>
  BY StopNextDoes
<1>2. PICK c \in Listed : Parent(c) = Top.id /\ stack' = <<Call(c)>> \o stack
  BY StopNextDoes
<1>3. /\ stack \in Seq(FrameRec) /\ stack # <<>> /\ Top = stack[1] /\ stack[1].proc = "stop"
      /\ Top.id \in Ids /\ EndingIn(stack) = Ending /\ c \in Ids /\ 1 \in 1..Len(stack)
  <2>1. stack \in Seq(FrameRec) /\ stack # <<>>
    BY <1>1, TopFacts DEF IInv, Procs
  <2>2. 1 \in 1..Len(stack)
    BY <2>1, Places
  <2> QED BY <1>1, <2>1, <2>2, TopFacts, NoneEnding, ListedAreIds DEF IInv, Procs
<1>4. Calls(stack, Listed, Effective, Due, Quiet, Counted)
  BY DEF CountInv, CallsInv
<1>5. Top.id \in Due
  BY <1>3, <1>4 DEF Calls, Good
<1>6. c \in Due
  <2>1. Parent(c) # 0
    BY <1>2, <1>3, ParentBefore
  <2>2. Fixed(c) /\ Fixed(Top.id) /\ End(c) <= End(Top.id)
    BY <1>2, <1>3, <2>1 DEF Plain
  <2>3. now >= End(Top.id)
    BY <1>5, <2>2 DEF Due, Finish
  <2>4. now \in Int /\ End(c) \in Int /\ End(Top.id) \in Int
    <3>1. now \in Int
      BY BoundAssumption DEF IInv, Types, Time
    <3>2. End(c) \in Nat /\ End(Top.id) \in Nat
      BY <1>3, EventTypes
    <3> QED BY <3>1, <3>2
  <2> QED BY <1>3, <2>2, <2>3, <2>4 DEF Due, Finish
<1>7. Apart(Call(c), stack[1])
  BY <1>3 DEF Apart
<1> QED BY <1>1, <1>2, <1>3, <1>4, <1>6, <1>7, CallCounts DEF Running

\* What the loop finds is not in effect and is not found again.
LEMMA StartNextCounts ==
    ASSUME IInv, IInv', CountInv, StartNext
    PROVE  CountInv'
<1>1. Calling("start") /\ UNCHANGED <<counters, downtimes, outside, events, now>>
  BY StartNextDoes
<1>2. PICK c \in Listed, rest \in Seq(Ids) :
         /\ Parent(c) = Top.id /\ Resumes(rest, Top.todo, c)
         /\ stack' = <<Call(c), Goes(Top.id, rest, c)>> \o Tail(stack)
  BY StartNextDoes
<1> DEFINE f == Goes(Top.id, rest, c)
           s == <<f>> \o Tail(stack)
<1>3. GoesTypes(f, rest) /\ Looping(s, f) /\ stack' = <<Call(c)>> \o s
  BY <1>1, <1>2, LoopFacts
<1> HIDE DEF f
<1>4. /\ stack \in Seq(FrameRec) /\ stack # <<>> /\ Top = stack[1] /\ Top.proc = "start"
      /\ Tail(stack) \in Seq(FrameRec) /\ Chain(stack) /\ c \in Ids /\ 1 \in 1..Len(stack)
  <2>1. stack \in Seq(FrameRec) /\ stack # <<>>
    BY <1>1, TopFacts DEF IInv, Procs
  <2>2. 1 \in 1..Len(stack)
    BY <2>1, Places
  <2> QED BY <1>1, <2>1, <2>2, TopFacts, ListedAreIds DEF IInv, Procs
<1>5. Calls(stack, Listed, Effective, Due, Quiet, Counted)
  BY DEF CountInv, CallsInv
<1>6. Good(Top, Listed, Effective, Due, Quiet, Counted)
  BY <1>4, <1>5 DEF Calls
<1>7. c \notin Effective /\ c \notin Range(rest)
  BY <1>2, <1>4, <1>6 DEF Good, Resumes
<1>8. Good(f, Listed, Effective, Due, Quiet, Counted)
  BY <1>2, <1>3, <1>4, <1>6 DEF Good, Resumes, GoesTypes
<1>9. Calls(s, Listed, Effective, Due, Quiet, Counted)
  <2>1. Calls(Tail(stack), Listed, Effective, Due, Quiet, Counted)
    BY <1>4, <1>5, CallsPop
  <2>2. Tail(stack) # <<>> => Apart(f, Tail(stack)[1])
    <3>1. Tail(stack) # <<>> => Apart(stack[1], Tail(stack)[1])
      BY <1>4, <1>5, CallsBelow
    <3> QED BY <1>3, <1>4, <3>1 DEF Apart, GoesTypes
  <2> QED BY <1>3, <1>4, <1>8, <2>1, <2>2, CallsPush DEF GoesTypes
<1>10. Apart(Call(c), s[1])
  BY <1>3, <1>4, <1>7, FrameTypes DEF Apart, GoesTypes, Looping
<1>11. InEffect(c) => c \in Due
  BY <1>4, <1>7 DEF Effective
<1> HIDE DEF s
<1>12. s \in Seq(FrameRec) /\ s # <<>> /\ EndingIn(s) = Ending
  BY <1>3 DEF Looping
<1> QED BY <1>1, <1>2, <1>3, <1>9, <1>10, <1>11, <1>12, CallCounts DEF Running

\* What the search finds waits and is not in effect: its event has been handled.
LEMMA FlexNextCounts ==
    ASSUME IInv, IInv', CountInv, FlexNext
    PROVE  CountInv'
<1>1. /\ Calling("flex") /\ UNCHANGED <<depth, pending, list, state, asked, restarts, events, now>>
      /\ Tail(stack) = <<>> /\ Top \in FrameRec /\ Top.proc = "flex"
  BY FlexNextDoes
<1>2. PICK c \in Listed, rest \in Seq(Ids) :
         /\ Starts(c) /\ Resumes(rest, Top.todo, c)
         /\ entry' = [entry EXCEPT ![c].start_flex = TRUE]
         /\ stack' = <<Call(c)>> \o <<[Top EXCEPT !.todo = rest]>>
  BY FlexNextDoes
<1> DEFINE f == [Top EXCEPT !.todo = rest]
<1>3. f \in FrameRec /\ f.proc = "flex" /\ f.todo = rest
  BY <1>1, FlexTypes
<1>4. stack' = <<Call(c)>> \o <<f>>
  BY <1>2
<1> HIDE DEF f
<1>5. /\ stack # <<>> /\ Top = stack[1] /\ stack \in Seq(FrameRec) /\ 1 \in 1..Len(stack) /\ c \in Ids
      /\ Types /\ ~Fixed(c) /\ ~InEffect(c) /\ Parent(c) = 0
  <2>1. stack \in Seq(FrameRec) /\ stack # <<>>
    BY <1>1, TopFacts DEF IInv, Procs
  <2>2. 1 \in 1..Len(stack)
    BY <2>1, Places
  <2> QED BY <1>1, <1>2, <2>1, <2>2, TopFacts, ListedAreIds DEF IInv, Procs, Starts
<1>6. Ending' = Ending /\ <<f>> \in Seq(FrameRec) /\ <<f>> # <<>> /\ <<f>>[1] = f
  BY <1>1, <1>3, <1>4, <1>5, FlexStack
<1>7. Leaves
  <2>1. SameEntries
    BY <1>2, <1>5, FlexEntries
  <2>2. now \in Int
    BY BoundAssumption DEF IInv, Types, Time
  <2> QED BY <1>1, <1>6, <2>1, <2>2 DEF Leaves
<1>8. /\ EventsOnce' /\ PendingMeansWaiting' /\ DepthIsCount'
      /\ Listed' = Listed /\ Effective' = Effective /\ Counted' = Counted
      /\ Due \subseteq Due' /\ Quiet \subseteq Quiet'
  BY <1>7, LeavesCounts
<1>9. Good(Top, Listed, Effective, Due, Quiet, Counted)
  BY <1>5 DEF CountInv, CallsInv, Calls
<1>10. c \in Counted
  BY <1>1, <1>2, <1>5, <1>9 DEF Good, Resumes
<1>11. c \in Quiet /\ c \notin Effective
  BY <1>5, <1>10 DEF CountInv, EventsOnce, Quiet, Counted, Effective
<1>12. Good(f, Listed, Effective, Due, Quiet, Counted)
  BY <1>1, <1>2, <1>3, <1>9 DEF Good, Resumes
<1>13. Call(c) \in FrameRec /\ Call(c).proc = "handle" /\ Call(c).id = c
  BY <1>5, FrameTypes
<1>14. Good(Call(c), Listed, Effective, Due, Quiet, Counted)
  BY <1>11, <1>13 DEF Good
<1>15. Calls(stack', Listed, Effective, Due, Quiet, Counted)
  <2>1. Calls(<<f>>, Listed, Effective, Due, Quiet, Counted)
    BY <1>3, <1>12, CallsOne
  <2>2. Apart(Call(c), <<f>>[1])
    BY <1>3, <1>6 DEF Apart
  <2> QED BY <1>4, <1>6, <1>13, <1>14, <2>1, <2>2, CallsPush
<1>16. CallsInv'
  <2>1. stack' \in Seq(FrameRec)
    BY DEF IInv, Types
  <2> QED BY <1>8, <1>15, <2>1, CallsMore DEF CallsInv
<1> QED BY <1>8, <1>16 DEF CountInv

---------------------------------------------------------------------------------
(* Steps that delete downtimes *)

LEMMA DeleteLeaves ==
    ASSUME IInv, IInv', CountInv, NEW gone, Delete(gone), events' \subseteq events,
           UNCHANGED <<asked, now>>, \A o \in Objects : pending'[o] <= pending[o]
    PROVE  /\ EventsOnce' /\ PendingMeansWaiting'
           /\ Listed' = Listed \ gone /\ Effective' = Effective \ gone
           /\ \A d \in Ids \ gone : entry'[d] = entry[d]
<1>0. Types /\ Ordered(list) /\ Listed \subseteq Ids
  BY ListedAreIds DEF IInv, ListInv
<1>1. Listed' = Listed \ gone
  BY <1>0, Deleted DEF Delete
<1>2. \A d \in Ids : entry'[d] = IF d \in gone THEN Blank ELSE entry[d]
  BY DEF Delete
<1>3. \A d \in Ids \ gone : entry'[d] = entry[d]
  BY <1>2
<1>4. Effective' = Effective \ gone
  <2>1. ~Blank.in_effect
    BY DEF Blank
  <2> QED BY <1>2, <2>1 DEF Effective, InEffect
<1>5. EventsOnce'
  <2>1. \A d \in Listed' : Finish(d)' = Finish(d) /\ InEffect(d)' = InEffect(d)
                           /\ entry'[d].incremented = entry[d].incremented /\ d \in Listed
    BY <1>0, <1>1, <1>3 DEF Finish, InEffect
  <2> QED BY <2>1 DEF CountInv, EventsOnce
<1>6. PendingMeansWaiting'
  <2> SUFFICES ASSUME NEW d \in Ids, ~Fixed(d), pending'[Object(d)] > 0
               PROVE  d \in asked /\ (d \in Listed' => entry'[d].incremented)
    BY DEF PendingMeansWaiting
  <2>1. Object(d) \in Objects
    BY EventTypes
  <2>2. pending[Object(d)] \in Int /\ pending'[Object(d)] \in Int
    BY <2>1 DEF IInv, Types
  <2>3. pending[Object(d)] > 0
    BY <2>1, <2>2
  <2>4. d \in asked /\ (d \in Listed => entry[d].incremented)
    BY <2>3 DEF CountInv, PendingMeansWaiting
  <2> QED BY <1>1, <1>3, <2>4
<1> QED BY <1>1, <1>3, <1>4, <1>5, <1>6

LEMMA EffectiveAtRest ==
    ASSUME Idle, stack' = stack, NEW o
    PROVE  /\ EffectiveOf(o) = {id \in Listed : Object(id) = o /\ InEffect(id)}
           /\ EffectiveOf(o)' = {id \in Listed' : Object(id) = o /\ InEffect(id)'}
<1>1. Ending = {} /\ Ending' = {}
  BY NoneEnding DEF Idle
<1> QED BY <1>1 DEF EffectiveOf

LEMMA RunExpireCounts ==
    ASSUME IInv, IInv', CountInv, NEW e \in events, RunExpire(e)
    PROVE  CountInv'
<1> DEFINE gone == {id \in Listed : ~InEffect(id) /\ Downtimes[id].end < now}
<1>1. /\ Idle /\ Delete(gone) /\ events' \subseteq events /\ stack' = stack
      /\ UNCHANGED <<depth, pending, asked, now>>
  BY DEF RunExpire, outside, counters
<1>2. \A o \in Objects : pending'[o] <= pending[o]
  <2>1. \A o \in Objects : pending[o] \in Int
    BY DEF IInv, Types
  <2> QED BY <1>1, <2>1
<1>3. \A d \in gone : ~InEffect(d)
  OBVIOUS
<1> HIDE DEF gone
<1>4. /\ EventsOnce' /\ PendingMeansWaiting' /\ Listed' = Listed \ gone
      /\ \A d \in Ids \ gone : entry'[d] = entry[d]
  BY <1>1, <1>2, DeleteLeaves
<1>5. DepthIsCount'
  <2>0. Listed \subseteq Ids
    BY ListedAreIds DEF IInv
  <2>1. \A o \in Objects : EffectiveOf(o)' = EffectiveOf(o)
    BY <1>1, <1>3, <1>4, <2>0, EffectiveAtRest DEF InEffect
  <2> QED BY <1>1, <2>1 DEF CountInv, DepthIsCount
<1>6. CallsInv'
  BY <1>1, CallsNone DEF CallsInv, Idle
<1> QED BY <1>4, <1>5, <1>6 DEF CountInv

LEMMA UnscheduleCounts ==
    ASSUME IInv, IInv', CountInv, NEW id \in Ids, Unschedule(id)
    PROVE  CountInv'
<1> DEFINE family == Family(id)
           A(o) == {d \in family : Object(d) = o /\ ~Fixed(d) /\ entry[d].incremented}
           B(o) == {d \in family : Object(d) = o /\ InEffect(d)}
<1>1. /\ Idle /\ Delete(family) /\ events' \subseteq events /\ stack' = stack
      /\ UNCHANGED <<asked, now>>
  BY DEF Unschedule, outside
<1>2. /\ depth' = [o \in Objects |-> depth[o] - Cardinality(B(o))]
      /\ pending' = [o \in Objects |-> pending[o] - Cardinality(A(o))]
  <2>1. \A o : /\ {d \in {x \in family : Object(x) = o} : InEffect(d)} = B(o)
               /\ {d \in {x \in family : Object(x) = o} : ~Fixed(d) /\ entry[d].incremented} = A(o)
    OBVIOUS
  <2> QED BY <2>1 DEF Unschedule
<1>0. Listed \subseteq Ids /\ family \subseteq Listed
  BY ListedAreIds DEF IInv, Family
<1> HIDE DEF family
<1>3. \A o \in Objects : pending'[o] <= pending[o]
  <2> TAKE o \in Objects
  <2>1. A(o) \in SUBSET Ids
    BY <1>0
  <2>2. Cardinality(A(o)) \in Nat
    BY <2>1, Countable
  <2>3. pending[o] \in Int /\ pending'[o] = pending[o] - Cardinality(A(o))
    BY <1>2 DEF IInv, Types
  <2> HIDE DEF A
  <2> QED BY <2>2, <2>3
<1>4. /\ EventsOnce' /\ PendingMeansWaiting' /\ Listed' = Listed \ family
      /\ \A d \in Ids \ family : entry'[d] = entry[d]
  BY <1>1, <1>3, DeleteLeaves
<1>5. DepthIsCount'
  <2> SUFFICES ASSUME NEW o \in Objects
               PROVE  depth'[o] = Cardinality(EffectiveOf(o)')
    BY DEF DepthIsCount
  <2>1. /\ EffectiveOf(o)' = EffectiveOf(o) \ family
        /\ EffectiveOf(o) \cap family = B(o)
        /\ EffectiveOf(o) \in SUBSET Ids
    <3>1. EffectiveOf(o) = {d \in Listed : Object(d) = o /\ InEffect(d)}
      BY <1>1, EffectiveAtRest
    <3>2. EffectiveOf(o)' = {d \in Listed' : Object(d) = o /\ InEffect(d)'}
      BY <1>1, EffectiveAtRest
    <3>3. \A d \in Listed' : InEffect(d)' = InEffect(d)
      BY <1>0, <1>4 DEF InEffect
    <3> QED BY <1>0, <1>4, <3>1, <3>2, <3>3
  <2>2. Cardinality(EffectiveOf(o) \ family)
           = Cardinality(EffectiveOf(o)) - Cardinality(EffectiveOf(o) \cap family)
    BY <2>1, CountWithout
  <2>3. depth[o] = Cardinality(EffectiveOf(o)) /\ depth'[o] = depth[o] - Cardinality(B(o))
    BY <1>2 DEF CountInv, DepthIsCount
  <2> HIDE DEF B
  <2> QED BY <2>1, <2>2, <2>3
<1>6. CallsInv'
  BY <1>1, CallsNone DEF CallsInv, Idle
<1> QED BY <1>4, <1>5, <1>6 DEF CountInv

\* The downtime that goes was not counted any more, and no other call is of it.
LEMMA StopDoneCounts ==
    ASSUME IInv, IInv', CountInv, StopDone
    PROVE  CountInv'
<1> DEFINE id == Top.id
           gone == {id}
           t == Tail(stack)
<1>1. /\ Calling("stop") /\ Delete(gone) /\ stack' = t /\ events' \subseteq events
      /\ UNCHANGED <<depth, pending, asked, now>>
  BY DEF StopDone, outside, counters
<1>2. /\ stack \in Seq(FrameRec) /\ stack # <<>> /\ stack[1].proc = "stop" /\ stack[1].id = id
      /\ Chain(stack) /\ id \in Ids /\ id \in Listed
      /\ t \in Seq(FrameRec) /\ Frames(t, Listed, Effective)
  BY <1>1, TopFacts DEF IInv, Procs, Running
<1> HIDE DEF id
<1>3. \A o \in Objects : pending'[o] <= pending[o]
  <2>1. \A o \in Objects : pending[o] \in Int
    BY DEF IInv, Types
  <2> QED BY <1>1, <2>1
<1>4. /\ EventsOnce' /\ PendingMeansWaiting' /\ Listed' = Listed \ gone
      /\ Effective' = Effective \ gone
      /\ \A d \in Ids \ gone : entry'[d] = entry[d]
  BY <1>1, <1>3, DeleteLeaves
<1>5. Ending' = Ending \ {id} /\ id \in Ending
  <2>1. id \in EndingIn(stack)
    <3>1. 1 \in DOMAIN stack
      BY <1>2, Places
    <3> QED BY <1>2, <3>1 DEF EndingIn
  <2> QED BY <1>1, <1>2, <2>1, EndingPop, NoneEnding
<1>6. DepthIsCount'
  <2>0. Listed \subseteq Ids
    BY ListedAreIds DEF IInv
  <2>1. \A o \in Objects : EffectiveOf(o)' = EffectiveOf(o)
    BY <1>4, <1>5, <2>0 DEF EffectiveOf, InEffect
  <2> QED BY <1>1, <2>1 DEF CountInv, DepthIsCount
<1>7. CallsInv'
  <2>1. Calls(t, Listed, Effective, Due, Quiet, Counted)
    BY <1>2, CallsPop DEF CountInv, CallsInv
  <2>0. \A d \in Due : d # id => d \in Due'
    BY <1>1, <1>4 DEF Due, Finish
  <2>2. ASSUME NEW i \in 1..Len(t), Good(t[i], Listed, Effective, Due, Quiet, Counted)
        PROVE  Good(t[i], Listed', Effective', Due', Quiet', Counted')
    <3>1. t[i].proc # "handle" /\ (t[i].proc # "flex" => t[i].id < id)
      BY <1>2, CallsBelow
    <3>2. t[i].proc = "stop" => t[i].id \in Due'
      <4> SUFFICES ASSUME t[i].proc = "stop" PROVE t[i].id \in Due'
        OBVIOUS
      <4>1. t[i].id \in Due
        BY <2>2 DEF Good
      <4>2. t[i].id \in Ids /\ t[i].id # id
        <5>1. t[i].id \in Ids
          BY <4>1 DEF Due
        <5>2. t[i].id \in Nat /\ id \in Nat
          BY <1>2, <5>1, ParentBefore
        <5> QED BY <3>1, <5>1, <5>2
      <4> QED BY <2>0, <4>1, <4>2
    <3>3. Listed' \subseteq Listed /\ Effective' \subseteq Effective
      BY <1>4
    <3>4. Counted \cap Listed' \subseteq Counted'
      BY <1>4 DEF Counted
    <3> QED BY <2>2, <3>1, <3>2, <3>3, <3>4, GoodKept
  <2>3. Calls(t, Listed', Effective', Due', Quiet', Counted')
    BY <1>2, <2>1, <2>2, CallsKept
  <2> QED BY <1>1, <2>3 DEF CallsInv
<1> QED BY <1>4, <1>6, <1>7 DEF CountInv

---------------------------------------------------------------------------------
(* Steps that add and count downtimes *)

\* A downtime that was never asked for has no event, and its object none that waits.
LEMMA ScheduleCounts ==
    ASSUME IInv, IInv', CountInv, NEW id \in Ids, Schedule(id)
    PROVE  CountInv'
<1>1. /\ Idle /\ id \notin asked /\ asked' = asked \cup {id}
      /\ UNCHANGED <<depth, pending, entry, now>> /\ stack' = stack
      /\ \/ /\ SortedIn(id)
            /\ events' = IF Parent(id) = 0
                         THEN events \cup {Event(id, Downtimes[id].start)} ELSE events
         \/ UNCHANGED <<list, events>>
  BY DEF Schedule, counters
<1>0. Types /\ Ordered(list) /\ Listed \subseteq Ids /\ Listed \subseteq asked /\ asked \subseteq Ids
  BY ListedAreIds DEF IInv, ListInv, Types
<1>2. Listed \subseteq Listed' /\ Listed' \subseteq Listed \cup {id}
  BY <1>0, <1>1, Added DEF Listed
<1>3. ~entry[id].in_effect /\ ~entry[id].incremented
  BY <1>0, <1>1 DEF IInv, ListInv, Blank
<1>4. \A e \in events' : e.kind = "DOWNTIME" =>
         (e \in events /\ e.id # id) \/ (e.id = id /\ e.at = Start(id))
  <2>1. \A e \in events : e.kind = "DOWNTIME" => e.id # id
    BY <1>1 DEF IInv, EventInv
  <2>2. \A e \in events' : e \in events \/ e = Event(id, Downtimes[id].start)
    BY <1>1
  <2>3. \A e : e = Event(id, Downtimes[id].start) => e.id = id /\ e.at = Start(id)
    BY DEF Event, Start
  <2> QED BY <2>1, <2>2, <2>3
<1>5. EventsOnce'
  <2> SUFFICES ASSUME NEW e \in events', e.kind = "DOWNTIME", e.id \in Listed'
               PROVE  IF InEffect(e.id)' THEN e.at >= Finish(e.id)'
                      ELSE e.at = Start(e.id) /\ ~entry'[e.id].incremented
    BY DEF EventsOnce
  <2>1. CASE e.id = id
    BY <1>1, <1>3, <1>4, <2>1 DEF InEffect
  <2>2. CASE e.id # id
    <3>1. e \in events /\ e.id \in Listed
      BY <1>2, <1>4, <2>2
    <3> QED BY <1>1, <3>1 DEF CountInv, EventsOnce, InEffect, Finish
  <2> QED BY <2>1, <2>2
<1>6. PendingMeansWaiting'
  <2>1. ~Fixed(id) => ~(pending[Object(id)] > 0)
    BY <1>1 DEF CountInv, PendingMeansWaiting
  <2> QED BY <1>1, <1>2, <2>1 DEF CountInv, PendingMeansWaiting
<1>7. DepthIsCount'
  <2>1. ASSUME NEW o \in Objects PROVE EffectiveOf(o)' = EffectiveOf(o)
    <3>1. \A d : InEffect(d)' = InEffect(d)
      BY <1>1 DEF InEffect
    <3>2. \A d \in Listed' : InEffect(d) => d \in Listed
      BY <1>2, <1>3 DEF InEffect
    <3>3. {d \in Listed' : Object(d) = o /\ InEffect(d)'}
          = {d \in Listed : Object(d) = o /\ InEffect(d)}
      BY <1>2, <3>1, <3>2
    <3> QED BY <1>1, <3>3, EffectiveAtRest
  <2> QED BY <1>1, <2>1 DEF CountInv, DepthIsCount
<1>8. CallsInv'
  BY <1>1, CallsNone DEF CallsInv, Idle
<1> QED BY <1>5, <1>6, <1>7, <1>8 DEF CountInv

\* A downtime that waits has no event any more, and it is the only one of its object.
LEMMA HandleWaitsCounts ==
    ASSUME Plain, IInv, IInv', CountInv, HandleWaits
    PROVE  CountInv'
<1> DEFINE id == Top.id
           p == Object(id)
           t == Tail(stack)
<1>1. /\ Calling("handle") /\ UNCHANGED <<depth, list, asked, now>> /\ ~Fixed(id)
      /\ pending' = [pending EXCEPT ![p] = More(@)]
      /\ entry' = [entry EXCEPT ![id].incremented = TRUE]
      /\ events' = events \cup {Expiry(Downtimes[id].end + 1)}
      /\ stack' = t
  BY DEF HandleWaits, outside, Waits
<1>2. /\ id \in Ids /\ id \in Listed /\ id \in asked /\ entry[id] \in EntryRec /\ p \in Objects
      /\ EndingIn(t) = Ending /\ Ending' = Ending
  BY <1>1, HandleFacts, NoneEnding
<1>3. /\ stack \in Seq(FrameRec) /\ stack # <<>> /\ Top = stack[1] /\ Top.proc = "handle"
      /\ t \in Seq(FrameRec) /\ Chain(stack) /\ 1 \in 1..Len(stack)
  <2>1. stack \in Seq(FrameRec) /\ stack # <<>>
    BY <1>1, TopFacts DEF IInv, Procs
  <2>2. 1 \in 1..Len(stack)
    BY <2>1, Places
  <2> QED BY <1>1, <2>1, <2>2, TopFacts DEF IInv, Procs
<1>0. Types /\ Listed' = Listed /\ Listed \subseteq Ids
  BY <1>1, ListedAreIds DEF IInv, Listed
<1>4. id \in Effective \/ id \in Quiet
  BY <1>3 DEF CountInv, CallsInv, Calls, Good
<1> HIDE DEF id, p
<1>5. /\ entry'[id].incremented
      /\ \A d \in Ids : /\ entry'[d].in_effect = entry[d].in_effect
                        /\ entry'[d].trigger_time = entry[d].trigger_time
                        /\ d # id => entry'[d] = entry[d]
  <2>1. [entry[id] EXCEPT !.incremented = TRUE] \in EntryRec
    BY <1>2 DEF EntryRec
  <2>2. entry \in [Ids -> EntryRec]
    BY <1>0 DEF Types
  <2>3. entry' = [entry EXCEPT ![id] = [entry[id] EXCEPT !.incremented = TRUE]]
    BY <1>1
  <2>4. /\ [entry[id] EXCEPT !.incremented = TRUE].in_effect = entry[id].in_effect
        /\ [entry[id] EXCEPT !.incremented = TRUE].trigger_time = entry[id].trigger_time
        /\ [entry[id] EXCEPT !.incremented = TRUE].incremented
    BY <1>2 DEF EntryRec
  <2> QED BY <1>2, <2>1, <2>2, <2>3, <2>4
<1>6. \A d \in Ids : Finish(d)' = Finish(d) /\ InEffect(d)' = InEffect(d)
  BY <1>5 DEF Finish, InEffect
<1>7. /\ Effective' = Effective /\ Due' = Due /\ Counted \subseteq Counted'
      /\ \A e \in events' : e.kind = "DOWNTIME" => e \in events
  <2>1. Effective' = Effective /\ Due' = Due
    BY <1>1, <1>6 DEF Effective, Due
  <2>2. Counted \subseteq Counted'
    BY <1>5 DEF Counted
  <2> QED BY <1>1, <2>1, <2>2 DEF Expiry
<1>8. EventsOnce'
  <2> SUFFICES ASSUME NEW e \in events', e.kind = "DOWNTIME", e.id \in Listed'
               PROVE  IF InEffect(e.id)' THEN e.at >= Finish(e.id)'
                      ELSE e.at = Start(e.id) /\ ~entry'[e.id].incremented
    BY DEF EventsOnce
  <2>1. e \in events /\ e.id \in Listed /\ e.id \in Ids
    BY <1>0, <1>7
  <2>2. IF InEffect(e.id) THEN e.at >= Finish(e.id)
        ELSE e.at = Start(e.id) /\ ~entry[e.id].incremented
    BY <2>1 DEF CountInv, EventsOnce
  <2>3. ~InEffect(e.id) => e.id # id
    BY <1>4, <2>1 DEF Effective, Quiet
  <2>4. ~InEffect(e.id) => entry'[e.id] = entry[e.id]
    BY <1>5, <2>1, <2>3
  <2>5. InEffect(e.id)' = InEffect(e.id) /\ Finish(e.id)' = Finish(e.id)
    <3>1. \A d \in Ids : d = e.id => InEffect(e.id)' = InEffect(d) /\ Finish(e.id)' = Finish(d)
      BY <1>5 DEF InEffect, Finish
    <3> QED BY <2>1, <3>1
  <2> QED BY <2>2, <2>4, <2>5
<1>9. PendingMeansWaiting'
  <2> SUFFICES ASSUME NEW d \in Ids, ~Fixed(d), pending'[Object(d)] > 0
               PROVE  d \in asked /\ (d \in Listed => entry'[d].incremented)
    BY <1>0, <1>1 DEF PendingMeansWaiting
  <2>1. CASE Object(d) = p
    <3>1. d = id
      BY <1>1, <1>2, <2>1 DEF Plain, p
    <3> QED BY <1>2, <1>5, <3>1
  <2>2. CASE Object(d) # p
    <3>1. pending'[Object(d)] = pending[Object(d)]
      BY <1>0, <1>1, <2>2, EventTypes DEF Types
    <3>2. d # id
      BY <2>2 DEF p
    <3> QED BY <1>5, <3>1, <3>2 DEF CountInv, PendingMeansWaiting
  <2> QED BY <2>1, <2>2
<1>10. DepthIsCount'
  <2>1. \A o \in Objects : EffectiveOf(o)' = EffectiveOf(o)
    BY <1>0, <1>2, <1>5 DEF EffectiveOf, InEffect
  <2> QED BY <1>1, <2>1 DEF CountInv, DepthIsCount
<1>11. CallsInv'
  <2>1. Calls(t, Listed, Effective, Due, Quiet, Counted)
    BY <1>3, CallsPop DEF CountInv, CallsInv
  <2>2. \A i \in 1..Len(t) : t[i].proc # "handle"
    BY <1>3, CallsBelow
  <2> HIDE DEF t
  <2>3. \A i \in 1..Len(t) : Good(t[i], Listed, Effective, Due, Quiet, Counted)
                             => Good(t[i], Listed, Effective, Due, Quiet', Counted')
    <3>1. Counted \cap Listed \subseteq Counted'
      BY <1>7
    <3>2. \A i \in 1..Len(t) : Good(t[i], Listed, Effective, Due, Quiet, Counted)
                               /\ t[i].proc = "stop" => t[i].id \in Due
      BY DEF Good
    <3> QED BY <2>2, <3>1, <3>2, GoodKept
  <2>4. Calls(t, Listed, Effective, Due, Quiet', Counted')
    BY <1>3, <2>1, <2>3, CallsKept
  <2> QED BY <1>0, <1>1, <1>7, <2>4 DEF CallsInv
<1> QED BY <1>8, <1>9, <1>10, <1>11 DEF CountInv

\* A downtime that ends is counted down once, because it was in effect.
LEMMA HandleStopCounts ==
    ASSUME IInv, IInv', CountInv, HandleStop
    PROVE  CountInv'
<1> DEFINE id == Top.id
           p == Object(id)
           f == Frame("stop", id, <<>>, 0, 0)
           t == Tail(stack)
<1>1. /\ Calling("handle") /\ HandlingEnded(id)
      /\ UNCHANGED <<list, entry, asked, events, now>>
      /\ depth' = [depth EXCEPT ![p] = Less(@)]
      /\ pending' = IF ~Fixed(id) /\ entry[id].incremented /\ pending[p] > 0
                    THEN [pending EXCEPT ![p] = @ - 1] ELSE pending
      /\ stack' = <<f>> \o t
  BY DEF HandleStop, outside, downtimes
<1>2. /\ id \in Ids /\ id \in Listed /\ p \in Objects /\ EndingIn(t) = Ending /\ id \notin Ending
  BY <1>1, HandleFacts
<1>3. /\ stack \in Seq(FrameRec) /\ stack # <<>> /\ id = stack[1].id
      /\ t \in Seq(FrameRec) /\ Chain(stack)
  BY <1>1, TopFacts DEF IInv, Procs
<1>4. f \in FrameRec /\ f.proc = "stop" /\ f.id = id
  <2>1. <<>> \in Seq(Ids)
    BY EmptySeq
  <2> HIDE DEF id
  <2> QED BY <1>2, <2>1 DEF Frame, FrameRec, Procs
<1>5. id \in Due /\ InEffect(id)
  BY <1>1, <1>2 DEF HandlingEnded, Due, Finish, End, Duration
<1> HIDE DEF id, p, f
<1>0. /\ Types /\ Listed' = Listed /\ Listed \subseteq Ids /\ Effective' = Effective
      /\ Due' = Due /\ Quiet' = Quiet /\ Counted' = Counted
  BY <1>1, ListedAreIds, SameIsSame DEF IInv, Listed, Due, Quiet, Counted, Finish
<1>6. Ending' = Ending \cup {id}
  BY <1>1, <1>2, <1>3, <1>4, EndingPush, NoneEnding
<1>7. EventsOnce'
  BY <1>0, <1>1 DEF CountInv, EventsOnce, InEffect, Finish
<1>8. PendingMeansWaiting'
  <2> SUFFICES ASSUME NEW d \in Ids, ~Fixed(d), pending'[Object(d)] > 0
               PROVE  pending[Object(d)] > 0
    BY <1>0, <1>1 DEF CountInv, PendingMeansWaiting
  <2>1. pending[Object(d)] \in Int /\ pending'[Object(d)] \in {pending[Object(d)], pending[Object(d)] - 1}
    BY <1>0, <1>1, EventTypes DEF Types
  <2> QED BY <2>1
<1>9. DepthIsCount'
  <2> SUFFICES ASSUME NEW o \in Objects
               PROVE  depth'[o] = Cardinality(EffectiveOf(o)')
    BY DEF DepthIsCount
  <2>1. depth[o] = Cardinality(EffectiveOf(o))
        /\ depth'[o] = IF o = p THEN Less(depth[o]) ELSE depth[o]
    BY <1>0, <1>1 DEF CountInv, DepthIsCount, Types
  <2>2. CASE o # p
    <3>1. EffectiveOf(o)' = EffectiveOf(o)
      BY <1>0, <1>1, <1>6, <2>2 DEF EffectiveOf, InEffect, p
    <3> QED BY <2>1, <2>2, <3>1
  <2>3. CASE o = p
    <3> DEFINE S == EffectiveOf(o)
               T == EffectiveOf(o)'
    <3>1. T = S \ {id} /\ id \in S /\ S \in SUBSET Ids
      BY <1>0, <1>1, <1>2, <1>5, <1>6, <2>3 DEF EffectiveOf, InEffect, p
    <3>2. depth[o] = Cardinality(S) /\ depth'[o] = Less(depth[o])
      BY <2>1, <2>3
    <3> HIDE DEF S, T
    <3>3. Cardinality(T) = Cardinality(S) - 1 /\ Cardinality(S) \in Nat /\ Cardinality(T) \in Nat
      <4>1. IsFiniteSet(S) /\ T \in SUBSET Ids
        BY <3>1, Countable
      <4> QED BY <3>1, <4>1, FS_RemoveElement, Countable
    <3>4. MaxCount \in Nat
      BY BoundAssumption
    <3> QED BY <3>2, <3>3, <3>4 DEF Less, T
  <2> QED BY <2>2, <2>3
<1>10. CallsInv'
  <2>1. Calls(t, Listed, Effective, Due, Quiet, Counted)
    BY <1>3, CallsPop DEF CountInv, CallsInv
  <2>2. t # <<>> => Apart(f, t[1])
    <3>1. t # <<>> => Apart(stack[1], t[1])
      BY <1>3, CallsBelow DEF CountInv, CallsInv
    <3> QED BY <1>3, <1>4, <3>1 DEF Apart
  <2>3. Good(f, Listed, Effective, Due, Quiet, Counted)
    BY <1>4, <1>5 DEF Good
  <2> HIDE DEF t
  <2>4. Calls(<<f>> \o t, Listed, Effective, Due, Quiet, Counted)
    BY <1>3, <1>4, <2>1, <2>2, <2>3, CallsPush
  <2> QED BY <1>0, <1>1, <2>4 DEF CallsInv
<1> QED BY <1>7, <1>8, <1>9, <1>10 DEF CountInv

\* A downtime that starts was not in effect, or its call would end it.  No loop that goes
\* on comes to it again: the innermost has called for it, and the others are of other
\* downtimes than the one that triggers it.
LEMMA HandleStartCounts ==
    ASSUME IInv, IInv', CountInv, HandleStart
    PROVE  CountInv'
<1> DEFINE id == Top.id
           p == Object(id)
           f == Begins(id)
           t == Tail(stack)
<1>1. /\ Calling("handle") /\ ~HandlingEnded(id) /\ Ending' = Ending
      /\ UNCHANGED <<pending, list, asked, now>> /\ Listed' = Listed
      /\ depth' = [depth EXCEPT ![p] = More(depth[p])]
      /\ events' = events \cup {Event(id, EndOf(id))} /\ stack' = <<f>> \o t
      /\ Effective' = Effective \cup {id}
  BY HandleStartDoes
<1>2. f \in FrameRec /\ f.proc = "start" /\ f.id = id /\ f.todo = list
  BY HandleStartDoes
<1>3. /\ entry'[id].in_effect /\ entry'[id].incremented = entry[id].incremented
      /\ entry'[id].trigger_time \in {entry[id].trigger_time, now}
      /\ \A d \in Ids : d # id => entry'[d] = entry[d]
  BY HandleStartDoes
<1>4. id \in Ids /\ id \in Listed /\ p \in Objects /\ id \notin Ending
  BY <1>1, HandleFacts
<1>5. /\ stack \in Seq(FrameRec) /\ stack # <<>> /\ Top = stack[1] /\ Top.proc = "handle"
      /\ t \in Seq(FrameRec) /\ Chain(stack) /\ 1 \in 1..Len(stack) /\ id = stack[1].id
      /\ Frames(t, Listed, Effective)
  <2>1. stack \in Seq(FrameRec) /\ stack # <<>>
    BY <1>1, TopFacts DEF IInv, Procs
  <2>2. 1 \in 1..Len(stack)
    BY <2>1, Places
  <2> QED BY <1>1, <2>1, <2>2, TopFacts DEF IInv, Procs
<1>0. Types /\ Listed \subseteq Ids /\ IsInjective(list) /\ Range(list) = Listed
  BY ListedAreIds DEF IInv, ListInv, Ordered, Listed
<1>6. Calls(stack, Listed, Effective, Due, Quiet, Counted)
  BY DEF CountInv, CallsInv
<1>7. ~InEffect(id) /\ id \notin Effective /\ id \in Quiet
  <2>1. Good(Top, Listed, Effective, Due, Quiet, Counted)
    BY <1>5, <1>6 DEF Calls
  <2>2. id \in Effective => id \in Due
    BY <1>5, <2>1 DEF Good
  <2>3. id \in Effective /\ id \in Due => HandlingEnded(id)
    BY DEF Effective, Due, Finish, HandlingEnded, End, Duration
  <2>4. id \notin Effective
    BY <1>1, <2>2, <2>3
  <2>5. id \in Quiet
    BY <1>5, <2>1, <2>4 DEF Good
  <2> QED BY <1>4, <2>4, <2>5 DEF Effective
<1>20. EndOf(id) >= IF Fixed(id) THEN End(id) ELSE entry'[id].trigger_time + Duration(id)
  <2>1. End(id) \in Nat /\ Duration(id) \in Nat
    BY <1>4, EventTypes
  <2>2. entry'[id].trigger_time \in Int /\ now \in Int
    BY <1>4, BoundAssumption DEF IInv, Types, EntryRec, Time
  <2>3. entry'[id].trigger_time <= now
    BY <1>1, <1>4 DEF IInv, TimeInv
  <2> QED BY <2>1, <2>2, <2>3 DEF EndOf
<1> HIDE DEF id, p, f, t
<1>8. EventsOnce'
  <2> SUFFICES ASSUME NEW e \in events', e.kind = "DOWNTIME", e.id \in Listed'
               PROVE  IF InEffect(e.id)' THEN e.at >= Finish(e.id)'
                      ELSE e.at = Start(e.id) /\ ~entry'[e.id].incremented
    BY DEF EventsOnce
  <2>1. e.id \in Listed /\ e.id \in Ids
    BY <1>0, <1>1
  <2>2. CASE e \in events
    <3>1. e.id # id
      BY <1>7, <2>2 DEF Quiet
    <3>2. entry'[e.id] = entry[e.id]
      BY <1>3, <2>1, <3>1
    <3> QED BY <2>1, <2>2, <3>2 DEF CountInv, EventsOnce, InEffect, Finish
  <2>3. CASE e \notin events
    <3>1. e = Event(id, EndOf(id))
      BY <1>1, <2>3
    <3>2. e.id = id /\ e.at = EndOf(id)
      BY <3>1 DEF Event
    <3> QED BY <1>3, <1>20, <3>2 DEF InEffect, Finish
  <2> QED BY <2>2, <2>3
<1>9. PendingMeansWaiting'
  <2>1. \A d \in Listed : entry'[d].incremented = entry[d].incremented
    BY <1>0, <1>3
  <2> QED BY <1>1, <2>1 DEF CountInv, PendingMeansWaiting
<1>10. DepthIsCount'
  <2> SUFFICES ASSUME NEW o \in Objects
               PROVE  depth'[o] = Cardinality(EffectiveOf(o)')
    BY DEF DepthIsCount
  <2>1. depth[o] = Cardinality(EffectiveOf(o))
        /\ depth'[o] = IF o = p THEN More(depth[o]) ELSE depth[o]
    BY <1>0, <1>1 DEF CountInv, DepthIsCount, Types
  <2>0. \A d \in Listed : entry'[d].in_effect <=> entry[d].in_effect \/ d = id
    BY <1>0, <1>3
  <2>2. CASE o # p
    <3>1. EffectiveOf(o)' = EffectiveOf(o)
      BY <1>1, <2>0, <2>2 DEF EffectiveOf, InEffect, p
    <3> QED BY <2>1, <2>2, <3>1
  <2>3. CASE o = p
    <3> DEFINE S == EffectiveOf(o)
               T == EffectiveOf(o)'
    <3>1. T = S \cup {id} /\ id \notin S /\ S \in SUBSET Ids
      BY <1>0, <1>1, <1>4, <1>7, <2>0, <2>3 DEF EffectiveOf, InEffect, p
    <3>2. depth[o] = Cardinality(S) /\ depth'[o] = More(depth[o])
      BY <2>1, <2>3
    <3> HIDE DEF S, T
    <3>3. Cardinality(T) = Cardinality(S) + 1 /\ Cardinality(S) < MaxCount
      BY <1>4, <3>1, CountOneMore
    <3> QED BY <3>2, <3>3 DEF More, T
  <2> QED BY <2>2, <2>3
<1>11. Good(f, Listed', Effective', Due', Quiet', Counted')
  <2> SUFFICES ASSUME NEW c \in Listed, Parent(c) = id
               PROVE  c \notin Effective'
    BY <1>0, <1>1, <1>2 DEF Good
  <2>1. c \in Ids /\ Parent(c) # 0 /\ c # id
    <3>1. c \in Ids
      BY <1>0
    <3>2. Parent(c) < c /\ c \in Nat /\ id \in Nat \ {0}
      BY <1>4, <3>1, ParentBefore
    <3> QED BY <3>1, <3>2
  <2>2. ~InEffect(c)
    BY <1>7, <2>1 DEF IInv, TriggeredWithin
  <2> QED BY <1>1, <2>1, <2>2 DEF Effective
<1>12. \A d \in Due : d # id => d \in Due'
  BY <1>1, <1>3 DEF Due, Finish
<1>13. Counted' = Counted
  BY <1>3 DEF Counted
<1>14. Calls(t, Listed', Effective', Due', Quiet', Counted')
  <2>1. Calls(t, Listed, Effective, Due, Quiet, Counted)
    BY <1>5, <1>6, CallsPop DEF t
  <2>2. ASSUME NEW i \in 1..Len(t), Good(t[i], Listed, Effective, Due, Quiet, Counted)
        PROVE  Good(t[i], Listed', Effective', Due', Quiet', Counted')
    <3>1. /\ t[i].proc # "handle" /\ (t[i].proc # "flex" => t[i].id < id)
          /\ t[i].proc # "flex" /\ i # 1 => t[i].id < t[1].id
          /\ t # <<>>
      <4>1. t # <<>>
        BY <1>5, Places
      <4> QED BY <1>5, <4>1, CallsBelow DEF t
    <3>2. t[i].proc # "flex" => t[i].id \in Ids /\ t[i].id \in Nat /\ id \in Nat
      <4>1. t[i].proc # "flex" => t[i].id \in Listed
        BY <1>5 DEF Frames
      <4> QED BY <1>0, <1>4, <4>1, ParentBefore
    <3>3. t[i].proc = "stop" => t[i].id \in Due'
      BY <1>12, <2>2, <3>1, <3>2 DEF Good
    <3>4. t[i].proc = "start" =>
             \A c \in Range(t[i].todo) \cap Listed' :
                 Parent(c) = t[i].id /\ c \in Effective' => c \in Effective
      <4> SUFFICES ASSUME t[i].proc = "start", id \in Range(t[i].todo), Parent(id) = t[i].id
                   PROVE  FALSE
        BY <1>1
      <4>1. Outer(stack[1], t[1]) /\ Apart(stack[1], t[1])
        BY <1>5, <1>6, <3>1, CallsBelow DEF t
      <4>2. i # 1
        BY <1>5, <4>1 DEF Apart
      <4>3. t[1].proc \in Running /\ Parent(id) = t[1].id
        BY <1>5, <3>2, <4>1, ParentBefore DEF Outer
      <4> QED BY <3>1, <3>2, <4>2, <4>3
    <3>5. Listed' \subseteq Listed /\ Counted \cap Listed' \subseteq Counted'
      BY <1>1, <1>13
    <3> QED BY <2>2, <3>1, <3>3, <3>4, <3>5, GoodKept
  <2> QED BY <1>5, <2>1, <2>2, CallsKept
<1>15. CallsInv'
  <2>1. t # <<>> => Apart(f, t[1])
    <3>1. t # <<>> => Apart(stack[1], t[1])
      BY <1>5, <1>6, CallsBelow DEF t
    <3> QED BY <1>2, <1>5, <3>1 DEF Apart
  <2>2. Calls(<<f>> \o t, Listed', Effective', Due', Quiet', Counted')
    BY <1>2, <1>5, <1>11, <1>14, <2>1, CallsPush
  <2> QED BY <1>1, <2>2 DEF CallsInv
<1> QED BY <1>8, <1>9, <1>10, <1>15 DEF CountInv

---------------------------------------------------------------------------------

LEMMA InitCounts == Init => CountInv
<1> SUFFICES ASSUME Init PROVE CountInv
  OBVIOUS
<1>1. list = <<>> /\ Listed = {} /\ stack = <<>> /\ events = {}
      /\ \A o \in Objects : depth[o] = 0 /\ pending[o] = 0
  BY DEF Init, Listed, Range
<1>2. EventsOnce /\ CallsInv
  BY <1>1, CallsNone DEF EventsOnce, CallsInv
<1>3. PendingMeansWaiting
  BY <1>1, EventTypes DEF PendingMeansWaiting
<1>4. DepthIsCount
  <2>1. \A o \in Objects : EffectiveOf(o) = {}
    BY <1>1 DEF EffectiveOf
  <2>2. Cardinality({}) = 0
    BY FS_EmptySet
  <2>3. \A o \in Objects : Cardinality(EffectiveOf(o)) = 0
    BY <2>1, <2>2
  <2> QED BY <1>1, <2>3 DEF DepthIsCount
<1> QED BY <1>2, <1>3, <1>4 DEF CountInv

\* A restart is never undone, so the counting is of the steps before the first.
CountsUntilRestart == restarts = 0 => CountInv

LEMMA StepCounts ==
    Plain => (IInv /\ IInv' /\ CountsUntilRestart /\ [Next]_vars => CountsUntilRestart')
<1> SUFFICES ASSUME Plain, IInv, IInv', CountsUntilRestart, [Next]_vars, restarts' = 0
             PROVE  CountInv'
  BY DEF CountsUntilRestart
<1>0. ASSUME restarts = restarts' PROVE CountInv
  BY <1>0 DEF CountsUntilRestart
<1>1. ASSUME NEW id \in Ids, Schedule(id) PROVE CountInv'
  BY <1>0, <1>1, ScheduleCounts DEF Schedule
<1>2. ASSUME NEW id \in Ids, Unschedule(id) PROVE CountInv'
  BY <1>0, <1>2, UnscheduleCounts DEF Unschedule, outside
<1>3. ASSUME NEW e \in events, RunScheduled(e) PROVE CountInv'
  BY <1>0, <1>3, RunScheduledCounts DEF RunScheduled, outside
<1>4. ASSUME NEW e \in events, RunExpire(e) PROVE CountInv'
  BY <1>0, <1>4, RunExpireCounts DEF RunExpire, outside
<1>5. CASE HandleWaits
  BY <1>0, <1>5, HandleWaitsCounts DEF HandleWaits, outside
<1>6. CASE HandleStop
  BY <1>0, <1>6, HandleStopCounts DEF HandleStop, outside
<1>7. CASE StopNext
  BY <1>0, <1>7, StopNextDoes, StopNextCounts DEF outside
<1>8. CASE StopDone
  BY <1>0, <1>8, StopDoneCounts DEF StopDone, outside
<1>9. CASE HandleStart
  BY <1>0, <1>9, HandleStartDoes, HandleStartCounts
<1>10. CASE StartNext
  BY <1>0, <1>10, StartNextDoes, StartNextCounts DEF outside
<1>11. CASE StartDone
  BY <1>0, <1>11, ReturnCounts DEF StartDone, outside
<1>12. CASE FlexNext
  BY <1>0, <1>12, FlexNextDoes, FlexNextCounts
<1>13. CASE FlexDone
  BY <1>0, <1>13, ReturnCounts DEF FlexDone, outside
<1>14. ASSUME NEW o \in Objects, NEW new \in {"OK", "SOFT", "HARD"}, CheckResult(o, new)
       PROVE  CountInv'
  <2>1. restarts = restarts'
    BY <1>14, Zenon DEF CheckResult
  <2> QED BY <1>0, <1>14, <2>1, CheckResultCounts
<1>15. CASE Restart
  <2>1. restarts' = restarts + 1 /\ restarts \in Nat
    <3>1. restarts' = restarts + 1
      BY <1>15, Zenon DEF Restart
    <3> QED BY <3>1, BoundAssumption DEF IInv, Types
  <2> QED BY <2>1
<1>16. CASE Tick
  BY <1>0, <1>16, TickCounts DEF Tick, outside
<1>17. CASE UNCHANGED vars
  <2> USE <1>17 DEF vars, counters, downtimes, outside
  <2>1. Leaves
    <3>1. now \in Int
      BY BoundAssumption DEF IInv, Types, Time
    <3> QED BY <3>1, SameIsSame, NoneEnding DEF Leaves
  <2>2. /\ EventsOnce' /\ PendingMeansWaiting' /\ DepthIsCount'
        /\ Listed' = Listed /\ Effective' = Effective /\ Counted' = Counted
        /\ Due \subseteq Due' /\ Quiet \subseteq Quiet'
    BY <1>0, <2>1, LeavesCounts
  <2>3. stack \in Seq(FrameRec) /\ Calls(stack, Listed, Effective, Due, Quiet, Counted)
    BY <1>0 DEF CountInv, CallsInv, IInv, Types
  <2>4. CallsInv'
    BY <2>2, <2>3, CallsMore DEF CallsInv
  <2> QED BY <2>2, <2>4 DEF CountInv
<1> QED
  BY <1>1, <1>2, <1>3, <1>4, <1>5, <1>6, <1>7, <1>8, <1>9, <1>10, <1>11, <1>12, <1>13,
     <1>14, <1>15, <1>16, <1>17
  DEF Next, Command, RunEvent, Handler

\* The counters are right: until the program restarts scheduled_downtime_depth is the
\* number of downtimes in effect, in the middle of the recursive calls too, if what is
\* triggered is fixed and ends within its trigger, and a flexible downtime is the only
\* one of a service.
THEOREM CountersAlwaysMatch == Plain => (Spec => []CountersMatch)
<1> SUFFICES ASSUME Plain PROVE Spec => []CountersMatch
  OBVIOUS
<1>1. Init => CountsUntilRestart
  BY InitCounts DEF CountsUntilRestart
<1>2. IInv /\ IInv' /\ CountsUntilRestart /\ [Next]_vars => CountsUntilRestart'
  BY StepCounts
<1>3. CountsUntilRestart => DepthCounts
  <2>1. \A o : EffectiveOf(o) = {id \in Listed : Object(id) = o /\ InEffect(id)} \ Ending
    BY DEF EffectiveOf
  <2> QED BY <2>1 DEF CountsUntilRestart, CountInv, DepthIsCount, DepthCounts
<1>4. TypeOK /\ WaitingIsCounted /\ DepthCounts => CountersMatch
  BY DEF CountersMatch
<1> QED BY <1>1, <1>2, <1>3, <1>4, Invariant, TypeCorrect, WaitingAlwaysCounted, PTL DEF Spec
=================================================================================
