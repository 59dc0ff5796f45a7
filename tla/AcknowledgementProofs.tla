-------------------------- MODULE AcknowledgementProofs ---------------------------
(***************************************************************************)
(* Acknowledgement: the invariants its runs check on small instances, for  *)
(* every clock, bound and set of commands.                                 *)
(*                                                                         *)
(* CommentsFollowAck is not inductive alone: an OK clears the flag without *)
(* touching the comments, which is right only because no OK service is     *)
(* acknowledged, and a change of state deletes the comments only if the    *)
(* acknowledgement has a type.  Both must hold of the retention file too.  *)
(***************************************************************************)
EXTENDS Acknowledgement, TLAPS

\* What makes sense of an acknowledgement a of a service in state s.
Sound(a, s) == a.flag => a.type # "NONE" /\ s # "OK"

IInv ==
    /\ TypeOK
    /\ ExpiryScheduled
    /\ CommentsFollowAck
    /\ up => Sound(ack, state)
    /\ Sound(retained.ack, retained.state)

LEMMA InitInv == Init => IInv
BY TimeAssumption
   DEF Init, IInv, TypeOK, ExpiryScheduled, CommentsFollowAck, Sound, NoAck, NoEvents,
       ServiceState, Ack, Comment, Retained, Time

\* Taking the first event off a list gives a list.
LEMMA DeletedType ==
    ASSUME NEW list \in [0..MaxTime + 1 -> Nat]
    PROVE  Deleted(list) \in [0..MaxTime + 1 -> Nat]
<1>1. ASSUME NEW t \in 0..MaxTime + 1
      PROVE  (IF First(list, t) THEN list[t] - 1 ELSE list[t]) \in Nat
  BY <1>1 DEF First
<1> QED BY <1>1 DEF Deleted

\* One more event on a list.
LEMMA ScheduledType ==
    ASSUME NEW list \in [0..MaxTime + 1 -> Nat], NEW t \in 0..MaxTime + 1
    PROVE  /\ Scheduled(list, t) \in [0..MaxTime + 1 -> Nat]
           /\ Scheduled(list, t)[t] > 0
BY DEF Scheduled

LEMMA LastingType ==
    ASSUME NEW cs, cs \subseteq Comment
    PROVE  Lasting(cs) \subseteq Comment /\ \A c \in Lasting(cs) : c.persistent
BY DEF Lasting

\* Removing an acknowledgement, by command or by event.
LEMMA RemoveKeepsInv ==
    ASSUME IInv, NEW list \in [0..MaxTime + 1 -> Nat], Remove(list),
           UNCHANGED <<state, now, up, retained>>
    PROVE  IInv'
<1>1. events' \in [0..MaxTime + 1 -> Nat]
  BY DeletedType DEF Remove
<1>2. /\ ack' \in Ack
      /\ ~ack'.flag
  <2>1. ack \in Ack /\ 0 \in Time
    BY TimeAssumption DEF IInv, TypeOK, Time
  <2>2. ack' = [ack EXCEPT !.flag = FALSE, !.end = 0]
    BY DEF Remove
  <2> QED BY <2>1, <2>2 DEF Ack
<1>3. /\ comments' \subseteq Comment
      /\ \A c \in comments' : c.persistent
  BY LastingType DEF Remove, IInv, TypeOK
<1>4. TypeOK'
  BY <1>1, <1>2, <1>3 DEF IInv, TypeOK
<1> QED
  BY <1>2, <1>3, <1>4 DEF IInv, ExpiryScheduled, CommentsFollowAck, Sound

LEMMA ResultKeepsInv ==
    ASSUME IInv, NEW new \in ServiceState, Result(new)
    PROVE  IInv'
<1>0. /\ TypeOK
      /\ up /\ up'
      /\ Sound(ack, state)
      /\ ack.flag /\ ack.end # 0 => events[ack.end + 1] > 0
      /\ ~ack.flag => \A c \in comments : c.persistent
      /\ Sound(retained.ack, retained.state)
      /\ state' = new
      /\ UNCHANGED <<events, now, up, retained>>
  BY DEF IInv, Result, ExpiryScheduled, CommentsFollowAck
<1> DEFINE over == /\ new # state
                   /\ ack.type = "NORMAL" \/ (ack.type = "STICKY" /\ new = "OK")
<1>1. /\ ack' = IF over \/ new = "OK"
                THEN [ack EXCEPT !.flag = FALSE, !.type = "NONE"]
                ELSE ack
      /\ comments' = IF over THEN Lasting(comments) ELSE comments
  BY DEF Result
<1>2. /\ ack' \in Ack
      /\ ack'.end = ack.end
      /\ ack'.flag => ack.flag /\ ~over /\ new # "OK" /\ ack' = ack
  BY <1>0, <1>1 DEF TypeOK, Ack
<1>3. comments' \subseteq Comment
  BY <1>0, <1>1, LastingType DEF TypeOK
<1>4. ASSUME ~ack'.flag  PROVE \A c \in comments' : c.persistent
  <2>1. CASE over
    BY <2>1, <1>0, <1>1, LastingType DEF TypeOK
  <2>2. CASE ~over
    <3>1. ~ack.flag
      <4>1. SUFFICES ASSUME ack.flag PROVE FALSE
        OBVIOUS
      <4>2. new = "OK"
        BY <4>1, <2>2, <1>1, <1>4
      <4>3. ack.type # "NONE" /\ state # "OK"
        BY <4>1, <1>0 DEF Sound
      <4>4. ack.type \in {"NORMAL", "STICKY"}
        BY <4>3, <1>0 DEF TypeOK, Ack
      <4> QED BY <4>2, <4>3, <4>4, <2>2
    <3> QED BY <3>1, <2>2, <1>0, <1>1
  <2> QED BY <2>1, <2>2
<1> HIDE DEF over
<1>5. TypeOK'
  BY <1>0, <1>2, <1>3 DEF TypeOK
<1>6. Sound(ack, state)'
  BY <1>0, <1>2 DEF Sound
<1> QED
  BY <1>0, <1>2, <1>4, <1>5, <1>6 DEF IInv, ExpiryScheduled, CommentsFollowAck, Sound

LEMMA AcknowledgeKeepsInv ==
    ASSUME IInv, NEW type \in {"NORMAL", "STICKY"}, NEW persistent \in Persistence,
           NEW time \in Ends, Acknowledge(type, persistent, time)
    PROVE  IInv'
<1> DEFINE end == IF time > now THEN time ELSE 0
<1>0. /\ TypeOK
      /\ Sound(retained.ack, retained.state)
      /\ up /\ state # "OK"
      /\ ack' = [flag |-> TRUE, type |-> type, end |-> end]
      /\ events' = IF end # 0 THEN Scheduled(events, end + 1) ELSE events
      /\ comments' = comments \cup {[persistent |-> persistent]}
      /\ UNCHANGED <<state, now, up, retained>>
  BY DEF IInv, Acknowledge
<1>1. end \in Time /\ end + 1 \in 0..MaxTime + 1
  BY TimeAssumption, InputAssumption DEF Time
<1>2. persistent \in BOOLEAN
  BY InputAssumption
<1> HIDE DEF end
<1>3. /\ events' \in [0..MaxTime + 1 -> Nat]
      /\ end # 0 => events'[end + 1] > 0
  BY <1>0, <1>1, ScheduledType DEF TypeOK
<1>4. ack' \in Ack /\ ack'.flag /\ ack'.type # "NONE" /\ ack'.end = end
  BY <1>0, <1>1 DEF Ack
<1>5. comments' \subseteq Comment
  BY <1>0, <1>1, <1>2 DEF TypeOK, Comment
<1>6. TypeOK'
  BY <1>0, <1>3, <1>4, <1>5 DEF TypeOK
<1> QED
  BY <1>0, <1>3, <1>4, <1>6 DEF IInv, ExpiryScheduled, CommentsFollowAck, Sound

LEMMA StartKeepsInv ==
    ASSUME IInv, Start
    PROVE  IInv'
<1> DEFINE old == retained.ack
           expiring == old.flag /\ old.end # 0
<1>0. /\ TypeOK
      /\ Sound(old, retained.state)
      /\ state' = retained.state
      /\ ack' = IF expiring /\ old.end <= now THEN NoAck ELSE old
      /\ events' = IF expiring /\ old.end > now
                   THEN Scheduled(NoEvents, old.end + 1)
                   ELSE NoEvents
      /\ comments' = IF ack'.flag THEN retained.comments ELSE Lasting(retained.comments)
      /\ up'
      /\ UNCHANGED <<now, retained>>
  BY DEF IInv, Start
<1>1. /\ old \in Ack
      /\ retained.state \in ServiceState
      /\ retained.comments \subseteq Comment
      /\ now \in Nat
      /\ retained \in Retained
  BY <1>0, TimeAssumption DEF TypeOK, Retained, Time
<1>2. /\ old.end \in 0..MaxTime
      /\ old.end \in Nat
      /\ old.end + 1 \in 0..MaxTime + 1
  BY <1>1, TimeAssumption DEF Ack, Time
<1> HIDE DEF old
<1>3. NoEvents \in [0..MaxTime + 1 -> Nat]
  BY DEF NoEvents
<1>4. /\ events' \in [0..MaxTime + 1 -> Nat]
      /\ expiring /\ old.end > now => events'[old.end + 1] > 0
  BY <1>0, <1>2, <1>3, ScheduledType
<1>5. /\ NoAck \in Ack
      /\ ~NoAck.flag
  BY TimeAssumption DEF NoAck, Ack, Time
<1>6. /\ ack' \in Ack
      /\ ack'.flag => ack' = old
      /\ ack'.flag /\ ack'.end # 0 => expiring /\ old.end > now
  BY <1>0, <1>1, <1>2, <1>5
<1>7. /\ comments' \subseteq Comment
      /\ ~ack'.flag => \A c \in comments' : c.persistent
  BY <1>0, <1>1, LastingType
<1>8. TypeOK'
  BY <1>0, <1>1, <1>4, <1>6, <1>7 DEF TypeOK
<1>9. Sound(ack, state)'
  BY <1>0, <1>6 DEF Sound
<1>10. ExpiryScheduled'
  BY <1>4, <1>6 DEF ExpiryScheduled
<1> QED
  BY <1>0, <1>7, <1>8, <1>9, <1>10 DEF IInv, CommentsFollowAck, Sound, old

LEMMA StepInv == IInv /\ [Next]_vars => IInv'
<1> SUFFICES ASSUME IInv, [Next]_vars PROVE IInv'
  OBVIOUS
<1>0. TypeOK
  BY DEF IInv
<1>1. ASSUME NEW new \in ServiceState, Result(new) PROVE IInv'
  BY <1>1, ResultKeepsInv
<1>2. CASE Command
  <2>1. ASSUME NEW type \in {"NORMAL", "STICKY"}, NEW persistent \in Persistence,
               NEW time \in Ends, Acknowledge(type, persistent, time)
        PROVE  IInv'
    BY <2>1, AcknowledgeKeepsInv
  <2>2. CASE RemoveAcknowledgement
    BY <2>2, <1>0, RemoveKeepsInv DEF RemoveAcknowledgement, TypeOK
  <2> QED BY <1>2, <2>1, <2>2 DEF Command
<1>3. CASE ExpireAcknowledgement
  <2>1. Deleted(events) \in [0..MaxTime + 1 -> Nat]
    BY <1>0, DeletedType DEF TypeOK
  <2> QED BY <2>1, <1>3, RemoveKeepsInv DEF ExpireAcknowledgement
<1>4. CASE Tick
  <2>1. now' \in Time
    BY <1>0, <1>4, TimeAssumption DEF Tick, TypeOK, Time
  <2> QED
    BY <2>1, <1>4 DEF Tick, memory, IInv, TypeOK, ExpiryScheduled, CommentsFollowAck, Sound
<1>5. ASSUME Save \/ Stop PROVE IInv'
  <2>1. /\ up
        /\ Sound(ack, state)
        /\ retained' = [state |-> state, ack |-> ack, comments |-> comments]
        /\ up' \in BOOLEAN
        /\ up' => up
        /\ UNCHANGED <<state, ack, comments, events, now>>
    BY <1>0, <1>5 DEF Save, Stop, IInv, memory, TypeOK
  <2>2. /\ retained' \in Retained
        /\ Sound(retained.ack, retained.state)'
    BY <2>1, <1>0 DEF TypeOK, Retained, Sound
  <2> QED BY <2>1, <2>2 DEF IInv, TypeOK, ExpiryScheduled, CommentsFollowAck, Sound
<1>6. CASE Crash
  BY <1>6 DEF Crash, memory, IInv, TypeOK, ExpiryScheduled, CommentsFollowAck, Sound
<1>7. CASE Start
  BY <1>7, StartKeepsInv
<1>8. CASE UNCHANGED vars
  BY <1>8 DEF vars, memory, IInv, TypeOK, ExpiryScheduled, CommentsFollowAck, Sound
<1> QED
  BY <1>1, <1>2, <1>3, <1>4, <1>5, <1>6, <1>7, <1>8 DEF Next

LEMMA Invariant == Spec => []IInv
BY InitInv, StepInv, PTL DEF Spec

\* The variables of an acknowledgement keep their types; the event counts
\* never go below zero (delete_scheduled_event()).
THEOREM TypeCorrect == Spec => []TypeOK
<1>1. IInv => TypeOK
  BY DEF IInv
<1> QED BY <1>1, Invariant, PTL

\* Every acknowledgement with an end is going to be expired by an event, after
\* any restarts (acknowledge_service_problem(), xrddefault_read_state_information()).
THEOREM ExpiryIsScheduled == Spec => []ExpiryScheduled
<1>1. IInv => ExpiryScheduled
  BY DEF IInv
<1> QED BY <1>1, Invariant, PTL

\* No comment that is not persistent outlives its acknowledgement
\* (delete_service_acknowledgement_comments()).
THEOREM CommentsGo == Spec => []CommentsFollowAck
<1>1. IInv => CommentsFollowAck
  BY DEF IInv
<1> QED BY <1>1, Invariant, PTL
=================================================================================
