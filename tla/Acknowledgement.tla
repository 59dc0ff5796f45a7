----------------------------- MODULE Acknowledgement ------------------------------
(***************************************************************************)
(* An acknowledgement of a service problem over time: the flag, its end    *)
(* time, the timed event that expires it, its comments, and what the       *)
(* retention file makes of them after a restart or a crash.  The functions *)
(* for hosts are the same.                                                 *)
(*                                                                         *)
(* The expiry event names the service and not the acknowledgement.         *)
(*                                                                         *)
(* A check result is only a new state here: ServiceCheck has the rest.     *)
(* Comments are told apart by what decides about their deletion.           *)
(***************************************************************************)
EXTENDS Integers

CONSTANTS
    Problems,    \* the non-OK states in use
    Ends,        \* end times given by commands; 0 is none
    Persistence, \* whether the comments of these commands are persistent
    MaxTime,     \* bound: the clock stops here
    MaxEvents    \* bound: expiry events for one time

ASSUME ProblemsAssumption == "OK" \notin Problems
ASSUME TimeAssumption == MaxTime \in Nat /\ MaxEvents \in Nat
ASSUME InputAssumption == Ends \subseteq 0..MaxTime /\ Persistence \subseteq BOOLEAN

VARIABLES
    state,       \* current_state of the service
    ack,         \* problem_has_been_acknowledged, acknowledgement_type and _end_time
    comments,    \* acknowledgement comments of the service
    events,      \* how many EVENT_EXPIRE_ACKNOWLEDGEMENT are in the event list, by run time
    now,         \* the clock
    up,          \* the program is running
    retained     \* the retention file

memory == <<state, ack, comments, events>>
vars == <<memory, now, up, retained>>

ServiceState == Problems \cup {"OK"}
Time == 0..MaxTime

Ack == [flag : BOOLEAN, type : {"NONE", "NORMAL", "STICKY"}, end : Time]
Comment == [persistent : BOOLEAN]
Retained == [state : ServiceState, ack : Ack, comments : SUBSET Comment]

TypeOK ==
    /\ state \in ServiceState
    /\ ack \in Ack
    /\ comments \subseteq Comment
    /\ events \in [0..MaxTime + 1 -> Nat]
    /\ now \in Time
    /\ up \in BOOLEAN
    /\ retained \in Retained

NoAck == [flag |-> FALSE, type |-> "NONE", end |-> 0]
NoEvents == [t \in 0..MaxTime + 1 |-> 0]

Init ==
    /\ state = "OK"
    /\ ack = NoAck
    /\ comments = {}
    /\ events = NoEvents
    /\ now = 0
    /\ up = TRUE
    /\ retained = [state |-> "OK", ack |-> NoAck, comments |-> {}]

---------------------------------------------------------------------------------
(* Helpers *)

\* There is an event at t and none before.
First(list, t) == list[t] > 0 /\ \A u \in DOMAIN list : u < t => list[u] = 0

Scheduled(list, t) == [list EXCEPT ![t] = @ + 1]

\* delete_scheduled_event() removes the first event for the service, whatever
\* its time is.
Deleted(list) ==
    [t \in DOMAIN list |-> IF First(list, t) THEN list[t] - 1 ELSE list[t]]

\* delete_service_acknowledgement_comments()
Lasting(cs) == {c \in cs : c.persistent}

\* Mutant: the comments stay.
RemoveFlagOnly(list) ==
    /\ events' = IF ack.end # 0 THEN Deleted(list) ELSE list
    /\ ack' = [ack EXCEPT !.flag = FALSE, !.end = 0]
    /\ UNCHANGED comments

\* remove_service_acknowledgement(), with the event list given.  The type stays.
Remove(list) ==
    /\ events' = IF ack.end # 0 THEN Deleted(list) ELSE list
    /\ ack' = [ack EXCEPT !.flag = FALSE, !.end = 0]
    /\ comments' = Lasting(comments)

---------------------------------------------------------------------------------
(* Actions *)

\* A check result.  The end time stays, and so does the event.
Result(new) ==
    /\ up
    /\ LET over == /\ new # state
                   /\ ack.type = "NORMAL" \/ (ack.type = "STICKY" /\ new = "OK")
       IN /\ ack' = IF over \/ new = "OK"
                    THEN [ack EXCEPT !.flag = FALSE, !.type = "NONE"]
                    ELSE ack
          /\ comments' = IF over THEN Lasting(comments) ELSE comments
    /\ state' = new
    /\ UNCHANGED <<events, now, up, retained>>

\* Mutant: only an acknowledgement that replaces none schedules its expiry.
AcknowledgeOnce(type, persistent, time) ==
    LET end == IF time > now THEN time ELSE 0
    IN /\ up
       /\ state # "OK"
       /\ end # 0 => events[end + 1] < MaxEvents
       /\ ack' = [flag |-> TRUE, type |-> type, end |-> end]
       /\ events' = IF end # 0 /\ ~ack.flag THEN Scheduled(events, end + 1) ELSE events
       /\ comments' = comments \cup {[persistent |-> persistent]}
       /\ UNCHANGED <<state, now, up, retained>>

\* ACKNOWLEDGE_SVC_PROBLEM (time 0) and ACKNOWLEDGE_SVC_PROBLEM_EXPIRE.
Acknowledge(type, persistent, time) ==
    LET end == IF time > now THEN time ELSE 0
    IN /\ up
       /\ state # "OK"
       /\ end # 0 => events[end + 1] < MaxEvents
       /\ ack' = [flag |-> TRUE, type |-> type, end |-> end]
       /\ events' = IF end # 0 THEN Scheduled(events, end + 1) ELSE events
       /\ comments' = comments \cup {[persistent |-> persistent]}
       /\ UNCHANGED <<state, now, up, retained>>

\* REMOVE_SVC_ACKNOWLEDGEMENT
RemoveAcknowledgement ==
    /\ up
    /\ Remove(events)
    /\ UNCHANGED <<state, now, up, retained>>

\* The event loop handles the first EVENT_EXPIRE_ACKNOWLEDGEMENT that is due.
ExpireAcknowledgement ==
    /\ up
    /\ \E t \in 0..now : First(events, t)
    /\ Remove(Deleted(events))
    /\ UNCHANGED <<state, now, up, retained>>

Tick ==
    /\ now < MaxTime
    /\ now' = now + 1
    /\ UNCHANGED <<memory, up, retained>>

\* EVENT_RETENTION_SAVE
Save ==
    /\ up
    /\ retained' = [state |-> state, ack |-> ack, comments |-> comments]
    /\ UNCHANGED <<memory, now, up>>

\* Shutdown, or the first half of a restart: save_state_information().
Stop ==
    /\ up
    /\ up' = FALSE
    /\ retained' = [state |-> state, ack |-> ack, comments |-> comments]
    /\ UNCHANGED <<memory, now>>

\* The program dies without saving.
Crash ==
    /\ up
    /\ up' = FALSE
    /\ UNCHANGED <<memory, now, retained>>

\* Mutant: nobody looks whether the acknowledgement ended in the meantime.
StartAnyway ==
    /\ ~up
    /\ up' = TRUE
    /\ state' = retained.state
    /\ ack' = retained.ack
    /\ events' = NoEvents
    /\ comments' = IF ack'.flag THEN retained.comments ELSE Lasting(retained.comments)
    /\ UNCHANGED <<now, retained>>

\* read_initial_state_information(): an acknowledgement that ended in the
\* meantime is gone, another one gets its event again.
Start ==
    /\ ~up
    /\ up' = TRUE
    /\ state' = retained.state
    /\ LET old == retained.ack
           expiring == old.flag /\ old.end # 0
       IN /\ ack' = IF expiring /\ old.end <= now THEN NoAck ELSE old
          /\ events' = IF expiring /\ old.end > now
                       THEN Scheduled(NoEvents, old.end + 1)
                       ELSE NoEvents
    /\ comments' = IF ack'.flag THEN retained.comments ELSE Lasting(retained.comments)
    /\ UNCHANGED <<now, retained>>

Command ==
    \/ \E type \in {"NORMAL", "STICKY"}, persistent \in Persistence, time \in Ends :
        Acknowledge(type, persistent, time)
    \/ RemoveAcknowledgement

Next ==
    \/ \E new \in ServiceState : Result(new)
    \/ Command
    \/ ExpireAcknowledgement
    \/ Tick
    \/ Save \/ Stop \/ Crash \/ Start

Spec == Init /\ [][Next]_vars

\* Time passes, due events are handled, and the program is started again.
FairSpec ==
    /\ Spec
    /\ WF_vars(Tick) /\ WF_vars(ExpireAcknowledgement) /\ WF_vars(Start)

---------------------------------------------------------------------------------
(* Properties *)

\* An acknowledgement with an end has its expiry event in the list, after any
\* sequence of acknowledgements, removals, expiries of others and restarts.
ExpiryScheduled ==
    up /\ ack.flag /\ ack.end # 0 => events[ack.end + 1] > 0

\* Comments that are not persistent go with the acknowledgement, also when it
\* ends while the program is not running.
CommentsFollowAck ==
    up /\ ~ack.flag => \A c \in comments : c.persistent

\* "Allows you to define the time when the acknowledgement will expire": the
\* program gets round to it, whenever and however often it is restarted.
ExpiringAckEnds ==
    \A e \in Ends \ {0, MaxTime} :
        (up /\ ack.flag /\ ack.end = e) ~> (up /\ ~(ack.flag /\ ack.end = e))
=================================================================================
