------------------------------- MODULE Downtime ---------------------------------
(***************************************************************************)
(* Scheduled downtime: the list of downtimes, the timed events that start, *)
(* end and expire them, and the two counters of a host or service that     *)
(* notifications and flexible downtimes rely on: scheduled_downtime_depth  *)
(* and pending_flex_downtime.                                              *)
(*                                                                         *)
(* handle_scheduled_downtime() calls itself for the downtimes that are     *)
(* triggered by its own and reads the clock again in every call, so its    *)
(* calls are frames of a stack and the clock may move between its steps.   *)
(*                                                                         *)
(* The ids of downtimes come from the commands of an instance, each given  *)
(* at most once.  Two events of one time and downtime are one: the second  *)
(* finds what the first left.  Both readings of the clock in the branch    *)
(* that starts a downtime are one.                                         *)
(***************************************************************************)
EXTENDS Integers, Sequences, SequencesExt, FiniteSets

CONSTANTS
    Objects,     \* hosts and services
    Hosts,       \* the hosts among them
    Downtimes,   \* the downtimes commands ask for, by id
    MaxTime,     \* bound: the clock stops here
    MaxCount,    \* bound: the counters stop here
    MaxRestarts  \* bound: restarts of the program

Ids == DOMAIN Downtimes

ASSUME ObjectAssumption == Hosts \subseteq Objects
\* The counters can count every downtime.
ASSUME BoundAssumption ==
    /\ MaxTime \in Nat /\ MaxCount \in Nat /\ MaxRestarts \in Nat
    /\ IsFiniteSet(Ids) /\ Cardinality(Ids) <= MaxCount
\* "downtime_id is ascending, and parent/trigger id before child id"
\* (common/downtime.c:1143)
ASSUME DowntimeAssumption ==
    /\ Ids \subseteq Nat \ {0}
    /\ \A id \in Ids :
        /\ Downtimes[id].object \in Objects
        /\ Downtimes[id].fixed \in BOOLEAN
        /\ Downtimes[id].start \in Nat
        /\ Downtimes[id].end \in Nat
        /\ Downtimes[id].duration \in Nat
        /\ Downtimes[id].triggered_by \in {0} \cup {p \in Ids : p < id}

VARIABLES
    state,       \* current_state and state_type of the objects: "OK", "SOFT", "HARD"
    depth,       \* scheduled_downtime_depth
    pending,     \* pending_flex_downtime
    list,        \* scheduled_downtime_list, as ids
    entry,       \* the fields of the downtimes that change
    events,      \* EVENT_SCHEDULED_DOWNTIME and EVENT_EXPIRE_DOWNTIME in the event list
    stack,       \* calls in progress, innermost first
    now,         \* the clock
    asked,       \* ids of the commands given
    restarts     \* restarts so far

counters == <<depth, pending>>
downtimes == <<list, entry>>
outside == <<state, asked, restarts>>
vars == <<counters, downtimes, outside, events, stack, now>>

Blank == [in_effect |-> FALSE, trigger_time |-> 0, start_flex |-> FALSE,
          incremented |-> FALSE]
Time == 0..MaxTime

TypeOK ==
    /\ state \in [Objects -> {"OK", "SOFT", "HARD"}]
    /\ depth \in [Objects -> -MaxCount..MaxCount]
    /\ pending \in [Objects -> 0..MaxCount]
    /\ Range(list) \subseteq Ids /\ IsInjective(list)
    /\ \A i, j \in DOMAIN list :
          i < j => Downtimes[list[i]].start <= Downtimes[list[j]].start
    /\ entry \in [Ids -> [in_effect : BOOLEAN, trigger_time : Time,
                          start_flex : BOOLEAN, incremented : BOOLEAN]]
    /\ \A e \in events : e.kind \in {"DOWNTIME", "EXPIRE"} /\ e.at \in Nat
    /\ \A i \in DOMAIN stack : stack[i].proc \in {"handle", "start", "stop", "flex"}
    /\ now \in Time /\ asked \subseteq Ids /\ restarts \in 0..MaxRestarts

Init ==
    /\ state = [o \in Objects |-> "OK"]
    /\ depth = [o \in Objects |-> 0] /\ pending = [o \in Objects |-> 0]
    /\ list = <<>> /\ entry = [id \in Ids |-> Blank]
    /\ events = {} /\ stack = <<>>
    /\ now = 0 /\ asked = {} /\ restarts = 0

---------------------------------------------------------------------------------
(* Helpers *)

Listed == Range(list)
Object(id) == Downtimes[id].object
Fixed(id) == Downtimes[id].fixed
Parent(id) == Downtimes[id].triggered_by
InEffect(id) == entry[id].in_effect

Idle == stack = <<>>
Top == Head(stack)
Calling(proc) == ~Idle /\ Top.proc = proc
Frame(proc, id, todo, at, time) ==
    [proc |-> proc, id |-> id, todo |-> todo, at |-> at, time |-> time]
Call(id) == Frame("handle", id, <<>>, 0, 0)

More(n) == IF n < MaxCount THEN n + 1 ELSE n
Less(n) == IF n > -MaxCount THEN n - 1 ELSE n

Event(id, at) == [kind |-> "DOWNTIME", id |-> id, at |-> at]
Expiry(at) == [kind |-> "EXPIRE", id |-> 0, at |-> at]

\* The first member of the sequence that satisfies P, and what follows it.
None(seq, P(_)) == \A i \in DOMAIN seq : ~P(seq[i])
FirstAt(seq, P(_)) ==
    CHOOSE i \in DOMAIN seq : P(seq[i]) /\ \A j \in 1..i - 1 : ~P(seq[j])
After(seq, i) == SubSeq(seq, i + 1, Len(seq))

\* The list that has these downtimes in this order, which is total.
Arranged(seq, ids, InOrder(_, _)) ==
    /\ seq \in SetToSeqs(ids)
    /\ \A i, j \in DOMAIN seq : i < j => InOrder(seq[i], seq[j])

\* a stands before b in the list.
Precedes(a, b) == \E i, j \in DOMAIN list : i < j /\ list[i] = a /\ list[j] = b

\* add_downtime() puts it behind those that start no later.
SortedIn(id) ==
    Arranged(list', Listed \cup {id},
             LAMBDA a, b : CASE b = id -> Downtimes[a].start <= Downtimes[id].start
                             [] a = id -> Downtimes[id].start < Downtimes[b].start
                             [] OTHER -> Precedes(a, b))

\* delete_downtime(), for a set of downtimes.
Delete(gone) ==
    /\ Arranged(list', Listed \ gone, Precedes)
    /\ entry' = [id \in Ids |-> IF id \in gone THEN Blank ELSE entry[id]]

\* The downtime and those it triggers, directly and indirectly.
Family(id) ==
    {d \in Listed : \A F \in SUBSET Listed :
        id \in F /\ (\A c \in Listed : Parent(c) \in F => c \in F) => d \in F}

HandlingEnded(id) ==
    /\ InEffect(id)
    /\ IF Fixed(id) THEN now >= Downtimes[id].end
                    ELSE now >= entry[id].trigger_time + Downtimes[id].duration

\* A flexible downtime whose object has no problem, and that no problem started.
Waits(id) == ~Fixed(id) /\ ~entry[id].start_flex /\ state[Object(id)] = "OK"

---------------------------------------------------------------------------------
(* Commands *)

\* schedule_downtime() and register_downtime().  A downtime whose parent is not
\* in the list is refused.
Schedule(id) ==
    /\ Idle
    /\ id \notin asked
    /\ asked' = asked \cup {id}
    /\ IF /\ Downtimes[id].start < Downtimes[id].end
          /\ Downtimes[id].end > now
          /\ Parent(id) \in Listed \cup {0}
       THEN /\ SortedIn(id)
            /\ events' = IF Parent(id) = 0
                         THEN events \cup {Event(id, Downtimes[id].start)}
                         ELSE events
       ELSE UNCHANGED <<list, events>>
    /\ UNCHANGED <<counters, entry, state, restarts, stack, now>>

\* Mutant: the downtimes it triggers stay.
UnscheduleAlone(id) ==
    /\ Idle
    /\ id \in Listed
    /\ depth' = [o \in Objects |-> depth[o] - IF Object(id) = o /\ InEffect(id) THEN 1 ELSE 0]
    /\ pending' = [o \in Objects |-> pending[o] - IF Object(id) = o /\ entry[id].incremented THEN 1 ELSE 0]
    /\ Delete({id})
    /\ UNCHANGED <<outside, events, stack, now>>

\* unschedule_downtime(), with the downtimes that this one triggers.  The search
\* for its event compares an address with an id, so the event stays.
Unschedule(id) ==
    LET family == Family(id)
        OfObject(o) == {d \in family : Object(d) = o}
    IN /\ Idle
       /\ id \in Listed
       /\ depth' = [o \in Objects |->
                      depth[o] - Cardinality({d \in OfObject(o) : InEffect(d)})]
       /\ pending' = [o \in Objects |->
                      pending[o] - Cardinality({d \in OfObject(o) :
                                                  ~Fixed(d) /\ entry[d].incremented})]
       /\ Delete(family)
       /\ UNCHANGED <<outside, events, stack, now>>

---------------------------------------------------------------------------------
(* handle_scheduled_downtime() *)

\* The event list runs the earliest event that is due.
RunScheduled(e) ==
    /\ Idle
    /\ e \in events /\ e.kind = "DOWNTIME" /\ e.at <= now
    /\ \A f \in events : e.at <= f.at
    /\ events' = events \ {e}
    /\ stack' = IF e.id \in Listed THEN <<Call(e.id)>> ELSE <<>>
    /\ UNCHANGED <<counters, downtimes, outside, now>>

\* The object is well: the downtime waits, and expires if nothing starts it.
HandleWaits ==
    LET id == Top.id
    IN /\ Calling("handle")
       /\ Waits(id)
       /\ pending' = [pending EXCEPT ![Object(id)] = More(@)]
       /\ entry' = [entry EXCEPT ![id].incremented = TRUE]
       /\ events' = events \cup {Expiry(Downtimes[id].end + 1)}
       /\ stack' = Tail(stack)
       /\ UNCHANGED <<depth, list, outside, now>>

\* Mutant: the downtime ends and is not counted down.
HandleStopUncounted ==
    LET id == Top.id
    IN /\ Calling("handle")
       /\ ~Waits(id)
       /\ HandlingEnded(id)
       /\ stack' = <<Frame("stop", id, <<>>, 0, 0)>> \o Tail(stack)
       /\ UNCHANGED <<depth, pending, downtimes, outside, events, now>>

\* The downtime ends: first its counters, then those it triggers.
HandleStop ==
    LET id == Top.id
    IN /\ Calling("handle")
       /\ ~Waits(id)
       /\ HandlingEnded(id)
       /\ depth' = [depth EXCEPT ![Object(id)] = Less(@)]
       /\ pending' = IF ~Fixed(id) /\ entry[id].incremented /\ pending[Object(id)] > 0
                     THEN [pending EXCEPT ![Object(id)] = @ - 1]
                     ELSE pending
       /\ stack' = <<Frame("stop", id, <<>>, 0, 0)>> \o Tail(stack)
       /\ UNCHANGED <<downtimes, outside, events, now>>

\* The loop over the triggered downtimes runs until none is left.
StopNext ==
    LET Triggered(c) == Parent(c) = Top.id
    IN /\ Calling("stop")
       /\ ~None(list, Triggered)
       /\ stack' = <<Call(list[FirstAt(list, Triggered)])>> \o stack
       /\ UNCHANGED <<counters, downtimes, outside, events, now>>

StopDone ==
    /\ Calling("stop")
    /\ \A c \in Listed : Parent(c) # Top.id
    /\ Delete({Top.id})
    /\ stack' = Tail(stack)
    /\ UNCHANGED <<counters, outside, events, now>>

\* Only the first downtime of an object gets a trigger time.
Begun(d, first) ==
    [d EXCEPT !.in_effect = TRUE,
              !.trigger_time = IF ~d.in_effect /\ first THEN now ELSE @]

\* Mutant: a downtime that was in effect before a restart gets no event.
HandleStartOnce ==
    LET id == Top.id
        end == IF Fixed(id) THEN Downtimes[id].end ELSE now + Downtimes[id].duration
    IN /\ Calling("handle")
       /\ ~Waits(id)
       /\ ~HandlingEnded(id)
       /\ entry' = [entry EXCEPT ![id] = Begun(@, depth[Object(id)] = 0)]
       /\ depth' = [depth EXCEPT ![Object(id)] = More(@)]
       /\ events' = IF InEffect(id) THEN events ELSE events \cup {Event(id, end)}
       /\ stack' = <<Frame("start", id, list, 0, 0)>> \o Tail(stack)
       /\ UNCHANGED <<pending, list, outside, now>>

\* The downtime starts, also one that was in effect before a restart.
HandleStart ==
    LET id == Top.id
        end == IF Fixed(id) THEN Downtimes[id].end ELSE now + Downtimes[id].duration
    IN /\ Calling("handle")
       /\ ~Waits(id)
       /\ ~HandlingEnded(id)
       /\ entry' = [entry EXCEPT ![id] = Begun(@, depth[Object(id)] = 0)]
       /\ depth' = [depth EXCEPT ![Object(id)] = More(@)]
       /\ events' = events \cup {Event(id, end)}
       /\ stack' = <<Frame("start", id, list, 0, 0)>> \o Tail(stack)
       /\ UNCHANGED <<pending, list, outside, now>>

\* The loop over the triggered downtimes.  It reads the successor of a downtime
\* that its own call may have freed: then it goes on as if the memory were
\* intact, or it ends.
StartNext ==
    LET Triggered(c) == c \in Listed /\ Parent(c) = Top.id
        k == FirstAt(Top.todo, Triggered)
        c == Top.todo[k]
    IN /\ Calling("start")
       /\ ~None(Top.todo, Triggered)
       /\ stack' = <<Call(c), Frame("start", Top.id, After(Top.todo, k), c, 0)>> \o Tail(stack)
       /\ UNCHANGED <<counters, downtimes, outside, events, now>>

StartDone ==
    /\ Calling("start")
    /\ \/ \A i \in DOMAIN Top.todo : ~(Top.todo[i] \in Listed /\ Parent(Top.todo[i]) = Top.id)
       \/ Top.at \notin Listed \cup {0}
    /\ stack' = Tail(stack)
    /\ UNCHANGED <<counters, downtimes, outside, events, now>>

---------------------------------------------------------------------------------
(* Flexible downtimes, expiry and restarts *)

\* A check result.  A host looks for waiting downtimes at every change of state,
\* a service only when it has no attempts left and a downtime waits.
CheckResult(o, new) ==
    /\ Idle
    /\ new # state[o]
    /\ new = "SOFT" => state[o] = "OK"
    /\ state' = [state EXCEPT ![o] = new]
    /\ IF new # "OK" /\ (o \in Hosts \/ (new = "HARD" /\ pending[o] > 0))
       THEN \E mine \in SetToSeqs({id \in Listed : Object(id) = o}) :
               /\ \A i, j \in DOMAIN mine : i < j => Precedes(mine[i], mine[j])
               /\ stack' = <<Frame("flex", 0, mine, 0, now)>>
       ELSE stack' = <<>>
    /\ UNCHANGED <<counters, downtimes, asked, restarts, events, now>>

\* check_pending_flex_host_downtime() and check_pending_flex_service_downtime():
\* the loop over the list, of which the object's matter, with the time read
\* before it.
Starts(id) ==
    /\ id \in Listed
    /\ ~Fixed(id) /\ ~InEffect(id) /\ Parent(id) = 0
    /\ Downtimes[id].start <= Top.time /\ Top.time <= Downtimes[id].end

FlexNext ==
    LET k == FirstAt(Top.todo, Starts)
        id == Top.todo[k]
    IN /\ Calling("flex")
       /\ ~None(Top.todo, Starts)
       /\ entry' = [entry EXCEPT ![id].start_flex = TRUE]
       /\ stack' = <<Call(id), [Top EXCEPT !.todo = After(@, k)]>> \o Tail(stack)
       /\ UNCHANGED <<counters, list, outside, events, now>>

FlexDone ==
    /\ Calling("flex")
    /\ None(Top.todo, Starts)
    /\ stack' = Tail(stack)
    /\ UNCHANGED <<counters, downtimes, outside, events, now>>

\* check_for_expired_downtime().  It leaves pending_flex_downtime alone.
RunExpire(e) ==
    /\ Idle
    /\ e \in events /\ e.kind = "EXPIRE" /\ e.at <= now
    /\ \A f \in events : e.at <= f.at
    /\ events' = events \ {e}
    /\ Delete({id \in Listed : ~InEffect(id) /\ Downtimes[id].end < now})
    /\ UNCHANGED <<counters, outside, stack, now>>

Before(a, b) == \/ Downtimes[a].start < Downtimes[b].start
                \/ Downtimes[a].start = Downtimes[b].start /\ a < b

\* The retention file is read in the order it was written: the list's.  A
\* downtime that comes before its parent is refused.
Loads(got) ==
    \A id \in Listed :
        id \in got <=> Parent(id) = 0 \/ (Parent(id) \in got /\ Precedes(Parent(id), id))

\* validate_downtime_data(): old downtimes go, then those without a parent, whose
\* parent may be gone when its turn comes.
Validates(got, left) ==
    \A id \in got :
        id \in left <=>
            /\ Downtimes[id].end >= now
            /\ \/ Parent(id) = 0
               \/ /\ Parent(id) \in got /\ Downtimes[Parent(id)].end >= now
                  /\ Before(Parent(id), id) => Parent(id) \in left

\* A restart saves the list and reads it again.  The counters and the event list
\* are lost; a downtime remembers that it was in effect and since when.
Restart ==
    /\ Idle
    /\ restarts < MaxRestarts
    /\ restarts' = restarts + 1
    /\ depth' = [o \in Objects |-> 0] /\ pending' = [o \in Objects |-> 0]
    /\ \E got \in SUBSET Listed : \E left \in SUBSET got :
          /\ Loads(got) /\ Validates(got, left)
          /\ Arranged(list', left, Before)
          /\ entry' = [id \in Ids |->
                         IF id \in left
                         THEN [entry[id] EXCEPT !.start_flex = FALSE, !.incremented = FALSE]
                         ELSE Blank]
          /\ events' = {Event(id, Downtimes[id].start) : id \in {i \in got : Parent(i) = 0}}
    /\ UNCHANGED <<state, asked, stack, now>>

Tick ==
    /\ now < MaxTime
    /\ now' = now + 1
    /\ UNCHANGED <<counters, downtimes, outside, events, stack>>

---------------------------------------------------------------------------------
(* Specification *)

RunEvent == \E e \in events : RunScheduled(e) \/ RunExpire(e)

Handler ==
    \/ HandleWaits \/ HandleStop \/ StopNext \/ StopDone
    \/ HandleStart \/ StartNext \/ StartDone \/ FlexNext \/ FlexDone

Command == \E id \in Ids : Schedule(id) \/ Unschedule(id)

Next ==
    \/ Command
    \/ RunEvent
    \/ Handler
    \/ \E o \in Objects, new \in {"OK", "SOFT", "HARD"} : CheckResult(o, new)
    \/ Restart
    \/ Tick

Spec == Init /\ [][Next]_vars

\* A call that has begun goes on, time passes, and the event list is run in the
\* order of time, so an event that is due comes to its turn whatever else is due.
FairSpec == Spec /\ WF_vars(Handler) /\ WF_vars(Tick) /\ SF_vars(RunEvent)

---------------------------------------------------------------------------------
(* Properties *)

Ending == {stack[i].id : i \in {j \in DOMAIN stack : stack[j].proc = "stop"}}

\* A service looks for waiting flexible downtimes only if pending_flex_downtime
\* is above 0 (base/checks.c:1708), so it counts at least those that wait.
WaitingIsCounted ==
    \A o \in Objects :
        pending[o] >= Cardinality({id \in Listed : /\ Object(id) = o /\ entry[id].incremented
                                                   /\ ~InEffect(id)})

\* Until the program restarts, scheduled_downtime_depth of an object is the
\* number of its downtimes that are in effect: what notifications test
\* (base/notifications.c:480) is what the list says, in the middle of a call too.
DepthCounts ==
    restarts = 0 =>
        \A o \in Objects :
            depth[o] = Cardinality({id \in Listed : Object(id) = o /\ InEffect(id)} \ Ending)

\* The counters are right, though raised and lowered in different functions, and
\* the calls that raise and lower them are well formed.
CountersMatch == TypeOK /\ DepthCounts /\ WaitingIsCounted

\* A triggered downtime is in effect only while the downtime that triggers it
\* is: ending, deleting, expiring and restarting take both away.
TriggeredWithin ==
    \A id \in Listed :
        InEffect(id) /\ Parent(id) # 0 => Parent(id) \in Listed /\ InEffect(Parent(id))

\* A fixed downtime leaves the list in the end, with all that suppresses
\* notifications, whatever is restarted or triggered meanwhile.
FixedEnds == \A id \in Ids : Fixed(id) /\ id \in Listed ~> id \notin Listed

=================================================================================
