----------------------------- MODULE CheckScheduling ------------------------------
(***************************************************************************)
(* When services are checked: the events of service checks in the low      *)
(* priority event list, the pointer every service keeps to its event, the  *)
(* checks that run in child processes, the results they send, the limit on *)
(* parallel checks, and the two scans that look for checks that never      *)
(* reported (orphans) and for results that are too old (freshness).        *)
(*                                                                         *)
(* Times are relative to the clock, so a behaviour has no last second:     *)
(* time 0 is now, Tick moves everything one unit closer, and a next_check  *)
(* in the past is kept only until it shows that the check is an orphan.    *)
(* The loop runs what is due before the clock moves; how late it is, the   *)
(* code adds to next_check (latency) when it looks for orphans.            *)
(*                                                                         *)
(* Check intervals are not 0.  What dependencies, the check period and     *)
(* execute_service_checks say of a check is a choice at every event.       *)
(* CHECK_OPTION_ORPHAN_CHECK is tested nowhere: it is NONE here.           *)
(***************************************************************************)
EXTENDS Integers, Sequences, SequencesExt, FiniteSets, FiniteSetsExt

CONSTANTS
    Services,
    OnDemand,      \* services that others depend on, checked on demand
    Freshness,     \* services with check_freshness
    MaxParallel,   \* max_parallel_service_checks, 0 for no limit
    Interval,      \* check_interval
    Slack,         \* time allowed to a check before it is an orphan
    CommandTimes,  \* times commands schedule checks at
    Faults,        \* what may happen besides: "FORK", "LOST", "RESTART"
    MaxFaults,     \* bound: how often
    MaxFlight      \* bound: checks that have not reported, when one more starts

ASSUME ServiceAssumption == OnDemand \subseteq Services /\ Freshness \subseteq Services
ASSUME TimeAssumption ==
    /\ Interval \in Nat \ {0} /\ Slack \in Nat /\ CommandTimes \subseteq 0..Interval
ASSUME BoundAssumption ==
    /\ MaxParallel \in Nat /\ MaxFaults \in Nat /\ MaxFlight \in Nat
    /\ Faults \subseteq {"FORK", "LOST", "RESTART"} /\ IsFiniteSet(Services)

VARIABLES
    svc,          \* the fields of each service that scheduling reads
    queue,        \* service checks in event_list_low
    outstanding,  \* checks that have not reported, by service and kind
    running,      \* currently_running_service_checks
    faults        \* forks that failed, checks lost and restarts so far

vars == <<svc, queue, outstanding, running, faults>>

Options == {"NONE", "FORCE", "FRESHNESS"}      \* a freshness check is forced too
Kinds == {"SCHEDULED", "FRESHNESS", "DEMAND"}  \* what a result says of its check
Times == -(Slack + 1)..2 * Interval

Service ==
    [enabled : BOOLEAN,      \* checks_enabled
     should : BOOLEAN,       \* should_be_scheduled
     linked : BOOLEAN,       \* next_check_event is set
     executing : BOOLEAN,    \* is_executing
     freshening : BOOLEAN,   \* is_being_freshened
     stale : BOOLEAN,        \* the last result is older than the threshold
     options : Options,      \* check_options
     next_check : Times]

\* Services that only the schedule and commands check.
Regular == Services \ (OnDemand \cup Freshness)

Total(s) ==
    outstanding[s]["SCHEDULED"] + outstanding[s]["FRESHNESS"] + outstanding[s]["DEMAND"]

\* The checks that are out, those of a service and a kind numbered from 1.
Out == {c \in Services \X Kinds \X (1..MaxFlight) : c[3] <= outstanding[c[1]][c[2]]}
InFlight == Cardinality(Out)

TypeOK ==
    /\ svc \in [Services -> Service]
    /\ \A i \in DOMAIN queue :
          queue[i] \in [svc : Services, at : Times, options : Options]
    /\ \A i, j \in DOMAIN queue : i < j => queue[i].at <= queue[j].at
    /\ outstanding \in [Services -> [Kinds -> 0..MaxFlight]]
    /\ running \in Nat /\ faults \in 0..MaxFaults

Event(s, at, options) == [svc |-> s, at |-> at, options |-> options]

\* A service as the configuration makes it, its first check scheduled.
Fresh == [enabled |-> TRUE, should |-> TRUE, linked |-> TRUE, executing |-> FALSE,
          freshening |-> FALSE, stale |-> FALSE, options |-> "NONE", next_check |-> 0]

Init ==
    /\ svc = [s \in Services |-> Fresh]
    /\ queue \in SetToSeqs({Event(s, 0, "NONE") : s \in Services})
    /\ outstanding = [s \in Services |-> [k \in Kinds |-> 0]]
    /\ running = 0 /\ faults = 0

---------------------------------------------------------------------------------
(* The event list, and schedule_service_check() *)

Forced(options) == options # "NONE"

\* add_event() and reschedule_event(): after the events that are not later.
Inserted(q, e) ==
    InsertAt(q, Cardinality({i \in DOMAIN q : q[i].at <= e.at}) + 1, e)

\* The event that next_check_event of s points to, and remove_event() for it.
IndexOf(q, s) == CHOOSE i \in DOMAIN q : q[i].svc = s
EventOf(q, s) == q[IndexOf(q, s)]
Without(q, s) == RemoveAt(q, IndexOf(q, s))

\* Mutant: an earlier check replaces a later one, forced or not.
UsesNewByTime(e, at, options) == Forced(options) \/ at < e.at

\* Does a new check replace the one that is in the list?
UsesNew(e, at, options) ==
    IF Forced(e.options) THEN Forced(options) /\ at < e.at
                         ELSE Forced(options) \/ at < e.at

\* Mutant: the old event stays in the list.
ScheduledTwice(r, q, s, at, options) ==
    IF ~r.enabled /\ ~Forced(options) THEN [svc |-> r, queue |-> q]
    ELSE IF r.linked /\ ~UsesNew(EventOf(q, s), at, options)
    THEN [svc |-> [r EXCEPT !.next_check = EventOf(q, s).at], queue |-> q]
    ELSE [svc |-> [r EXCEPT !.linked = TRUE, !.next_check = at, !.options = options],
          queue |-> Inserted(q, Event(s, at, options))]

\* Mutant: check_options are what they were.
ScheduledSilently(r, q, s, at, options) ==
    IF ~r.enabled /\ ~Forced(options) THEN [svc |-> r, queue |-> q]
    ELSE IF r.linked /\ ~UsesNew(EventOf(q, s), at, options)
    THEN [svc |-> [r EXCEPT !.next_check = EventOf(q, s).at], queue |-> q]
    ELSE [svc |-> [r EXCEPT !.linked = TRUE, !.next_check = at],
          queue |-> Inserted(IF r.linked THEN Without(q, s) ELSE q, Event(s, at, options))]

\* schedule_service_check() for a service s with the fields r and an event list q:
\* what both become.
Scheduled(r, q, s, at, options) ==
    IF ~r.enabled /\ ~Forced(options) THEN [svc |-> r, queue |-> q]
    ELSE IF r.linked /\ ~UsesNew(EventOf(q, s), at, options)
    THEN [svc |-> [r EXCEPT !.next_check = EventOf(q, s).at], queue |-> q]
    ELSE [svc |-> [r EXCEPT !.linked = TRUE, !.next_check = at, !.options = options],
          queue |-> Inserted(IF r.linked THEN Without(q, s) ELSE q, Event(s, at, options))]

Schedule(r, q, s, at, options) ==
    LET done == Scheduled(r, q, s, at, options)
    IN svc' = [svc EXCEPT ![s] = done.svc] /\ queue' = done.queue

---------------------------------------------------------------------------------
(* The event loop: what it does with a service check that is due *)

Due(s) == queue # <<>> /\ Head(queue).svc = s /\ Head(queue).at <= 0
MaxedOut == MaxParallel # 0 /\ running >= MaxParallel

\* The service's check_options decide, not those of the event.
Overridden(s) == Forced(svc[s].options)

\* The event goes back into the list, later: by a nudge when too many checks run,
\* by an interval when checks are not executed at all.
Postpone(s, by) ==
    LET later == svc[s].next_check + by
    IN /\ svc' = [svc EXCEPT ![s].next_check = later]
       /\ queue' = Inserted(Tail(queue), [Head(queue) EXCEPT !.at = later])
       /\ UNCHANGED <<outstanding, running, faults>>

Nudge(s) == Due(s) /\ ~Overridden(s) /\ MaxedOut /\ Postpone(s, 1)

\* Nothing but a nudge takes an event when MaxFlight checks are out.
Runs(s) == Due(s) /\ (Overridden(s) \/ ~MaxedOut) /\ InFlight < MaxFlight

\* Mutant: a check that may not run is not scheduled again.
RetryNever(r, q, s, options) ==
    svc' = [svc EXCEPT ![s] = r] /\ queue' = q

\* run_scheduled_service_check(), when the check was not started.
Retry(r, q, s, options) ==
    IF r.should
    THEN Schedule([r EXCEPT !.next_check = Interval], q, s, Interval, options)
    ELSE svc' = [svc EXCEPT ![s] = r] /\ queue' = q

\* The check is not viable: checks are disabled, the dependencies or the period say no.
Refuse(s) ==
    /\ Runs(s) /\ ~Forced(Head(queue).options)
    /\ Retry([svc[s] EXCEPT !.linked = FALSE], Tail(queue), s, Head(queue).options)
    /\ UNCHANGED <<outstanding, running, faults>>

Defer(s) == Runs(s) /\ ~Overridden(s) /\ Postpone(s, Interval)

Viable(s) == Runs(s) /\ (svc[s].enabled \/ Forced(Head(queue).options))
Executing(r) == [r EXCEPT !.linked = FALSE, !.options = "NONE", !.executing = TRUE]
KindOf(options) == IF options = "FRESHNESS" THEN "FRESHNESS" ELSE "SCHEDULED"

\* A child process runs the check.
Start(s) ==
    /\ Viable(s)
    /\ svc' = [svc EXCEPT ![s] = Executing(@)]
    /\ queue' = Tail(queue)
    /\ outstanding' = [outstanding EXCEPT ![s][KindOf(Head(queue).options)] = @ + 1]
    /\ running' = running + 1
    /\ UNCHANGED faults

\* There is no child process, but the service executes and the check is counted.
ForkFails(s) ==
    /\ "FORK" \in Faults /\ faults < MaxFaults /\ Viable(s)
    /\ Retry(Executing(svc[s]), Tail(queue), s, Head(queue).options)
    /\ running' = running + 1 /\ faults' = faults + 1
    /\ UNCHANGED outstanding

EventLoop == \E s \in Services : Nudge(s) \/ Defer(s) \/ Refuse(s) \/ Start(s) \/ ForkFails(s)

---------------------------------------------------------------------------------
(* Results *)

Less(n) == IF n > 0 THEN n - 1 ELSE 0

\* Mutant: a result is counted only when it is accepted.
CountedAccepted(s, kind) ==
    IF kind = "PASSIVE" \/ (kind = "FRESHNESS" /\ ~svc[s].stale) THEN running ELSE Less(running)

\* An active check that reports is no longer running.
Counted(s, kind) == IF kind = "PASSIVE" THEN running ELSE Less(running)

\* A result of a check that was started on demand may ask for its rescheduling only
\* with a change of state.
Reschedules(kind, changed) == kind \in {"SCHEDULED", "FRESHNESS"} \/ changed

\* The flags that every result clears.
Received(s, kind) ==
    [svc[s] EXCEPT !.freshening = IF kind = "FRESHNESS" THEN FALSE ELSE @,
                   !.executing = IF kind = "PASSIVE" THEN @ ELSE FALSE]

\* The stale result that a freshness check was to replace has been replaced.
Discarded(s, kind) == kind = "FRESHNESS" /\ ~svc[s].stale

Discard(s, kind) ==
    /\ Discarded(s, kind)
    /\ svc' = [svc EXCEPT ![s] = Received(s, kind)]
    /\ running' = Counted(s, kind)
    /\ UNCHANGED <<queue, faults>>

\* The service after a result that is accepted, and the event list.
Accepted(s, kind, changed, next) ==
    LET r == [Received(s, kind) EXCEPT !.stale = FALSE]
        again == [r EXCEPT !.should = r.enabled, !.next_check = next]
    IN IF ~Reschedules(kind, changed) THEN [svc |-> r, queue |-> queue]
       ELSE IF again.should THEN Scheduled(again, queue, s, next, "NONE")
       ELSE [svc |-> again, queue |-> queue]

\* Services whose check on demand a result of s may start: they are not executing.
Demands(s) ==
    {demanded \in SUBSET {x \in OnDemand \ {s} : svc[x].enabled /\ ~svc[x].executing} :
        demanded # {} => InFlight + Cardinality(demanded) < MaxFlight}

\* handle_async_service_check_result() for a result that is accepted.
Accept(s, kind, changed, next, demanded) ==
    LET done == Accepted(s, kind, changed, next)
    IN /\ ~Discarded(s, kind)
       /\ svc' = [x \in Services |-> IF x = s THEN done.svc
                                     ELSE [svc[x] EXCEPT !.executing = @ \/ x \in demanded]]
       /\ queue' = done.queue
       /\ running' = Counted(s, kind) + Cardinality(demanded)
       /\ UNCHANGED faults

Reported(s, kind, demanded) ==
    [x \in Services |-> [k \in Kinds |->
        IF x = s /\ k = kind THEN outstanding[x][k] - 1
        ELSE IF x \in demanded /\ k = "DEMAND" THEN outstanding[x][k] + 1
        ELSE outstanding[x][k]]]

Handle(s, kind, demanded) ==
    \/ Discard(s, kind) /\ demanded = {}
    \/ \E changed \in BOOLEAN, next \in 1..Interval : Accept(s, kind, changed, next, demanded)

\* The reaper finds the result of a check.
Reap(s) ==
    \E kind \in {k \in Kinds : outstanding[s][k] > 0}, demanded \in Demands(s) :
        /\ Handle(s, kind, demanded)
        /\ outstanding' = Reported(s, kind, demanded)

\* A passive result arrives.
Passive(s) ==
    \E demanded \in Demands(s) :
        /\ Handle(s, "PASSIVE", demanded)
        /\ outstanding' = Reported(s, "PASSIVE", demanded)

\* The child process of a check, or its result, is lost.
Lose(s) ==
    /\ "LOST" \in Faults /\ faults < MaxFaults /\ faults' = faults + 1
    /\ \E kind \in Kinds :
          /\ outstanding[s][kind] > 0
          /\ outstanding' = [outstanding EXCEPT ![s][kind] = @ - 1]
    /\ UNCHANGED <<svc, queue, running>>

---------------------------------------------------------------------------------
(* The scans, the commands, restart and the clock *)

IsOrphan(s) == svc[s].executing /\ svc[s].next_check + Slack < 0

\* Mutant: an orphan is no longer executing, but nothing checks it.
OrphanForgotten(s) ==
    /\ IsOrphan(s)
    /\ svc' = [svc EXCEPT ![s].executing = FALSE]
    /\ running' = Less(running)
    /\ UNCHANGED <<queue, outstanding, faults>>

\* check_for_orphaned_services(), for one service.
Orphan(s) ==
    /\ IsOrphan(s)
    /\ Schedule([svc[s] EXCEPT !.executing = FALSE], queue, s, 0, "NONE")
    /\ running' = Less(running)
    /\ UNCHANGED <<outstanding, faults>>

\* check_service_result_freshness(), for one service.
Freshen(s) ==
    /\ s \in Freshness /\ svc[s].stale /\ ~svc[s].executing /\ ~svc[s].freshening
    /\ Schedule([svc[s] EXCEPT !.freshening = TRUE], queue, s, 0, "FRESHNESS")
    /\ UNCHANGED <<outstanding, running, faults>>

\* cmd_schedule_check()
Command(s) ==
    /\ \E at \in CommandTimes, options \in {"NONE", "FORCE"} :
          Schedule(svc[s], queue, s, at, options)
    /\ UNCHANGED <<outstanding, running, faults>>

\* disable_service_checks() leaves the event where it is.
Disable(s) ==
    /\ svc[s].enabled
    /\ svc' = [svc EXCEPT ![s].enabled = FALSE, ![s].should = FALSE]
    /\ UNCHANGED <<queue, outstanding, running, faults>>

\* enable_service_checks()
Enable(s) ==
    /\ ~svc[s].enabled
    /\ Schedule([svc[s] EXCEPT !.enabled = TRUE, !.should = TRUE, !.next_check = 0],
                queue, s, 0, "NONE")
    /\ UNCHANGED <<outstanding, running, faults>>

\* Is a check of this service scheduled at the start?
AtStart(s) == svc[s].enabled \/ Forced(svc[s].options)

\* A restart counts no running checks; the checks themselves go on.  What should have
\* happened by now is spread over the first interval.
Restart ==
    /\ "RESTART" \in Faults /\ faults < MaxFaults
    /\ \E spread \in [{s \in Services : svc[s].enabled /\ svc[s].next_check <= 0} -> 0..Interval],
          stale \in SUBSET {s \in Services : svc[s].stale} :
           LET next(s) == IF s \in DOMAIN spread THEN spread[s] ELSE svc[s].next_check
           IN /\ svc' = [s \in Services |->
                           [svc[s] EXCEPT !.should = svc[s].enabled, !.linked = AtStart(s),
                                          !.executing = FALSE, !.freshening = FALSE,
                                          !.stale = s \in stale, !.next_check = next(s)]]
              /\ queue' \in SetToSeqs({Event(s, next(s), svc[s].options) : s \in {x \in Services : AtStart(x)}})
              /\ \A i, j \in DOMAIN queue' : i < j => queue'[i].at <= queue'[j].at
              /\ running' = 0 /\ faults' = faults + 1
              /\ UNCHANGED outstanding

Earlier(t) == IF t > -(Slack + 1) THEN t - 1 ELSE t

\* The clock moves when nothing is due; the results of some services become too old.
Tick ==
    /\ \A i \in DOMAIN queue : queue[i].at > 0
    /\ \E old \in SUBSET {s \in Freshness : ~svc[s].stale} :
          svc' = [s \in Services |-> [svc[s] EXCEPT !.next_check = Earlier(@),
                                                    !.stale = @ \/ s \in old]]
    /\ queue' = [i \in DOMAIN queue |-> [queue[i] EXCEPT !.at = @ - 1]]
    /\ UNCHANGED <<outstanding, running, faults>>

Outside(s) == Passive(s) \/ Lose(s) \/ Command(s) \/ Disable(s) \/ Enable(s)
Scan(s) == Orphan(s) \/ Freshen(s)

Next == EventLoop \/ Tick \/ Restart \/ \E s \in Services : Reap(s) \/ Scan(s) \/ Outside(s)

Spec == Init /\ [][Next]_vars

\* The loop does not stop, time passes, checks that are not lost report, and the
\* scans are repeated.  A service whose check comes up again and again is not refused
\* every time, and, as nudges are random, comes up when no other check is out.
FairSpec ==
    /\ Spec
    /\ WF_vars(EventLoop) /\ SF_vars(Tick)
    /\ \A s \in Services : WF_vars(Reap(s))
    /\ \A s \in Regular : /\ WF_vars(Orphan(s)) /\ SF_vars(Start(s))
                         /\ ([]<>Due(s) => []<>(Due(s) /\ InFlight = 0))
    /\ \A s \in Freshness : WF_vars(Freshen(s))

---------------------------------------------------------------------------------
(* Properties *)

\* The event list and the pointers agree: a service has one event exactly when
\* next_check_event is set (run_scheduled_service_check() and
\* schedule_service_check() rely on it when they remove and free the event).
OneEvent ==
    /\ \A i, j \in DOMAIN queue : queue[i].svc = queue[j].svc => i = j
    /\ \A s \in Services : svc[s].linked <=> \E i \in DOMAIN queue : queue[i].svc = s

\* The event loop lets check_options of the service, not of the event, override the
\* limit on parallel checks: they are the same.
OptionsAgree == \A i \in DOMAIN queue : queue[i].options = svc[queue[i].svc].options

\* A service that should be scheduled is in the event list or executing, where the
\* orphan check finds it (if it is never checked on demand or for freshness).
Watched ==
    \A s \in Regular :
        svc[s].should => svc[s].linked \/ svc[s].executing

\* currently_running_service_checks is above the number of checks that are out by
\* at most the number of those that went wrong, and never negative.
CountIsBounded == TypeOK /\ running <= InFlight + faults

\* A forced check stays in the event list, and is not made later by another, until
\* it is run.
ForcedStays ==
    [][\A s \in Services :
          svc[s].linked /\ Overridden(s) =>
              \/ svc'[s].linked /\ Forced(svc'[s].options)
                 /\ (EventOf(queue', s).at <= EventOf(queue, s).at \/ Restart)
              \/ svc'[s].executing]_vars

Waits(s) == svc[s].should /\ Total(s) = 0

\* A service that should be scheduled is checked again and again, though a check is
\* lost or could not be forked.
Rechecked ==
    \A s \in Regular :
        [](Waits(s) => <>~Waits(s))
=================================================================================
