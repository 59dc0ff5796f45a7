-------------------------------- MODULE HostCheck --------------------------------
(***************************************************************************)
(* base/checks.c for hosts: checks that are scheduled, forced, asked for   *)
(* because another host changed, or run on the spot, and what their        *)
(* results make of the hosts.  Hosts have parents; whether a host answers  *)
(* depends on the network (broken), and a check sees what was true when it *)
(* began.                                                                  *)
(*                                                                         *)
(* A host with max_attempts 1 that goes down has its parents checked on    *)
(* the spot, which may take those through the same: the calls are a stack. *)
(* The program does nothing else until it is empty.                        *)
(*                                                                         *)
(* Times are left out: a result is recent or not (for the cache horizon    *)
(* and for freshness alike), an event of the event list is due or not, and *)
(* next_check is long past or not.  The event loop is not minutes behind.  *)
(* Notifications and flapping are in Notification, acknowledgements in     *)
(* Acknowledgement; the count of running host checks only feeds            *)
(* statistics.                                                             *)
(***************************************************************************)
EXTENDS Naturals, Sequences, FiniteSets, Bags, SequencesExt, HostRules

CONSTANTS
    Host,
    Highest,    \* bound: attempts
    Configs     \* configurations, each with the commands and mishaps it is given

ASSUME ConfigsAssumption == \A c \in Configs :
    /\ DOMAIN c.parents = Host /\ DOMAIN c.masters = Host /\ DOMAIN c.attempts = Host
    /\ \A h \in Host : /\ c.parents[h] \in Seq(Host)      \* in the order of the configuration
                       /\ c.masters[h] \subseteq Host     \* the hosts its checks depend on
                       /\ c.attempts[h] \in 1 .. Highest
    /\ c.demand \subseteq Host   \* hosts without a check_interval
    /\ c.watched \subseteq Host  \* hosts with check_freshness
    /\ c.soft \in BOOLEAN       \* passive_host_checks_are_soft
    /\ c.translate \in BOOLEAN  \* translate_passive_host_checks
    /\ c.most \in Nat          \* bound: commands, mishaps, requests by services
    /\ c.changes \in Nat       \* bound: how often something breaks or is repaired
ASSUME HighestAssumption == Highest \in Nat \ {0}

\* Parents are on a lower level than their children: the daemon does not start on a
\* configuration in which a host is its own ancestor (pre_flight_circular_check()).
IsLevel(level, c) == \A h \in Host : \A p \in ToSet(c.parents[h]) : level[p] < level[h]

ASSUME LevelsAssumption ==
    /\ IsFiniteSet(Host)
    /\ \A c \in Configs : \E level \in [Host -> 1 .. Cardinality(Host)] : IsLevel(level, c)

VARIABLES
    hosts,   \* the hosts
    out,     \* checks that have not reported, a bag
    calls,   \* calls of process_host_check_result_3x() that are checking parents
    broken,  \* hosts that are down
    config,  \* the configuration, never changed
    spent,   \* commands, mishaps and requests so far
    nature,  \* how often something broke or was repaired
    fails,   \* of each host, the failed checks since it was up (history)
    clean    \* of each host, nothing has come between its checks (history): what
             \* does is an argument of Disturbed in the action

vars == <<hosts, out, calls, broken, config, spent, nature, fails, clean>>

NoEvent == [forced |-> FALSE, fresh |-> FALSE, none |-> TRUE]
Plain == [forced |-> FALSE, fresh |-> FALSE, none |-> FALSE]
Forced == [Plain EXCEPT !.forced = TRUE]
Freshened == [Forced EXCEPT !.fresh = TRUE]

Parents(h) == config.parents[h]
ParentSet(h) == ToSet(Parents(h))
Masters(h) == config.masters[h]
OnDemand == config.demand
Children(h) == {c \in Host : h \in ParentSet(c)}

\* next_check: 0; the time of the event of the host, which is on the list or began
\* the last check; another time; a time so long past that a check which began then
\* should have come in.
NextCheck == {"never", "event", "set", "past"}

HostType ==
    [current_state : HostState, last_state : HostState, last_hard_state : HostState,
     state_type : {"SOFT", "HARD"}, current_attempt : 1 .. Highest,
     max_attempts : 1 .. Highest, is_executing : BOOLEAN, is_being_freshened : BOOLEAN,
     recent : BOOLEAN, checks_enabled : BOOLEAN,
     should_be_scheduled : BOOLEAN, next_check : NextCheck,
     event : {NoEvent, Plain, Forced, Freshened},      \* on the event list
     options : {Plain, Forced, Freshened}]             \* those kept for a restart

CheckType == [host : Host, event : {Plain, Forced, Freshened}, reschedule : BOOLEAN,
              seen : {"UP", "DOWN"}, late : BOOLEAN]

CallType == [host : Host, rest : Seq(Host), state : HostState, asked : BOOLEAN]

TypeOK ==
    /\ hosts \in [Host -> HostType]
    /\ IsABag(out) /\ BagToSet(out) \subseteq CheckType
    /\ calls \in Seq(CallType)
    /\ broken \subseteq Host /\ config \in Configs /\ spent \in 0 .. config.most
    /\ nature \in 0 .. config.changes
    /\ fails \in [Host -> 0 .. Highest] /\ clean \in [Host -> BOOLEAN]

\* Every host is up and has been checked; those with an interval are scheduled.
Init ==
    /\ config \in Configs
    /\ hosts = [h \in Host |->
         [current_state |-> "UP", last_state |-> "UP", last_hard_state |-> "UP",
          state_type |-> "HARD", current_attempt |-> 1, max_attempts |-> config.attempts[h],
          is_executing |-> FALSE, is_being_freshened |-> FALSE,
          recent |-> FALSE, checks_enabled |-> TRUE,
          should_be_scheduled |-> h \notin OnDemand,
          next_check |-> IF h \in OnDemand THEN "never" ELSE "event",
          event |-> IF h \in OnDemand THEN NoEvent ELSE Plain, options |-> Plain]]
    /\ out = EmptyBag /\ calls = <<>> /\ broken = {} /\ spent = 0 /\ nature = 0
    /\ fails = [h \in Host |-> 0] /\ clean = [h \in Host |-> TRUE]

---------------------------------------------------------------------------------
(* The network *)

\* A host answers if it is not broken and can be reached through some parent.
Answers ==
    LET a[h \in Host] == /\ h \notin broken
                         /\ Parents(h) = <<>> \/ \E p \in ParentSet(h) : a[p]
    IN a

Ping(h) == IF Answers[h] THEN "UP" ELSE "DOWN"

---------------------------------------------------------------------------------
(* Helpers *)

\* determine_host_reachability(), of a host that is not up.
Reachability(hs, h) ==
    IF Parents(h) = <<>> \/ \E p \in ParentSet(h) : hs[p].current_state = "UP"
    THEN "DOWN" ELSE "UNREACHABLE"

\* Without soft_state_dependencies the last hard state of a master counts.
DependencyState(m) ==
    IF m.state_type = "SOFT" THEN m.last_hard_state ELSE m.current_state

\* check_host_check_viability_3x()
Viable(hs, h, event) ==
    \/ event.forced
    \/ /\ hs[h].checks_enabled
       /\ \A m \in Masters(h) : DependencyState(hs[m]) = "UP"

\* schedule_host_check(): what may become of the host.  A forced event gives way
\* to an earlier forced one only, any other one to a forced one.
Scheduled(h, event) ==
    LET kept == [h EXCEPT !.next_check = "event"]
        new == [kept EXCEPT !.event = event, !.options = event]
    IN IF ~h.checks_enabled /\ ~event.forced THEN {h}
    ELSE IF h.event = NoEvent THEN {new}
    ELSE {e \in {kept, new} :
            /\ e.event = h.event \/ event.forced \/ ~h.event.forced
            /\ e.event = event \/ h.event.forced \/ ~event.forced}

Started(h) == [Adjusted(h, TRUE) EXCEPT !.is_executing = TRUE]

Check(h, event, reschedule) ==
    [host |-> h, event |-> event, reschedule |-> reschedule, seen |-> Ping(h), late |-> FALSE]

CappedInc(n) == IF n < Highest THEN n + 1 ELSE n

---------------------------------------------------------------------------------
(* process_host_check_result_3x() *)

\* Those whose state may have to do with the change of this one: parents and
\* children that are not up when it recovers; when it goes down parents that are up,
\* children that are not unreachable, and before the last attempt its masters.
AsksFor(hs, h) ==
    LET new == hs[h].current_state
        old == hs[h].last_state
    IN {x \in ParentSet(h) : \/ old # "UP" /\ new = "UP" /\ hs[x].current_state # "UP"
                             \/ /\ old = "UP" /\ new # "UP" /\ hs[h].max_attempts > 1
                                /\ hs[x].current_state = "UP"}
       \cup {x \in Children(h) : \/ old # "UP" /\ new = "UP" /\ hs[x].current_state # "UP"
                                 \/ /\ old = "UP" /\ new # "UP"
                                    /\ hs[x].current_state # "UNREACHABLE"}
       \cup {x \in Masters(h) : /\ old = "UP" /\ new # "UP" /\ hs[h].max_attempts > 1
                                /\ hs[h].current_attempt = hs[h].max_attempts - 1}

\* Mutant: a check that is under way is not waited for.
AskedAgain(hs, h) == {x \in AsksFor(hs, h) : ~hs[x].recent /\ Viable(hs, x, Plain)}

\* Of these, a check is run if there is no recent result and none is under way.
Asked(hs, h) ==
    {x \in AsksFor(hs, h) : ~hs[x].recent /\ ~hs[x].is_executing /\ Viable(hs, x, Plain)}

\* A change is followed up by a check, and a scheduled check by the next one.
Reschedules(h, wanted) ==
    \/ wanted
    \/ h.last_state # "UP" /\ h.current_state = "UP"
    \/ h.current_state # "UP" /\ (h.last_state # h.current_state
                                  \/ h.last_hard_state # h.current_state)

\* Hosts without an interval are only checked again while a problem is soft.
ShouldBeScheduled(h, id) ==
    /\ h.checks_enabled
    /\ id \in OnDemand => h.state_type = "SOFT" /\ h.current_state # "UP"

\* handle_host_state(): "the host just recovered, so reset the current host attempt"
Handled(h) ==
    IF h.current_state = "UP" /\ (HostStateChange(h) \/ HostHardChange(h))
    THEN [h EXCEPT !.current_attempt = 1] ELSE h

\* At the end last_state is only waiting to be overwritten.
AtRest(h) == [h EXCEPT !.last_state = h.current_state]

\* From handle_host_state() to the end.
Finish(hs, h, wanted, left, stack) ==
    LET t == Handled(hs[h])
        next == Reschedules(hs[h], wanted)
        again == next /\ ShouldBeScheduled(t, h)
        s == IF next THEN [t EXCEPT !.next_check = "set", !.should_be_scheduled = again] ELSE t
        asked == Asked(hs, h)
    IN \E r \in (IF again THEN Scheduled(s, Plain) ELSE {s}) :
         /\ hosts' = [x \in Host |-> LET y == IF x = h THEN AtRest(r) ELSE hs[x]
                                     IN IF x \in asked THEN Started(y) ELSE y]
         /\ out' = left (+) SetToBag({Check(x, Plain, FALSE) : x \in asked})
         /\ calls' = stack

\* The one case in which parents are checked on the spot.
Serial(h, new, check) ==
    /\ h.current_state = "UP" /\ new # "UP" /\ h.max_attempts = 1 /\ check.active

\* new is the result, wanted whether to schedule the next check, left the checks
\* that are out, stack the calls under this one.
Process(hs, h, new, check, wanted, left, stack) ==
    /\ fails' = [fails EXCEPT ![h] = IF new = "UP" THEN 0 ELSE CappedInc(@)]
    /\ \/ /\ Serial(hs[h], new, check) /\ Parents(h) # <<>>
          /\ hosts' = [hs EXCEPT ![h].state_type = "HARD"]
          /\ calls' = <<[host |-> h, rest |-> Parents(h), state |-> "UP",
                         asked |-> FALSE]>> \o stack
          /\ out' = left
       \/ /\ ~(Serial(hs[h], new, check) /\ Parents(h) # <<>>)
          /\ Finish([hs EXCEPT ![h] = Processed(@, new, Reachability(hs, h), check)],
                    h, wanted, left, stack)

\* A command, a mishap or a request, while no call is checking parents.
Spend(event) ==
    /\ event \in config.events
    /\ calls = <<>> /\ spent < config.most /\ spent' = spent + 1

Active == [active |-> TRUE, soft |-> FALSE, translate |-> FALSE]
Passive == [active |-> FALSE, soft |-> config.soft, translate |-> config.translate]

Disturbed(S) == clean' = [h \in Host |-> clean[h] /\ h \notin S]

---------------------------------------------------------------------------------
(* Checks on the spot *)

\* A cached state will do, and a check that is refused leaves the state as it is.
Known(h) == hosts[h].recent \/ ~Viable(hosts, h, Plain)

\* run_sync_host_check_3x(), when the check is really run.
Sync(h, stack) ==
    LET a == [Saved(Adjusted(hosts[h], TRUE)) EXCEPT
                !.is_being_freshened = FALSE, !.recent = TRUE, !.options = Plain]
    IN /\ Process([hosts EXCEPT ![h] = a], h, Ping(h), Active, FALSE, out, stack)
       /\ Disturbed(IF hosts[h].is_executing THEN {h} ELSE {})

\* A service result asks for the state of its host.
CheckOnDemand(h) ==
    /\ Spend("request") /\ ~Known(h)
    /\ Sync(h, <<>>)
    /\ UNCHANGED <<broken, nature, config>>

\* The next parent is asked.  Only a state that is known already is handed back:
\* a check that is run leaves parent_state as it was.
AskParent ==
    /\ calls # <<>>
    /\ LET f == Head(calls)
           next == [f EXCEPT !.rest = Tail(f.rest), !.asked = TRUE]
           p == Head(f.rest)
       IN /\ f.rest # <<>> /\ ~(f.asked /\ f.state = "UP")
          /\ \/ /\ Known(p)
                /\ calls' = <<[next EXCEPT !.state = hosts[p].current_state]>> \o Tail(calls)
                /\ UNCHANGED <<hosts, out, fails, clean>>
             \/ ~Known(p) /\ Sync(p, <<next>> \o Tail(calls))
    /\ UNCHANGED <<broken, nature, config, spent>>

\* "bail out as soon as we find one parent host that is UP"; if none is, this
\* host is unreachable.
Settle ==
    /\ calls # <<>>
    /\ LET f == Head(calls)
           up == f.asked /\ f.state = "UP"
       IN /\ up \/ f.rest = <<>>
          /\ Finish([hosts EXCEPT ![f.host].current_state = IF up THEN "DOWN" ELSE "UNREACHABLE"],
                    f.host, TRUE, out, Tail(calls))
    /\ UNCHANGED <<broken, nature, config, spent, fails, clean>>

---------------------------------------------------------------------------------
(* Checks by child processes *)

\* A check that is not run is scheduled again, if the host should be.
Postponed(h, event) == IF h.should_be_scheduled THEN Scheduled(h, event) ELSE {h}

\* The event is taken off the list, and a check that is run takes the options kept.
Cleared(h) == [h EXCEPT !.event = NoEvent, !.options = Plain]

\* run_scheduled_host_check_3x(): the event is due.
RunScheduled(h) ==
    /\ calls = <<>> /\ hosts[h].event # NoEvent
    /\ LET e == hosts[h].event
           taken == [hosts EXCEPT ![h].event = NoEvent]
           runs == Viable(hosts, h, e) /\ (e.forced \/ ~hosts[h].is_executing)
       IN \/ /\ runs
             /\ hosts' = [hosts EXCEPT ![h] = Started(Cleared(@))]
             /\ out' = out (+) SetToBag({Check(h, e, TRUE)})
             /\ Disturbed(IF e.forced \/ hosts[h].is_executing THEN {h} ELSE {})
          \/ /\ ~runs
             /\ \E r \in Postponed(taken[h], e) : hosts' = [taken EXCEPT ![h] = r]
             /\ UNCHANGED <<out, clean>>
    /\ UNCHANGED <<calls, broken, nature, config, spent, fails>>

\* The fork fails: the host counts as executing, and the check is scheduled again.
ForkFails(h) ==
    /\ Spend("fork") /\ hosts[h].event # NoEvent
    /\ Viable(hosts, h, hosts[h].event)
    /\ hosts[h].event.forced \/ ~hosts[h].is_executing
    /\ \E r \in Postponed(Started(Cleared(hosts[h])), hosts[h].event) :
          hosts' = [hosts EXCEPT ![h] = r]
    /\ Disturbed({h})
    /\ UNCHANGED <<out, calls, broken, nature, config, fails>>

\* run_async_host_check_3x() for a service whose state changed.
RunForService(h) ==
    /\ Spend("request") /\ ~hosts[h].is_executing /\ Viable(hosts, h, Plain)
    /\ hosts' = [hosts EXCEPT ![h] = Started(@)]
    /\ out' = out (+) SetToBag({Check(h, Plain, FALSE)})
    /\ UNCHANGED <<calls, broken, nature, config, fails, clean>>

Received(h, recent) == [Saved(h) EXCEPT !.is_executing = FALSE, !.recent = recent]

\* handle_async_host_check_result_3x() for the result of a check.  The result of a
\* freshness check is only used if the host is still stale; if another result came
\* in the meantime the host goes on executing, and nothing is scheduled.
Report(c) ==
    /\ calls = <<>> /\ BagIn(c, out)
    /\ LET left == out (-) SetToBag({c})
           h == hosts[c.host]
           f == IF c.event.fresh THEN [h EXCEPT !.is_being_freshened = FALSE] ELSE h
       IN \/ /\ c.event.fresh /\ h.recent
             /\ hosts' = [hosts EXCEPT ![c.host] = f] /\ out' = left
             /\ UNCHANGED <<calls, fails>>
          \/ \E recent \in BOOLEAN :
               /\ c.event.fresh => ~h.recent
               /\ Process([hosts EXCEPT ![c.host] = Received(f, recent)], c.host, c.seen,
                          Active, c.reschedule, left, <<>>)
    /\ UNCHANGED <<broken, nature, config, spent, clean>>

\* The same for a passive result, which says what the state is.
PassiveResult(h, new) ==
    /\ Spend("passive")
    /\ LET s == [Saved(hosts[h]) EXCEPT !.recent = TRUE]
           a == IF config.soft THEN Adjusted(s, FALSE) ELSE s
       IN Process([hosts EXCEPT ![h] = a], h, new, Passive, FALSE, out, <<>>)
    /\ Disturbed({h})
    /\ UNCHANGED <<broken, nature, config>>

---------------------------------------------------------------------------------
(* Scans, commands, restarts *)

\* Time passes, until next_check is as long past as check_for_orphaned_hosts() asks.
\* By then the event of that time has run, and the check it began, or one that began
\* before, has reported or is late; a check that begins later may not have.
GoesBy(h) ==
    /\ calls = <<>>
    /\ hosts[h].next_check = "set" \/ (hosts[h].next_check = "event" /\ hosts[h].event = NoEvent)
    /\ \A c \in BagToSet(out) : c.host = h => c.late
    /\ hosts' = [hosts EXCEPT ![h].next_check = "past"]
    /\ UNCHANGED <<out, calls, broken, config, spent, nature, fails, clean>>

\* Mutant: the host is not scheduled.
OrphanForgotten(h) ==
    /\ calls = <<>> /\ hosts[h].is_executing /\ hosts[h].next_check = "past"
    /\ hosts' = [hosts EXCEPT ![h].is_executing = FALSE]
    /\ Disturbed({h} \cap OnDemand)
    /\ UNCHANGED <<out, calls, broken, nature, config, spent, fails>>

\* check_for_orphaned_hosts(): goes by next_check and not by when the check began,
\* which is another time if the host was not scheduled.  "On-demand checks are missed",
\* until the host has had a time for its next check.
Orphan(h) ==
    /\ calls = <<>> /\ hosts[h].is_executing /\ hosts[h].next_check = "past"
    /\ \E r \in Scheduled([hosts[h] EXCEPT !.is_executing = FALSE], Plain) :
         hosts' = [hosts EXCEPT ![h] = r]
    /\ Disturbed({h} \cap OnDemand)
    /\ UNCHANGED <<out, calls, broken, nature, config, spent, fails>>

\* check_host_result_freshness(): the last result is too old.
Freshen(h) ==
    /\ calls = <<>> /\ h \in config.watched /\ ~hosts[h].recent
    /\ ~hosts[h].is_executing /\ ~hosts[h].is_being_freshened
    /\ \E r \in Scheduled([hosts[h] EXCEPT !.is_being_freshened = TRUE], Freshened) :
         hosts' = [hosts EXCEPT ![h] = r]
    /\ UNCHANGED <<out, calls, broken, nature, config, spent, fails, clean>>

\* The horizon of cached results passes.
Expire(h) ==
    /\ hosts[h].recent /\ hosts' = [hosts EXCEPT ![h].recent = FALSE]
    /\ UNCHANGED <<out, calls, broken, nature, config, spent, fails, clean>>

\* SCHEDULE_FORCED_HOST_CHECK
ForceCheck(h) ==
    /\ Spend("force")
    /\ \E r \in Scheduled(hosts[h], Forced) : hosts' = [hosts EXCEPT ![h] = r]
    /\ UNCHANGED <<out, calls, broken, nature, config, fails, clean>>

\* CHANGE_MAX_HOST_CHECK_ATTEMPTS: "adjust current attempt number if in a hard state"
ChangeMaxAttempts(h, max) ==
    /\ Spend("attempts")
    /\ hosts' = [hosts EXCEPT ![h].max_attempts = max,
                              ![h].current_attempt =
                   IF hosts[h].state_type = "HARD" /\ hosts[h].current_state # "UP" /\ @ > 1
                   THEN max ELSE @]
    /\ Disturbed({h})
    /\ UNCHANGED <<out, calls, broken, nature, config, fails>>

\* DISABLE_HOST_CHECK, which leaves the event on the list, and ENABLE_HOST_CHECK
SwitchChecks(h) ==
    /\ Spend("switch")
    /\ LET off == [hosts[h] EXCEPT !.checks_enabled = FALSE, !.should_be_scheduled = FALSE]
           on == [hosts[h] EXCEPT !.checks_enabled = TRUE, !.next_check = "set",
                                  !.should_be_scheduled = h \notin OnDemand]
       IN \E r \in IF hosts[h].checks_enabled THEN {off} ELSE Postponed(on, Plain) :
            hosts' = [hosts EXCEPT ![h] = r]
    /\ UNCHANGED <<out, calls, broken, nature, config, fails, clean>>

\* A check takes too long, or is lost.
Delay(c) ==
    /\ Spend("delay") /\ BagIn(c, out) /\ ~c.late
    /\ out' = (out (-) SetToBag({c})) (+) SetToBag({[c EXCEPT !.late = TRUE]})
    /\ Disturbed({c.host})
    /\ UNCHANGED <<hosts, calls, broken, nature, config, fails>>

\* After a restart a hard problem is at its last attempt, and nothing is executing.
\* A host that should be is scheduled; an event of another one is only kept if it is
\* forced and checks of the host are disabled, and a time long past stays what it is.
Restarted(h, should, kept) ==
    LET options == IF kept THEN h.options ELSE Plain
        listed == \/ should
                  \/ ~h.checks_enabled /\ kept /\ h.next_check # "never" /\ options.forced
    IN [h EXCEPT !.is_executing = FALSE, !.is_being_freshened = FALSE,
                 !.current_attempt = IF h.current_state # "UP" /\ h.state_type = "HARD"
                                     THEN h.max_attempts ELSE @,
                 !.should_be_scheduled = should, !.options = options,
                 !.next_check = IF should \/ (listed /\ @ = "set") THEN "event"
                                ELSE IF kept THEN @ ELSE "never",
                 !.event = IF listed THEN options ELSE NoEvent]

\* What was scheduled is kept if it is not too old (and use_retained_scheduling_info
\* is on).  Checks that are out will report to the new program.
Restart ==
    /\ Spend("restart")
    /\ \E kept \in BOOLEAN :
         hosts' = [h \in Host |->
                    Restarted(hosts[h], h \notin OnDemand /\ hosts[h].checks_enabled, kept)]
    /\ Disturbed({c.host : c \in BagToSet(out)})
    /\ UNCHANGED <<out, calls, broken, nature, config, fails>>

\* Something breaks, or is repaired.
Nature(h) ==
    /\ nature < config.changes /\ nature' = nature + 1
    /\ broken' = IF h \in broken THEN broken \ {h} ELSE broken \cup {h}
    /\ UNCHANGED <<hosts, out, calls, config, spent, fails, clean>>

Next ==
    \/ \E h \in Host :
          \/ RunScheduled(h) \/ ForkFails(h) \/ RunForService(h) \/ CheckOnDemand(h)
          \/ GoesBy(h) \/ Orphan(h) \/ Freshen(h) \/ Expire(h) \/ Nature(h)
          \/ ForceCheck(h) \/ SwitchChecks(h)
          \/ \E max \in 1 .. Highest : ChangeMaxAttempts(h, max)
          \/ \E new \in HostState : PassiveResult(h, new)
    \/ \E c \in BagToSet(out) : Report(c) \/ Delay(c)
    \/ AskParent \/ Settle
    \/ Restart

Spec == Init /\ [][Next]_vars

ReportsFor(h) == \E c \in BagToSet(out) : c.host = h /\ ~c.late /\ Report(c)

\* The event loop gets round to everything that is due, checks that are not lost
\* report, the scans for orphans and for stale results repeat, and time passes.
FairSpec ==
    /\ Spec
    /\ WF_vars(AskParent) /\ WF_vars(Settle)
    /\ \A h \in Host : /\ WF_vars(RunScheduled(h)) /\ WF_vars(ReportsFor(h))
                       /\ WF_vars(GoesBy(h)) /\ WF_vars(Orphan(h))
                       /\ WF_vars(Freshen(h)) /\ WF_vars(Expire(h))

---------------------------------------------------------------------------------
(* Properties *)

\* A hard problem takes as many failed checks as there are attempts, as long as no
\* check of the host overlaps another, however many hosts ask for checks of it:
\* "it has been (re)checked the number of times specified by max_check_attempts".
\* The exceptions are what makes a host no longer clean: forced, passive, late and lost
\* checks, changes of the number of attempts, restarts in the middle of a check, and,
\* for a host without an interval, the scan for orphans, which may take a check that
\* has only begun for lost.  It does not do that to a host with an interval.
EarnedHard ==
    \A h \in Host :
        clean[h] /\ hosts[h].state_type = "HARD" /\ hosts[h].current_state # "UP"
          => fails[h] >= hosts[h].max_attempts

\* However many results, propagated checks and scans there are, one check of a host
\* is out at a time, and the host knows: with the same exceptions, so that a second
\* check of a host without an interval may be out once it was taken for an orphan.
OneCheck ==
    TypeOK /\ \A h \in Host : clean[h] =>
        LET mine == {c \in BagToSet(out) : c.host = h}
        IN /\ Cardinality(mine) <= 1 /\ \A c \in mine : out[c] = 1
           /\ hosts[h].is_executing <=> mine # {}

\* A hard problem does not become a soft one: overlapping, late and passive results,
\* commands and restarts notwithstanding.  Only where soft passive results and changes of
\* the number of attempts meet can it: such results count attempts of a host that is up,
\* and the lowered number makes the first of two overlapping failures hard, the second soft.
HardProblemStaysHard ==
    [][\A h \in Host : hosts[h].state_type = "HARD" /\ hosts[h].current_state # "UP"
         => hosts'[h].state_type = "HARD" \/ hosts'[h].current_state = "UP"]_vars

\* What the states come to when nothing changes any more.
Truth(h) ==
    IF Answers[h] THEN "UP"
    ELSE IF Parents(h) = <<>> \/ \E p \in ParentSet(h) : Answers[p] THEN "DOWN"
    ELSE "UNREACHABLE"

\* Hosts that are checked on their own, like all they depend on.
Regular == {h \in Host : \A x \in {h} \cup ParentSet(h) : x \notin OnDemand /\ Masters(x) = {}}

\* The host counts as executing and no check of it will report, but its next check is
\* on the list: that one is put off whenever it is due, because the host is executing,
\* and next_check with it, so that the scan for orphans never finds the host.
Overlooked(h) ==
    /\ hosts[h].is_executing /\ hosts[h].event # NoEvent
    /\ \A c \in BagToSet(out) : c.host = h => c.late

\* When nothing breaks or is repaired any more, the regular hosts get to their true
\* states, hard ones, whatever was lost, late or commanded before: unless somebody
\* lowered the number of attempts in the middle of a problem, or the scan for orphans
\* overlooks a host for ever.
Converges ==
    /\ <>[][UNCHANGED broken]_vars
    /\ \A h \in Host : []<>hosts[h].checks_enabled /\ []<>~Overlooked(h)
    /\ []~(\E h \in Host : hosts[h].current_attempt > hosts[h].max_attempts)
    => <>[](\A h \in Regular : hosts[h].current_state = Truth(h) /\ hosts[h].state_type = "HARD")
=================================================================================
