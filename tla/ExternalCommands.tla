-------------------------- MODULE ExternalCommands --------------------------
(***************************************************************************)
(* What the external commands of base/commands.c do to the settings that   *)
(* an operator may change while the daemon runs, each with the bit of      *)
(* "modified attributes" it leaves behind: those bits decide what the      *)
(* retention file carries over a restart (module RetentionFile).           *)
(*                                                                         *)
(* A command is a record [kind, do, at, v]: kind says what it names        *)
(* (the program, a host, a service, a contact or a group), do what it is   *)
(* about.  ENABLE_/DISABLE_ and START_/STOP_ pairs share one do, with      *)
(* v = TRUE for ENABLE and START; at is the object named by the first      *)
(* arguments ("nothing" when none exists by that name), v the new value.   *)
(* The daemon d is                                                         *)
(*   prog            [set, bits, until]: the settings of the program, the  *)
(*                   bits of modified_host_process_attributes and          *)
(*                   modified_service_process_attributes, and              *)
(*                   disable_notifications_expire_time                     *)
(*   host, service   per object its settings, its modified_attributes,     *)
(*                   should_be_scheduled and its state (module Retention)  *)
(*   contact         settings, and three sets of bits                      *)
(*   comments        module DowntimeList                                   *)
(*   downtimes       module DowntimeList                                   *)
(*   events          the ends that are scheduled: of disabled              *)
(*                   notifications and of acknowledgements                 *)
(*   periods         the timeperiods of the configuration                  *)
(* Acknowledgements, downtimes, check results and forced checks are in     *)
(* Acknowledgement, Downtime, ServiceCheck, HostCheck and CheckScheduling. *)
(***************************************************************************)
EXTENDS DowntimeList

\* No daemon, no file, no object.
None == [none |-> TRUE]

CONSTANTS
  Hosts, Services, Contacts,   \* every object that some configuration has
  ChildrenOf,          \* host->child_hosts
  GroupMembers         \* the members of each group: its name is the key

-----------------------------------------------------------------------------
(* One switch: nothing at all when it is already so.                       *)

Turned(o, field, bit, v) ==
  IF o.set[field] = v THEN o
  ELSE [o EXCEPT !.set[field] = v, !.bits = @ \cup {bit}]

\* A global switch, with the sides (host, service) whose process bits record it.
TurnedProgram(p, field, bit, sides, v) ==
  IF p.set[field] = v THEN p
  ELSE [p EXCEPT !.set[field] = v,
                 !.bits = [k \in DOMAIN @ |-> IF k \in sides THEN @[k] \cup {bit} ELSE @[k]]]

Both == {"host", "service"}
-----------------------------------------------------------------------------
(* The switches of one service and of one host.                            *)

\* Enabling a check also plans it, unless it has no interval.
ChecksTurned(o, v) ==
  IF o.set.checks_enabled = v THEN o
  ELSE [Turned(o, "checks_enabled", "ACTIVE_CHECKS", v) EXCEPT
          !.should_be_scheduled = v /\ o.set.check_interval # 0]

service_checks(s, v)         == ChecksTurned(s, v)
service_notifications(s, v)  == Turned(s, "notifications_enabled", "NOTIFICATIONS", v)
passive_service_checks(s, v) == Turned(s, "accept_passive_checks", "PASSIVE_CHECKS", v)
service_event_handler(s, v)  == Turned(s, "event_handler_enabled", "EVENT_HANDLER", v)
service_freshness(s, v)      == Turned(s, "check_freshness", "FRESHNESS_CHECKS", v)
obsessing_over_service(s, v) == Turned(s, "obsess", "OBSESSIVE_HANDLER", v)

host_checks(h, v)            == ChecksTurned(h, v)
host_notifications(h, v)     == Turned(h, "notifications_enabled", "NOTIFICATIONS", v)
passive_host_checks(h, v)    == Turned(h, "accept_passive_checks", "PASSIVE_CHECKS", v)
host_event_handler(h, v)     == Turned(h, "event_handler_enabled", "EVENT_HANDLER", v)
host_freshness(h, v)         == Turned(h, "check_freshness", "FRESHNESS_CHECKS", v)
obsessing_over_host(h, v)    == Turned(h, "obsess", "OBSESSIVE_HANDLER", v)

\* A contact keeps the bits of its host side and of its service side apart.
ContactTurned(c, side, field, v) ==
  IF c.set[field] = v THEN c
  ELSE [c EXCEPT !.set[field] = v, !.bits[side] = @ \cup {"NOTIFICATIONS"}]

contact_host_notifications(c, v) ==
  ContactTurned(c, "host", "host_notifications_enabled", v)
contact_service_notifications(c, v) ==
  ContactTurned(c, "service", "service_notifications_enabled", v)
-----------------------------------------------------------------------------
(* The switches of the whole program.                                      *)

executing_service_checks(p, v) ==
  TurnedProgram(p, "execute_service_checks", "ACTIVE_CHECKS", {"service"}, v)
accepting_passive_service_checks(p, v) ==
  TurnedProgram(p, "accept_passive_service_checks", "PASSIVE_CHECKS", {"service"}, v)
executing_host_checks(p, v) ==
  TurnedProgram(p, "execute_host_checks", "ACTIVE_CHECKS", {"host"}, v)
accepting_passive_host_checks(p, v) ==
  TurnedProgram(p, "accept_passive_host_checks", "PASSIVE_CHECKS", {"host"}, v)
using_event_handlers(p, v) ==
  TurnedProgram(p, "enable_event_handlers", "EVENT_HANDLER", Both, v)
obsessing_over_service_checks(p, v) ==
  TurnedProgram(p, "obsess_over_services", "OBSESSIVE_HANDLER", {"service"}, v)
obsessing_over_host_checks(p, v) ==
  TurnedProgram(p, "obsess_over_hosts", "OBSESSIVE_HANDLER", {"host"}, v)
all_service_freshness(p, v) ==
  TurnedProgram(p, "check_service_freshness", "FRESHNESS_CHECKS", {"service"}, v)
all_host_freshness(p, v) ==
  TurnedProgram(p, "check_host_freshness", "FRESHNESS_CHECKS", {"host"}, v)
all_failure_prediction(p, v) ==
  TurnedProgram(p, "enable_failure_prediction", "FAILURE_PREDICTION", Both, v)
performance_data(p, v) ==
  TurnedProgram(p, "process_performance_data", "PERFORMANCE_DATA", Both, v)

\* Enabling drops the end of a disablement.
enable_all_notifications(p) ==
  IF p.set.enable_notifications THEN p
  ELSE [TurnedProgram(p, "enable_notifications", "NOTIFICATIONS", Both, TRUE)
          EXCEPT !.until = 0]

disable_all_notifications(p) ==
  TurnedProgram(p, "enable_notifications", "NOTIFICATIONS", Both, FALSE)

all_notifications(p, v) ==
  IF v THEN enable_all_notifications(p) ELSE disable_all_notifications(p)

\* ... with an end: the event that enables them again is due one second later.
Event(what, kind, on, due) == [what |-> what, kind |-> kind, on |-> on, due |-> due]

\* events is a bag: how many there are of each event that there is.
schedule_new_event(events, e) ==
  [x \in DOMAIN events \cup {e} |-> (IF x \in DOMAIN events THEN events[x] ELSE 0)
                                    + (IF x = e THEN 1 ELSE 0)]

OneLess(events, e) ==
  IF events[e] > 1 THEN [events EXCEPT ![e] = @ - 1]
  ELSE [x \in DOMAIN events \ {e} |-> events[x]]

\* The first event of an acknowledgement goes, whenever it is due.
delete_scheduled_event(events, kind, on) ==
  LET its == {e \in DOMAIN events :
                e.what = "acknowledgement" /\ e.kind = kind /\ e.on = on}
  IN IF its = {} THEN events
     ELSE OneLess(events, CHOOSE e \in its : \A f \in its : e.due <= f.due)

disable_all_notifications_expire_time(d, end) ==
  [d EXCEPT !.prog = disable_all_notifications([@ EXCEPT !.until = end]),
            !.events = schedule_new_event(@, Event("notifications", "program", "all", end + 1))]

\* EVENT_EXPIRE_DISABLED_NOTIFICATIONS: an end that was moved back waits for its own event.
expire_disabled_notifications(d, e) ==
  IF d.prog.until > e.due \/ d.prog.until = 0 THEN d
  ELSE [d EXCEPT !.prog = enable_all_notifications([@ EXCEPT !.until = 0])]
-----------------------------------------------------------------------------
(* Flap detection, with no new result: what the record of state changes    *)
(* says (few, some or many of late; "some" lies between the thresholds),   *)
(* and the comment that comes and goes with the flapping.                  *)

SoftProblem(o) == o.state.bad /\ ~o.state.hard

set_flap(d, kind, x) ==
  LET c == NewComment(d.comments, kind, x, "flapping", FALSE, 0)
  IN [d EXCEPT ![kind][x].state.flapping = TRUE,
               ![kind][x].flapping_comment = c.next - 1, !.comments = c]

clear_flap(d, kind, x) ==
  LET id == d[kind][x].flapping_comment
  IN [d EXCEPT ![kind][x].state.flapping = FALSE, ![kind][x].flapping_comment = 0,
               !.comments = IF id = 0 THEN @ ELSE delete_comment(@, kind, id)]

FlappingJudged(d, kind, x) ==
  LET o == d[kind][x]
  IN CASE \/ ~d.prog.set.enable_flap_detection
          \/ ~o.set.flap_detection_enabled
          \/ o.state.changes = "some" -> d
       [] o.state.changes = "many" /\ ~o.state.flapping -> set_flap(d, kind, x)
       [] o.state.changes = "few" /\ o.state.flapping -> clear_flap(d, kind, x)
       [] OTHER -> d

\* The soft states of a service are left out.
check_for_service_flapping(d, s) ==
  IF SoftProblem(d.service[s]) THEN d ELSE FlappingJudged(d, "service", s)
check_for_host_flapping(d, h) == FlappingJudged(d, "host", h)

check_for_flapping(d, kind, x) ==
  IF kind = "service" THEN check_for_service_flapping(d, x) ELSE check_for_host_flapping(d, x)

handle_flap_detection_disabled(d, kind, x) ==
  IF d[kind][x].state.flapping THEN clear_flap(d, kind, x) ELSE d

flap_detection_routines(d, v) ==
  LET now == [d EXCEPT !.prog = TurnedProgram(@, "enable_flap_detection",
                                              "FLAP_DETECTION", Both, v)]
      One(kind, e, x) == IF v THEN check_for_flapping(e, kind, x)
                         ELSE handle_flap_detection_disabled(e, kind, x)
      hosts == FoldSet(LAMBDA x, e : One("host", e, x), now, DOMAIN d.host)
  IN IF d.prog.set.enable_flap_detection = v THEN d
     ELSE FoldSet(LAMBDA x, e : One("service", e, x), hosts, DOMAIN d.service)

\* For one object the flag is dropped before the clean-up looks at it, so that
\* its comment stays until the next start.
FlapDetectionTurned(d, kind, x, v) ==
  LET now == [d EXCEPT ![kind][x] = Turned(@, "flap_detection_enabled", "FLAP_DETECTION", v)]
  IN CASE d[kind][x].set.flap_detection_enabled = v -> d
       [] v -> check_for_flapping(now, kind, x)
       [] OTHER -> handle_flap_detection_disabled(
                     [now EXCEPT ![kind][x].state.flapping = FALSE], kind, x)

host_flap_detection(d, h, v)    == FlapDetectionTurned(d, "host", h, v)
service_flap_detection(d, s, v) == FlapDetectionTurned(d, "service", s, v)
-----------------------------------------------------------------------------
(* One switch of every object of a set.                                    *)

host_switch(h, do, v) ==
  CASE do = "CHECKS"           -> host_checks(h, v)
    [] do = "PASSIVE_CHECKS"   -> passive_host_checks(h, v)
    [] do = "NOTIFICATIONS"    -> host_notifications(h, v)
    [] do = "EVENT_HANDLER"    -> host_event_handler(h, v)
    [] do = "OBSESSING"        -> obsessing_over_host(h, v)
    [] do = "FRESHNESS_CHECKS" -> host_freshness(h, v)

service_switch(s, do, v) ==
  CASE do = "CHECKS"           -> service_checks(s, v)
    [] do = "PASSIVE_CHECKS"   -> passive_service_checks(s, v)
    [] do = "NOTIFICATIONS"    -> service_notifications(s, v)
    [] do = "EVENT_HANDLER"    -> service_event_handler(s, v)
    [] do = "OBSESSING"        -> obsessing_over_service(s, v)
    [] do = "FRESHNESS_CHECKS" -> service_freshness(s, v)

HostsTurned(d, S, do, v) ==
  [d EXCEPT !.host = [h \in DOMAIN @ |-> IF h \in S THEN host_switch(@[h], do, v) ELSE @[h]]]

ServicesTurned(d, S, do, v) ==
  [d EXCEPT !.service =
     [s \in DOMAIN @ |-> IF s \in S THEN service_switch(@[s], do, v) ELSE @[s]]]

ServicesOf(S) == {s \in Services : HostOf[s] \in S}

\* The hosts below one.
Below[h \in Hosts] == ChildrenOf[h] \cup UNION {Below[k] : k \in ChildrenOf[h]}

propagate_notifications(d, h, top, services, v) ==
  LET hosts == HostsTurned(d, Below[h] \cup (IF top THEN {h} ELSE {}), "NOTIFICATIONS", v)
  IN IF services THEN ServicesTurned(hosts, ServicesOf(Below[h]), "NOTIFICATIONS", v)
     ELSE hosts
-----------------------------------------------------------------------------
(* The commands, by what they name.  One that names nothing there is does  *)
(* nothing, but for those about freshness: without an object they mean the *)
(* whole program.                                                          *)

set_notification_number(o, n) == [o EXCEPT !.state.number = n]

\* The switches that a host and a service have alike.
Switches == {"CHECKS", "PASSIVE_CHECKS", "NOTIFICATIONS", "EVENT_HANDLER", "OBSESSING",
             "FRESHNESS_CHECKS"}

process_host_command(d, c) ==
  CASE c.at \notin DOMAIN d.host -> IF c.do = "FRESHNESS_CHECKS"
                                   THEN [d EXCEPT !.prog = all_host_freshness(@, c.v)] ELSE d
    [] c.do \in Switches -> HostsTurned(d, {c.at}, c.do, c.v)
    [] c.do = "AND_CHILD_NOTIFICATIONS" -> propagate_notifications(d, c.at, TRUE, FALSE, c.v)
    [] c.do = "NOTIFICATIONS_BEYOND" -> propagate_notifications(d, c.at, FALSE, TRUE, c.v)
    [] c.do = "SVC_NOTIFICATIONS" -> ServicesTurned(d, ServicesOf({c.at}), "NOTIFICATIONS", c.v)
    [] c.do = "SVC_CHECKS" -> ServicesTurned(d, ServicesOf({c.at}), "CHECKS", c.v)
    [] c.do = "FLAP_DETECTION" -> host_flap_detection(d, c.at, c.v)
    [] c.do = "NOTIFICATION_NUMBER" ->
         [d EXCEPT !.host[c.at] = set_notification_number(@, c.v)]
    [] OTHER -> d

process_service_command(d, c) ==
  CASE c.at \notin DOMAIN d.service -> IF c.do = "FRESHNESS_CHECKS"
                                      THEN [d EXCEPT !.prog = all_service_freshness(@, c.v)] ELSE d
    [] c.do \in Switches -> ServicesTurned(d, {c.at}, c.do, c.v)
    [] c.do = "FLAP_DETECTION" -> service_flap_detection(d, c.at, c.v)
    [] c.do = "NOTIFICATION_NUMBER" ->
         [d EXCEPT !.service[c.at] = set_notification_number(@, c.v)]
    [] OTHER -> d

\* What a group command turns, of its hosts (HOST_...) and of their services (SVC_...).
HostPart    == [HOST_NOTIFICATIONS |-> "NOTIFICATIONS", HOST_CHECKS |-> "CHECKS",
                PASSIVE_HOST_CHECKS |-> "PASSIVE_CHECKS"]
ServicePart == [SVC_NOTIFICATIONS |-> "NOTIFICATIONS", SVC_CHECKS |-> "CHECKS",
                PASSIVE_SVC_CHECKS |-> "PASSIVE_CHECKS"]

process_hostgroup_command(d, c) ==
  IF c.at \notin DOMAIN GroupMembers THEN d
  ELSE IF c.do \in DOMAIN HostPart
       THEN HostsTurned(d, GroupMembers[c.at], HostPart[c.do], c.v)
       ELSE ServicesTurned(d, ServicesOf(GroupMembers[c.at]), ServicePart[c.do], c.v)

process_servicegroup_command(d, c) ==
  IF c.at \notin DOMAIN GroupMembers THEN d
  ELSE IF c.do \in DOMAIN ServicePart
       THEN ServicesTurned(d, GroupMembers[c.at], ServicePart[c.do], c.v)
       ELSE HostsTurned(d, {HostOf[s] : s \in GroupMembers[c.at] \cap DOMAIN d.service},
                        HostPart[c.do], c.v)

contact_switch(k, do, v) ==
  IF do = "HOST_NOTIFICATIONS" THEN contact_host_notifications(k, v)
  ELSE contact_service_notifications(k, v)

ContactsTurned(d, S, do, v) ==
  [d EXCEPT !.contact =
     [k \in DOMAIN @ |-> IF k \in S THEN contact_switch(@[k], do, v) ELSE @[k]]]

process_contact_command(d, c) ==
  IF c.at \notin DOMAIN d.contact THEN d ELSE ContactsTurned(d, {c.at}, c.do, c.v)

process_contactgroup_command(d, c) ==
  IF c.at \notin DOMAIN GroupMembers THEN d
  ELSE ContactsTurned(d, GroupMembers[c.at], c.do, c.v)
-----------------------------------------------------------------------------
(* The CHANGE_ commands: they leave their bit even when nothing changed.   *)

Named(d, c) == c.kind \in {"host", "service", "contact"} /\ c.at \in DOMAIN d[c.kind]

\* With an interval, a host is planned even when the new interval is none.
IntervalChanged(o, kind, v) ==
  [o EXCEPT !.set.check_interval = v,
            !.should_be_scheduled =
               \/ @
               \/ /\ o.set.check_interval = 0
                  /\ o.set.checks_enabled
                  /\ kind = "host" \/ v # 0]

MaxAttemptsChanged(o, v) ==
  [o EXCEPT !.set.max_attempts = v,
            !.state.attempt = IF o.state.bad /\ o.state.hard /\ @ > 1 THEN v ELSE @]

IntChanged(o, c) ==
  CASE c.do = "NORMAL_CHECK_INTERVAL" ->
         [IntervalChanged(o, c.kind, c.v) EXCEPT !.bits = @ \cup {c.do}]
    [] c.do = "RETRY_CHECK_INTERVAL" ->
         [o EXCEPT !.set.retry_interval = c.v, !.bits = @ \cup {c.do}]
    [] c.do = "MAX_CHECK_ATTEMPTS" ->
         [MaxAttemptsChanged(o, c.v) EXCEPT !.bits = @ \cup {c.do}]
    [] c.do = "MODATTR" -> [o EXCEPT !.bits = c.v]

\* CHANGE_CONTACT_MODATTR, MODHATTR and MODSATTR.
BitsOf == [MODATTR |-> "own", MODHATTR |-> "host", MODSATTR |-> "service"]

cmd_change_object_int_var(d, c) ==
  CASE ~Named(d, c) -> d
    [] c.kind = "contact" -> [d EXCEPT !.contact[c.at].bits[BitsOf[c.do]] = c.v]
    [] OTHER -> [d EXCEPT ![c.kind][c.at] = IntChanged(@, c)]

\* A timeperiod: its name, and the period that is in use.  (The commands that
\* change a check command or an event handler are refused.)
PeriodChanged(o, do, v) ==
  IF do = "CHECK_TIMEPERIOD"
  THEN [o EXCEPT !.set.check_period = v, !.inuse.check_period = v, !.bits = @ \cup {do}]
  ELSE [o EXCEPT !.set.notification_period = v, !.inuse.notification_period = v,
                 !.bits = @ \cup {do}]

\* A contact has one for each side.
ContactPeriodChanged(k, do, v) ==
  LET side == IF do = "HOST_NOTIFICATION_TIMEPERIOD" THEN "host" ELSE "service"
  IN [k EXCEPT !.period[side] = v, !.inuse[side] = v,
               !.bits[side] = @ \cup {"NOTIFICATION_TIMEPERIOD"}]

cmd_change_object_char_var(d, c) ==
  CASE ~Named(d, c) \/ c.v \notin d.periods -> d
    [] c.kind = "contact" -> [d EXCEPT !.contact[c.at] = ContactPeriodChanged(@, c.do, c.v)]
    [] OTHER -> [d EXCEPT ![c.kind][c.at] = PeriodChanged(@, c.do, c.v)]

\* A custom variable that the object has not got changes nothing, but the bit is set.
cmd_change_object_custom_var(d, c) ==
  LET o == d[c.kind][c.at]
      said == IF c.v.known THEN [o EXCEPT !.custom = [value |-> c.v.value, modified |-> TRUE]]
              ELSE o
  IN CASE ~Named(d, c) -> d
       [] c.kind = "contact" ->
            [d EXCEPT !.contact[c.at] = [said EXCEPT !.bits.own = @ \cup {"CUSTOM_VARIABLE"}]]
       [] OTHER ->
            [d EXCEPT ![c.kind][c.at] = [said EXCEPT !.bits = @ \cup {"CUSTOM_VARIABLE"}]]
-----------------------------------------------------------------------------
(* Comments and acknowledgements.                                          *)

cmd_add_comment(d, c) ==
  IF ~Named(d, c) THEN d
  ELSE [d EXCEPT !.comments = NewComment(@, c.kind, c.at, "user", c.v, 0)]

cmd_delete_comment(d, c) ==
  IF c.v = 0 THEN d ELSE [d EXCEPT !.comments = delete_comment(@, c.kind, c.v)]

cmd_delete_all_comments(d, c) ==
  IF ~Named(d, c) THEN d ELSE [d EXCEPT !.comments = delete_all_comments(@, c.kind, c.at)]

\* An acknowledgement and its comment, with no end or with one still to come
\* (module Acknowledgement has the rest of its life).  Only the acknowledgement
\* gets an event: the end of the comment is written down and never acted on.
acknowledge_problem(d, kind, x, persistent, end, now) ==
  LET until == IF end > now THEN end ELSE 0
  IN IF ~d[kind][x].state.bad THEN d
     ELSE [d EXCEPT ![kind][x].state.acked = TRUE, ![kind][x].state.ackend = until,
                    !.comments = NewComment(@, kind, x, "acknowledgement", persistent, until),
                    !.events = IF until = 0 THEN @
                               ELSE schedule_new_event(@, Event("acknowledgement", kind, x,
                                                                until + 1))]

remove_acknowledgement(d, kind, x) ==
  [d EXCEPT ![kind][x].state.acked = FALSE, ![kind][x].state.ackend = 0,
            !.comments = delete_acknowledgement_comments(@, kind, x),
            !.events = IF d[kind][x].state.ackend = 0 THEN @
                       ELSE delete_scheduled_event(@, kind, x)]

\* An event that is due: off the list, then handled.
Handled(d, e, now) ==
  LET rest == [d EXCEPT !.events = OneLess(@, e)]
  IN CASE e.what = "notifications" -> expire_disabled_notifications(rest, e)
       [] e.what = "acknowledgement" -> remove_acknowledgement(rest, e.kind, e.on)

\* The problems of a host's services, then its own.
AcknowledgedWithServices(d, h, v, now) ==
  acknowledge_problem(
    FoldSet(LAMBDA s, e : acknowledge_problem(e, "service", s, v.persistent, v.end, now),
            d, ServicesOf({h}) \cap DOMAIN d.service),
    "host", h, v.persistent, v.end, now)

AcknowledgementCommand(d, c, now) ==
  CASE ~Named(d, c) -> d
    [] c.do = "ACKNOWLEDGE" ->
         acknowledge_problem(d, c.kind, c.at, c.v.persistent, c.v.end, now)
    [] c.do = "ACKNOWLEDGE_WITH_SERVICES" -> AcknowledgedWithServices(d, c.at, c.v, now)
    [] OTHER -> remove_acknowledgement(d, c.kind, c.at)
-----------------------------------------------------------------------------
(* Downtimes.  The value of a command is [start, end, fixed, trigger,      *)
(* duration, text], an id, or a filter (module DowntimeList).              *)

\* A flexible one must last some time.
DowntimeIsSane(v) == v.fixed \/ v.duration > 0

Unplaced(v) ==
  [id |-> 0, type |-> "host", on |-> "nothing", start |-> v.start, end |-> v.end,
   fixed |-> v.fixed, trigger |-> v.trigger, text |-> v.text, comment |-> 0]

schedule_for(d, type, on, v, now) ==
  schedule_downtime(d, [Unplaced(v) EXCEPT !.type = type, !.on = on], now)

\* For each of a set of objects of one type.
schedule_for_all(d, type, S, v, now) ==
  FoldSet(LAMBDA x, e : schedule_for(e, type, x, v, now), d, S \cap DOMAIN d[type])

\* The hosts below one, those further down first, each once for every way to it.
BelowInOrder[h \in Hosts] ==
  FoldSet(LAMBDA k, seq : seq \o BelowInOrder[k] \o <<k>>, <<>>, ChildrenOf[h])

schedule_and_propagate_downtime(d, h, v, now) ==
  FoldLeft(LAMBDA e, k : schedule_for(e, "host", k, v, now), d, BelowInOrder[h])

\* The id that a command's own downtime was given, 0 when there was none.
NewId(d, e) == IF e.downtimes = d.downtimes THEN 0 ELSE e.downtimes.next - 1

host_downtime(d, c, now) ==
  LET own == schedule_for(d, "host", c.at, c.v, now)
      Propagated_(trigger) ==
        schedule_and_propagate_downtime(own, c.at, [c.v EXCEPT !.trigger = trigger], now)
  IN CASE c.do = "DOWNTIME" -> own
       [] c.do = "AND_PROPAGATE_DOWNTIME" -> Propagated_(0)
       [] c.do = "AND_PROPAGATE_TRIGGERED_DOWNTIME" -> Propagated_(NewId(d, own))
       [] c.do = "SVC_DOWNTIME" ->
            schedule_for(schedule_for_all(d, "service", ServicesOf({c.at}), c.v, now),
                         "host", c.at, c.v, now)

\* (The services of a host are next to each other in a group, so that the host is met
\* once.)
group_downtime(d, c, now) ==
  LET members == GroupMembers[c.at]
  IN CASE c.kind = "hostgroup" /\ c.do = "HOST_DOWNTIME" ->
            schedule_for_all(d, "host", members, c.v, now)
       [] c.kind = "hostgroup" -> schedule_for_all(d, "service", ServicesOf(members), c.v, now)
       [] c.do = "HOST_DOWNTIME" ->
            schedule_for_all(d, "host", {HostOf[s] : s \in members \cap DOMAIN d.service}, c.v, now)
       [] OTHER -> schedule_for_all(d, "service", members, c.v, now)

cmd_schedule_downtime(d, c, now) ==
  CASE ~DowntimeIsSane(c.v) -> d
    [] c.kind \in {"hostgroup", "servicegroup"} ->
         IF c.at \in DOMAIN GroupMembers THEN group_downtime(d, c, now) ELSE d
    [] ~Named(d, c) -> d
    [] c.kind = "service" -> schedule_for(d, "service", c.at, c.v, now)
    [] OTHER -> host_downtime(d, c, now)

cmd_delete_downtime(d, c) == unschedule_downtime(d, c.kind, c.v)

\* By the name of a host, which need not exist.
cmd_delete_downtime_by_host_name(d, c) ==
  delete_downtime_by_hostname_service_description_start_time_comment(
    d, [c.v EXCEPT !.host = c.at])

\* For each member of a group, or for the one that is named.
cmd_delete_downtime_by_hostgroup_name(d, c) ==
  IF c.at \notin DOMAIN GroupMembers THEN d
  ELSE FoldSet(LAMBDA h, e : delete_downtime_by_hostname_service_description_start_time_comment(
                               e, [c.v EXCEPT !.host = h]),
               d, {h \in GroupMembers[c.at] : c.v.host \in {"any", h}})

cmd_delete_downtime_by_start_time_comment(d, c) ==
  delete_downtime_by_hostname_service_description_start_time_comment(
    d, [c.v EXCEPT !.host = "any", !.service = "any"])

Scheduling == {"DOWNTIME", "SVC_DOWNTIME", "HOST_DOWNTIME", "AND_PROPAGATE_DOWNTIME",
               "AND_PROPAGATE_TRIGGERED_DOWNTIME"}
Deleting   == {"DEL_DOWNTIME", "DEL_DOWNTIME_BY_HOST_NAME", "DEL_DOWNTIME_BY_HOSTGROUP_NAME",
               "DEL_DOWNTIME_BY_START_TIME_COMMENT"}

DeletingCommand(d, c) ==
  CASE c.do = "DEL_DOWNTIME" -> cmd_delete_downtime(d, c)
    [] c.do = "DEL_DOWNTIME_BY_HOST_NAME" -> cmd_delete_downtime_by_host_name(d, c)
    [] c.do = "DEL_DOWNTIME_BY_HOSTGROUP_NAME" -> cmd_delete_downtime_by_hostgroup_name(d, c)
    [] OTHER -> cmd_delete_downtime_by_start_time_comment(d, c)
-----------------------------------------------------------------------------
process_program_command(d, c) ==
  CASE c.do = "NOTIFICATIONS" -> [d EXCEPT !.prog = all_notifications(@, c.v)]
    [] c.do = "NOTIFICATIONS_EXPIRE_TIME" -> disable_all_notifications_expire_time(d, c.v)
    [] c.do = "EXECUTING_SVC_CHECKS" -> [d EXCEPT !.prog = executing_service_checks(@, c.v)]
    [] c.do = "ACCEPTING_PASSIVE_SVC_CHECKS" ->
         [d EXCEPT !.prog = accepting_passive_service_checks(@, c.v)]
    [] c.do = "OBSESSING_OVER_SVC_CHECKS" ->
         [d EXCEPT !.prog = obsessing_over_service_checks(@, c.v)]
    [] c.do = "EXECUTING_HOST_CHECKS" -> [d EXCEPT !.prog = executing_host_checks(@, c.v)]
    [] c.do = "ACCEPTING_PASSIVE_HOST_CHECKS" ->
         [d EXCEPT !.prog = accepting_passive_host_checks(@, c.v)]
    [] c.do = "OBSESSING_OVER_HOST_CHECKS" ->
         [d EXCEPT !.prog = obsessing_over_host_checks(@, c.v)]
    [] c.do = "EVENT_HANDLERS" -> [d EXCEPT !.prog = using_event_handlers(@, c.v)]
    [] c.do = "FLAP_DETECTION" -> flap_detection_routines(d, c.v)
    [] c.do = "FAILURE_PREDICTION" -> [d EXCEPT !.prog = all_failure_prediction(@, c.v)]
    [] c.do = "PERFORMANCE_DATA" -> [d EXCEPT !.prog = performance_data(@, c.v)]

\* The commands that change a value.
IntCommands  == {"NORMAL_CHECK_INTERVAL", "RETRY_CHECK_INTERVAL", "MAX_CHECK_ATTEMPTS",
                 "MODATTR", "MODHATTR", "MODSATTR"}
CharCommands == {"CHECK_TIMEPERIOD", "NOTIFICATION_TIMEPERIOD", "HOST_NOTIFICATION_TIMEPERIOD",
                 "SVC_NOTIFICATION_TIMEPERIOD"}

\* What has an object of some kind, or the program, turn a switch.
SwitchCommand(d, c) ==
  CASE c.kind = "host" -> process_host_command(d, c)
    [] c.kind = "service" -> process_service_command(d, c)
    [] c.kind = "contact" -> process_contact_command(d, c)
    [] c.kind = "hostgroup" -> process_hostgroup_command(d, c)
    [] c.kind = "servicegroup" -> process_servicegroup_command(d, c)
    [] c.kind = "contactgroup" -> process_contactgroup_command(d, c)
    [] c.kind = "program" -> process_program_command(d, c)

process_external_command2(d, c, now) ==
  CASE c.do \in IntCommands -> cmd_change_object_int_var(d, c)
    [] c.do \in CharCommands -> cmd_change_object_char_var(d, c)
    [] c.do = "CUSTOM_VAR" -> cmd_change_object_custom_var(d, c)
    [] c.do = "ADD_COMMENT" -> cmd_add_comment(d, c)
    [] c.do = "DEL_COMMENT" -> cmd_delete_comment(d, c)
    [] c.do = "DEL_ALL_COMMENTS" -> cmd_delete_all_comments(d, c)
    [] c.do \in {"ACKNOWLEDGE", "ACKNOWLEDGE_WITH_SERVICES", "REMOVE_ACKNOWLEDGEMENT"} ->
         AcknowledgementCommand(d, c, now)
    [] c.do \in Scheduling -> cmd_schedule_downtime(d, c, now)
    [] c.do \in Deleting -> DeletingCommand(d, c)
    [] OTHER -> SwitchCommand(d, c)

\* The commands there are, for the program and for each kind of object.
ProgramCommands ==
  {"NOTIFICATIONS", "NOTIFICATIONS_EXPIRE_TIME", "EXECUTING_SVC_CHECKS",
   "ACCEPTING_PASSIVE_SVC_CHECKS", "OBSESSING_OVER_SVC_CHECKS", "EXECUTING_HOST_CHECKS",
   "ACCEPTING_PASSIVE_HOST_CHECKS", "OBSESSING_OVER_HOST_CHECKS", "EVENT_HANDLERS",
   "FLAP_DETECTION", "FAILURE_PREDICTION", "PERFORMANCE_DATA",
   "DEL_DOWNTIME_BY_START_TIME_COMMENT"}

ServiceCommands ==
  Switches \cup
  {"ADD_COMMENT", "DEL_COMMENT", "DEL_ALL_COMMENTS", "ACKNOWLEDGE", "REMOVE_ACKNOWLEDGEMENT",
   "FLAP_DETECTION", "NOTIFICATION_NUMBER", "NORMAL_CHECK_INTERVAL", "RETRY_CHECK_INTERVAL",
   "MAX_CHECK_ATTEMPTS", "MODATTR", "CHECK_TIMEPERIOD", "NOTIFICATION_TIMEPERIOD", "CUSTOM_VAR",
   "DOWNTIME", "DEL_DOWNTIME"}

HostCommands ==
  ServiceCommands \cup
  {"AND_CHILD_NOTIFICATIONS", "NOTIFICATIONS_BEYOND", "SVC_NOTIFICATIONS", "SVC_CHECKS",
   "ACKNOWLEDGE_WITH_SERVICES", "SVC_DOWNTIME", "AND_PROPAGATE_DOWNTIME",
   "AND_PROPAGATE_TRIGGERED_DOWNTIME", "DEL_DOWNTIME_BY_HOST_NAME"}

ServicegroupCommands ==
  DOMAIN HostPart \cup DOMAIN ServicePart \cup {"HOST_DOWNTIME", "SVC_DOWNTIME"}
HostgroupCommands == ServicegroupCommands \cup {"DEL_DOWNTIME_BY_HOSTGROUP_NAME"}

ContactCommands ==
  {"HOST_NOTIFICATIONS", "SVC_NOTIFICATIONS", "HOST_NOTIFICATION_TIMEPERIOD",
   "SVC_NOTIFICATION_TIMEPERIOD", "CUSTOM_VAR"} \cup DOMAIN BitsOf

ContactgroupCommands == {"HOST_NOTIFICATIONS", "SVC_NOTIFICATIONS"}

Commands ==
  [program |-> ProgramCommands, host |-> HostCommands, service |-> ServiceCommands,
   contact |-> ContactCommands, hostgroup |-> HostgroupCommands,
   servicegroup |-> ServicegroupCommands, contactgroup |-> ContactgroupCommands]

process_external_command1(d, c, now) ==
  IF c.do \in Commands[c.kind] THEN process_external_command2(d, c, now) ELSE d
=============================================================================
