---------------------------- MODULE RetentionFile ----------------------------
(***************************************************************************)
(* The retention file: what xdata/xrddefault.c writes of the daemon, and   *)
(* what a daemon that starts takes back from it over its configuration.    *)
(*                                                                         *)
(* A configuration is [prog, host, service, contact, periods]: the         *)
(* settings of the program, per object that it defines [set, custom]       *)
(* (contacts: [set, period, custom]), and the names of its timeperiods.    *)
(* The options are those that rule retention:                              *)
(*   status, nonstatus   retain_status_information and                     *)
(*                       retain_nonstatus_information, of every object     *)
(*   program             use_retained_program_state                        *)
(*   process_mask, object_mask, contact_mask                               *)
(*                       retained_process_host_attribute_mask,             *)
(*                       retained_host_attribute_mask, and both            *)
(*                       retained_contact_..._attribute_masks              *)
(*   tweaks              use_large_installation_tweaks                     *)
(* Not modelled here: downtimes that have started (module Downtime), the   *)
(* texts and times of the states, the numbers of events, problems and      *)
(* notifications, and the sync file, which is a retention file that is     *)
(* read at run time.                                                       *)
(***************************************************************************)
EXTENDS ExternalCommands

-----------------------------------------------------------------------------
(* A daemon that has read its configuration.                               *)

FirstState == [checked |-> FALSE, bad |-> FALSE, hard |-> TRUE, attempt |-> 1,
               acked |-> FALSE, ackend |-> 0, changes |-> "few", flapping |-> FALSE,
               number |-> 0]

FreshObject(o) ==
  [set |-> o.set, bits |-> {}, should_be_scheduled |-> TRUE, flapping_comment |-> 0,
   custom |-> [value |-> o.custom, modified |-> FALSE],
   inuse |-> [check_period |-> o.set.check_period,
              notification_period |-> o.set.notification_period],
   state |-> FirstState]

FreshContact(k) ==
  [set |-> k.set, period |-> k.period, inuse |-> k.period,
   custom |-> [value |-> k.custom, modified |-> FALSE],
   bits |-> [own |-> {}, host |-> {}, service |-> {}]]

Fresh(cfg) ==
  [prog    |-> [set |-> cfg.prog, bits |-> [host |-> {}, service |-> {}], until |-> 0],
   host    |-> [h \in DOMAIN cfg.host |-> FreshObject(cfg.host[h])],
   service |-> [s \in DOMAIN cfg.service |-> FreshObject(cfg.service[s])],
   contact |-> [k \in DOMAIN cfg.contact |-> FreshContact(cfg.contact[k])],
   comments |-> [list |-> {}, next |-> 0],
   downtimes |-> [list |-> <<>>, next |-> 0],
   events  |-> [e \in {} |-> 0],
   periods |-> cfg.periods]
-----------------------------------------------------------------------------
(* The program: each of its switches comes back if the bit of its side is  *)
(* set.                                                                    *)

ProgramBit ==
  [enable_notifications          |-> <<"host", "NOTIFICATIONS">>,
   execute_service_checks        |-> <<"service", "ACTIVE_CHECKS">>,
   accept_passive_service_checks |-> <<"service", "PASSIVE_CHECKS">>,
   execute_host_checks           |-> <<"host", "ACTIVE_CHECKS">>,
   accept_passive_host_checks    |-> <<"host", "PASSIVE_CHECKS">>,
   enable_event_handlers         |-> <<"host", "EVENT_HANDLER">>,
   obsess_over_services          |-> <<"service", "OBSESSIVE_HANDLER">>,
   obsess_over_hosts             |-> <<"host", "OBSESSIVE_HANDLER">>,
   check_service_freshness       |-> <<"service", "FRESHNESS_CHECKS">>,
   check_host_freshness          |-> <<"host", "FRESHNESS_CHECKS">>,
   enable_flap_detection         |-> <<"host", "FLAP_DETECTION">>,
   enable_failure_prediction     |-> <<"host", "FAILURE_PREDICTION">>,
   process_performance_data      |-> <<"host", "PERFORMANCE_DATA">>]

\* Both sides are masked by the mask of the host side.
ProgramSection(p, opt) ==
  [p EXCEPT !.bits = [k \in DOMAIN @ |-> @[k] \ opt.process_mask]]

\* The directives, in the order of the file: the bits come first.
ProgramDirectives(d, f, opt) ==
  LET bits == [k \in Both |-> f.prog.bits[k] \ opt.process_mask]
      set  == [x \in DOMAIN d.prog.set |->
                 IF ProgramBit[x][2] \in bits[ProgramBit[x][1]] THEN f.prog.set[x]
                 ELSE d.prog.set[x]]
  IN IF opt.program
     THEN [d EXCEPT !.prog = [set |-> set, bits |-> bits, until |-> f.prog.until],
                    !.comments.next = f.comments.next,
                    !.downtimes.next = f.downtimes.next]
     ELSE d

\* Mutant: the end of the disabled notifications is forgotten.
ProgramWithoutEnd(d, f, opt, now) == ProgramDirectives(d, f, opt)

\* The end of the section: an end of disabled notifications is scheduled again,
\* or has passed.
ProgramLoaded(d, f, opt, now) ==
  LET read == ProgramDirectives(d, f, opt)
      until == read.prog.until
  IN CASE read.prog.set.enable_notifications \/ until = 0 -> read
       [] until > now ->
            [read EXCEPT !.events =
               schedule_new_event(@, Event("notifications", "program", "all", until + 1))]
       [] OTHER -> [read EXCEPT !.prog = enable_all_notifications(@)]
-----------------------------------------------------------------------------
(* A host or a service.                                                    *)

\* Settings that come back if their bit is set.  (check_freshness is not saved.)
ObjectBit ==
  [notifications_enabled  |-> "NOTIFICATIONS",
   checks_enabled         |-> "ACTIVE_CHECKS",
   accept_passive_checks  |-> "PASSIVE_CHECKS",
   event_handler_enabled  |-> "EVENT_HANDLER",
   flap_detection_enabled |-> "FLAP_DETECTION",
   obsess                 |-> "OBSESSIVE_HANDLER",
   check_interval         |-> "NORMAL_CHECK_INTERVAL",
   retry_interval         |-> "RETRY_CHECK_INTERVAL",
   max_attempts           |-> "MAX_CHECK_ATTEMPTS",
   check_period           |-> "CHECK_TIMEPERIOD",
   notification_period    |-> "NOTIFICATION_TIMEPERIOD"]

PeriodSettings == {"check_period", "notification_period"}

\* A host's retry interval is written as its check interval.
HostSection(o, opt) ==
  [o EXCEPT !.bits = @ \ opt.object_mask, !.set.retry_interval = o.set.check_interval]

ServiceSection(o, opt) == [o EXCEPT !.bits = @ \ opt.object_mask]

\* What was saved and can be taken: a period must exist, there must be an attempt.
Usable(x, value, periods) ==
  CASE x \in PeriodSettings -> value \in periods
    [] x = "max_attempts"   -> value >= 1
    [] OTHER                -> TRUE

\* Mutant: the value is taken whether the operator changed it or not.
TakenAlways(o, rec, bits, periods) ==
  [x \in DOMAIN o.set |->
     IF x \in DOMAIN ObjectBit /\ Usable(x, rec.set[x], periods) THEN rec.set[x] ELSE o.set[x]]

SettingsTaken(o, rec, bits, periods) ==
  [x \in DOMAIN o.set |->
     IF /\ x \in DOMAIN ObjectBit
        /\ ObjectBit[x] \in bits
        /\ Usable(x, rec.set[x], periods)
     THEN rec.set[x] ELSE o.set[x]]

\* A value of one character is too short for "strlen(val) > 3".
CustomTaken(custom, rec, bits) ==
  IF "CUSTOM_VARIABLE" \in bits /\ rec.custom.modified /\ rec.custom.value # "c"
  THEN rec.custom ELSE custom

\* A maximum of attempts is read before the type of the state, when the type
\* still is the hard one that every object starts with.
StatusTaken(st, rec, bits) ==
  [rec.state EXCEPT
     !.acked = st.acked, !.ackend = st.ackend, !.flapping = st.flapping,
     !.attempt = IF /\ "MAX_CHECK_ATTEMPTS" \in bits
                    /\ rec.set.max_attempts >= 1
                    /\ rec.state.bad
                    /\ rec.state.attempt > 1
                 THEN rec.set.max_attempts ELSE @]

\* A contact's bits say the same of its own switches and periods.
LastingBits(bits, custom, lost) ==
  bits \ (lost \cup (IF custom.modified THEN {} ELSE {"CUSTOM_VARIABLE"}))

\* The directives of a section.  Those that are not about the status are only
\* looked at when the status is retained too: the flag that says "not found yet"
\* is set nowhere else.
ObjectDirectives(o, rec, opt, periods) ==
  LET bits   == rec.bits \ opt.object_mask
      others == opt.nonstatus /\ opt.status
      custom == IF others THEN CustomTaken(o.custom, rec, bits) ELSE o.custom
      lost   == {ObjectBit[x] : x \in {y \in PeriodSettings : rec.set[y] \notin periods}}
      st     == IF opt.status
                THEN StatusTaken(o.state, rec, IF others THEN bits ELSE {}) ELSE o.state
  IN [o EXCEPT
        !.set    = IF others THEN SettingsTaken(o, rec, bits, periods) ELSE @,
        !.custom = custom,
        !.bits   = IF opt.nonstatus THEN LastingBits(bits, custom, IF others THEN lost ELSE {})
                   ELSE {},
        !.state  = IF others
                   THEN [st EXCEPT !.acked = rec.state.acked, !.ackend = rec.state.ackend]
                   ELSE st]

\* Mutant: a hard problem keeps the attempt it had.
KeptAttempt(st, kind, max) ==
  [st EXCEPT !.hard = @ \/ (kind = "service" /\ ~st.checked)]

\* The end of the section: the attempt of a hard problem is the last one, whatever
\* the maximum is now.
AttemptAdjusted(st, kind, max) ==
  LET hard == st.hard \/ (kind = "service" /\ ~st.checked)
  IN [st EXCEPT !.hard = hard, !.attempt = IF st.bad /\ hard THEN max ELSE @]

\* ... whether it flaps follows from its record once more,
FlappingTaken(d, kind, x, was, opt) ==
  IF opt.tweaks THEN [d EXCEPT ![kind][x].state.flapping = was]
  ELSE check_for_flapping(d, kind, x)

\* ... and an acknowledgement with an end is scheduled to end, or is over.
AcknowledgementTaken(d, kind, x, now) ==
  LET st == d[kind][x].state
  IN CASE ~st.acked \/ st.ackend = 0 -> d
       [] st.ackend > now ->
            [d EXCEPT !.events =
               schedule_new_event(@, Event("acknowledgement", kind, x, st.ackend + 1))]
       [] OTHER -> [d EXCEPT ![kind][x].state.acked = FALSE, ![kind][x].state.ackend = 0]

ObjectLoaded(d, kind, x, f, opt, now) ==
  LET rec  == f[kind][x]
      read == ObjectDirectives(d[kind][x], rec, opt, d.periods)
      adjusted == [d EXCEPT ![kind][x] =
                     [read EXCEPT !.state = AttemptAdjusted(@, kind, read.set.max_attempts)]]
      flapping == FlappingTaken(adjusted, kind, x, opt.status /\ rec.state.flapping, opt)
  IN AcknowledgementTaken(flapping, kind, x, now)

HostsLoaded(d, f, opt, now) ==
  FoldSet(LAMBDA x, e : ObjectLoaded(e, "host", x, f, opt, now), d,
          DOMAIN d.host \cap DOMAIN f.host)

ServicesLoaded(d, f, opt, now) ==
  FoldSet(LAMBDA x, e : ObjectLoaded(e, "service", x, f, opt, now), d,
          DOMAIN d.service \cap DOMAIN f.service)
-----------------------------------------------------------------------------
(* A contact: its own bits are not masked.                                 *)

ContactSection(k, opt) ==
  [k EXCEPT !.bits.host = @ \ opt.contact_mask, !.bits.service = @ \ opt.contact_mask]

ContactLoaded(k, rec, opt, periods) ==
  LET side(s) == rec.bits[s] \ opt.contact_mask
      others  == opt.nonstatus /\ opt.status
      custom  == IF others THEN CustomTaken(k.custom, rec, rec.bits.own) ELSE k.custom
      turned(s, x) == IF others /\ "NOTIFICATIONS" \in side(s) THEN rec.set[x] ELSE k.set[x]
      known(s)  == rec.period[s] \in periods
      period(s) == IF others /\ "NOTIFICATION_TIMEPERIOD" \in side(s) /\ known(s)
                   THEN rec.period[s] ELSE k.period[s]
      lost(s)   == IF others /\ ~known(s) THEN {"NOTIFICATION_TIMEPERIOD"} ELSE {}
  IN [k EXCEPT
        !.set = [host_notifications_enabled |-> turned("host", "host_notifications_enabled"),
                 service_notifications_enabled |->
                   turned("service", "service_notifications_enabled")],
        !.period = [s \in Both |-> period(s)],
        !.custom = custom,
        !.bits   = [own     |-> IF opt.nonstatus THEN LastingBits(rec.bits.own, custom, {}) ELSE {},
                    host    |-> side("host") \ lost("host"),
                    service |-> side("service") \ lost("service")]]

ContactsLoaded(d, f, opt) ==
  [d EXCEPT !.contact =
     [k \in DOMAIN @ |-> IF k \in DOMAIN f.contact
                         THEN ContactLoaded(@[k], f.contact[k], opt, d.periods) ELSE @[k]]]
-----------------------------------------------------------------------------
(* The comments.                                                           *)

\* A comment outlives its object never, a restart if it is persistent or if it
\* belongs to an acknowledgement that still is in force.
CommentLasts(d, m) ==
  /\ m.on \in DOMAIN d[m.type]
  /\ \/ m.persistent
     \/ m.entry = "acknowledgement" /\ d[m.type][m.on].state.acked

CommentsLoaded(d, f) ==
  [d EXCEPT !.comments =
     FoldSet(LAMBDA m, c : IF CommentLasts(d, m) THEN add_comment(c, m)
                           ELSE delete_comment(add_comment(c, m), m.type, m.id),
             @, f.comments.list)]

\* The downtimes, in the order of the file: one that comes before its trigger is lost.
\* The number of its comment is not written.
DowntimeSection(m) == [m EXCEPT !.comment = 0]

DowntimesLoaded(d, f) ==
  LET Read(e, m) == register_downtime(add_downtime(e, m, TRUE), m.type, m.id)
  IN [FoldLeft(Read, d, f.downtimes.list) EXCEPT !.downtimes.list = sort_downtime(@)]
-----------------------------------------------------------------------------
(* The whole file.                                                         *)

xrddefault_save_state_information(d, opt) ==
  [prog     |-> ProgramSection(d.prog, opt),
   host     |-> [h \in DOMAIN d.host |-> HostSection(d.host[h], opt)],
   service  |-> [s \in DOMAIN d.service |-> ServiceSection(d.service[s], opt)],
   contact  |-> [k \in DOMAIN d.contact |-> ContactSection(d.contact[k], opt)],
   comments |-> d.comments,
   downtimes |-> [d.downtimes EXCEPT !.list = [i \in DOMAIN @ |-> DowntimeSection(@[i])]]]

xrddefault_read_state_information(d, f, opt, now) ==
  LET program  == ProgramLoaded(d, f, opt, now)
      hosts    == HostsLoaded(program, f, opt, now)
      services == ServicesLoaded(hosts, f, opt, now)
  IN DowntimesLoaded(CommentsLoaded(ContactsLoaded(services, f, opt), f), f)

\* What does not look for flapping does not flap.
StillFlapping(o) ==
  [o EXCEPT !.state.flapping = @ /\ o.set.flap_detection_enabled]

read_initial_state_information(d, f, opt, now) ==
  LET read == IF f = None THEN d ELSE xrddefault_read_state_information(d, f, opt, now)
  IN [read EXCEPT !.host = [h \in DOMAIN @ |-> StillFlapping(@[h])],
                  !.service = [s \in DOMAIN @ |-> StillFlapping(@[s])]]

\* Planned are the checks that are enabled and have an interval.
Planned(o) ==
  [o EXCEPT !.should_be_scheduled = @ /\ o.set.checks_enabled /\ o.set.check_interval # 0]

init_timing_loop(d) ==
  [d EXCEPT !.host = [h \in DOMAIN @ |-> Planned(@[h])],
            !.service = [s \in DOMAIN @ |-> Planned(@[s])]]

\* main(): the configuration, the retained state, then the plan.
Started(cfg, f, opt, now) ==
  LET read == read_initial_state_information(Fresh(cfg), f, opt, now)
      numbered == [read EXCEPT !.comments = initialize_comment_data(@)]
  IN init_timing_loop(initialize_downtime_data(numbered, now))
=============================================================================
