------------------------------ MODULE Retention ------------------------------
(***************************************************************************)
(* A daemon that takes commands and results, saves what it knows, stops or *)
(* dies, and starts again on a configuration that may have been edited: is *)
(* what the operator asked for still so, and nothing else?                 *)
(*                                                                         *)
(* d is the daemon (None when it is down), file the retention file,        *)
(* cfg the configuration the daemon last read.  wish is what the operator  *)
(* asked for, kept from the words of the commands alone:                   *)
(*   asked   <<kind, object, setting>> -> [value, lasts]; lasts when the   *)
(*           setting's bit is set, by the command or by a CHANGE_..MODATTR *)
(*   end     the end of the disabled notifications, 0 for none             *)
(*   downtimes   those asked for, as [id, type, on, start, end, text, by], *)
(*           by being the id of the one that triggers it; the ids are      *)
(*           those that the daemon gave them                               *)
(* kept is what there was to remember at the last save.  story names what  *)
(* may happen in a behaviour: the retention options it may have (opt), the *)
(* commands, forms and results that may come, the configurations that a    *)
(* start may find, how often, for how long, and how often the clock is set *)
(* back (most).  Acknowledgements are sticky.                              *)
(***************************************************************************)
EXTENDS RetentionFile, WebCommand

CONSTANT Stories

VARIABLES story, opt, d, file, cfg, wish, kept, now, used
vars == <<story, opt, d, file, cfg, wish, kept, now, used>>

Running == d # None
Told    == Stories[story]
-----------------------------------------------------------------------------
(* A check result: what the checks make of it is in ServiceCheck and       *)
(* HostCheck, what matters here is the state it leaves.                    *)

ResultState(o, r) ==
  [o.state EXCEPT !.checked = TRUE, !.bad = r.bad, !.hard = r.hard, !.changes = r.changes,
                  !.attempt = IF r.bad /\ r.hard THEN o.set.max_attempts ELSE 1,
                  !.acked = @ /\ r.bad, !.number = IF r.bad THEN @ ELSE 0]

ResultTaken(e, r) ==
  LET over  == ~r.bad /\ e[r.kind][r.at].state.acked
      taken == [e EXCEPT ![r.kind][r.at].state = ResultState(e[r.kind][r.at], r),
                         !.comments = IF over THEN delete_acknowledgement_comments(@, r.kind, r.at)
                                      ELSE @]
  IN check_for_flapping(taken, r.kind, r.at)
-----------------------------------------------------------------------------
(* What the operator asked for: the settings that a command names, in the  *)
(* words of the documentation of external commands.                        *)

ProgramSetting ==
  [NOTIFICATIONS |-> "enable_notifications",
   NOTIFICATIONS_EXPIRE_TIME |-> "enable_notifications",
   EXECUTING_SVC_CHECKS |-> "execute_service_checks",
   ACCEPTING_PASSIVE_SVC_CHECKS |-> "accept_passive_service_checks",
   OBSESSING_OVER_SVC_CHECKS |-> "obsess_over_services",
   EXECUTING_HOST_CHECKS |-> "execute_host_checks",
   ACCEPTING_PASSIVE_HOST_CHECKS |-> "accept_passive_host_checks",
   OBSESSING_OVER_HOST_CHECKS |-> "obsess_over_hosts",
   EVENT_HANDLERS |-> "enable_event_handlers", FLAP_DETECTION |-> "enable_flap_detection",
   FAILURE_PREDICTION |-> "enable_failure_prediction",
   PERFORMANCE_DATA |-> "process_performance_data"]

ObjectSetting ==
  [CHECKS |-> "checks_enabled", HOST_CHECKS |-> "checks_enabled", SVC_CHECKS |-> "checks_enabled",
   PASSIVE_CHECKS |-> "accept_passive_checks", PASSIVE_HOST_CHECKS |-> "accept_passive_checks",
   PASSIVE_SVC_CHECKS |-> "accept_passive_checks",
   NOTIFICATIONS |-> "notifications_enabled", HOST_NOTIFICATIONS |-> "notifications_enabled",
   SVC_NOTIFICATIONS |-> "notifications_enabled",
   AND_CHILD_NOTIFICATIONS |-> "notifications_enabled",
   NOTIFICATIONS_BEYOND |-> "notifications_enabled",
   EVENT_HANDLER |-> "event_handler_enabled", OBSESSING |-> "obsess",
   FRESHNESS_CHECKS |-> "check_freshness", FLAP_DETECTION |-> "flap_detection_enabled",
   NORMAL_CHECK_INTERVAL |-> "check_interval", RETRY_CHECK_INTERVAL |-> "retry_interval",
   MAX_CHECK_ATTEMPTS |-> "max_attempts", CHECK_TIMEPERIOD |-> "check_period",
   NOTIFICATION_TIMEPERIOD |-> "notification_period", CUSTOM_VAR |-> "custom"]

ContactSetting ==
  [HOST_NOTIFICATIONS |-> "host_notifications_enabled",
   SVC_NOTIFICATIONS |-> "service_notifications_enabled",
   HOST_NOTIFICATION_TIMEPERIOD |-> "host_period", SVC_NOTIFICATION_TIMEPERIOD |-> "service_period",
   CUSTOM_VAR |-> "custom"]

\* The hosts that can be reached over the child relation.
Descendants(h) ==
  {k \in Hosts : \A S \in SUBSET Hosts :
                   ChildrenOf[h] \cup UNION {ChildrenOf[x] : x \in S} \subseteq S => k \in S}

OfHosts(S)    == {<<"host", h>> : h \in S \cap DOMAIN cfg.host}
OfServices(S) == {<<"service", s>> : s \in S \cap DOMAIN cfg.service}
RunningOn(S)  == OfServices({s \in Services : HostOf[s] \in S})

\* The objects that a command is about.
About(c) ==
  CASE c.do \in {"AND_CHILD_NOTIFICATIONS", "AND_PROPAGATE_DOWNTIME",
                "AND_PROPAGATE_TRIGGERED_DOWNTIME"} -> OfHosts({c.at} \cup Descendants(c.at))
    [] c.do = "NOTIFICATIONS_BEYOND" -> OfHosts(Descendants(c.at)) \cup RunningOn(Descendants(c.at))
    [] c.kind = "host" /\ c.do \in {"SVC_NOTIFICATIONS", "SVC_CHECKS"} -> RunningOn({c.at})
    [] c.kind = "host" /\ c.do = "SVC_DOWNTIME" -> OfHosts({c.at}) \cup RunningOn({c.at})
    [] c.kind = "host" -> OfHosts({c.at})
    [] c.kind = "service" -> OfServices({c.at})
    [] c.kind = "contact" -> {<<"contact", k>> : k \in {c.at} \cap DOMAIN cfg.contact}
    [] c.kind = "contactgroup" -> {<<"contact", k>> : k \in Members(c.at) \cap DOMAIN cfg.contact}
    [] c.kind = "hostgroup" /\ c.do \in DOMAIN HostPart \cup {"HOST_DOWNTIME"} ->
         OfHosts(Members(c.at))
    [] c.kind = "hostgroup" -> RunningOn(Members(c.at))
    [] c.kind = "servicegroup" /\ c.do \in DOMAIN ServicePart \cup {"SVC_DOWNTIME"} ->
         OfServices(Members(c.at))
    [] c.kind = "servicegroup" ->
         OfHosts({HostOf[s] : s \in Members(c.at) \cap DOMAIN cfg.service})
    [] OTHER -> {}

\* Without an object, freshness is that of the program.
Freshness == [host |-> "check_host_freshness", service |-> "check_service_freshness"]

Targets(c) ==
  CASE c.kind = "program" -> {<<"program", "all", ProgramSetting[c.do]>>}
    [] c.do = "FRESHNESS_CHECKS" /\ About(c) = {} -> {<<"program", "all", Freshness[c.kind]>>}
    [] c.do \in DOMAIN ContactSetting /\ c.kind \in {"contact", "contactgroup"} ->
         {Append(x, ContactSetting[c.do]) : x \in About(c)}
    [] c.do \in DOMAIN ObjectSetting -> {Append(x, ObjectSetting[c.do]) : x \in About(c)}
    [] OTHER -> {}
-----------------------------------------------------------------------------
(* Where a setting stands, in the configuration and in the daemon.         *)

Keys(c) ==
  {<<"program", "all", x>> : x \in DOMAIN c.prog}
  \cup UNION {{<<"host", h, x>> : x \in DOMAIN c.host[h].set \cup {"custom"}} : h \in DOMAIN c.host}
  \cup UNION {{<<"service", s, x>> : x \in DOMAIN c.service[s].set \cup {"custom"}} :
                s \in DOMAIN c.service}
  \cup UNION {{<<"contact", k, x>> : x \in {ContactSetting[w] : w \in DOMAIN ContactSetting}} :
                k \in DOMAIN c.contact}

PeriodOf == [host_period |-> "host", service_period |-> "service"]

Configured(c, key) ==
  LET o == c[key[1]][key[2]]
  IN CASE key[1] = "program" -> c.prog[key[3]]
       [] key[3] = "custom" -> o.custom
       [] key[3] \in DOMAIN PeriodOf -> o.period[PeriodOf[key[3]]]
       [] OTHER -> o.set[key[3]]

Setting(e, key) ==
  LET o == e[key[1]][key[2]]
  IN CASE key[1] = "program" -> e.prog.set[key[3]]
       [] key[3] = "custom" -> o.custom.value
       [] key[3] \in DOMAIN PeriodOf -> o.period[PeriodOf[key[3]]]
       [] OTHER -> o.set[key[3]]

Expected(w, c, key) ==
  IF key \in DOMAIN w.asked THEN w.asked[key].value ELSE Configured(c, key)

\* The bit that makes a setting last.
BitOf(key) ==
  CASE key[1] = "program" -> ProgramBit[key[3]][2]
    [] key[3] = "custom" -> "CUSTOM_VARIABLE"
    [] key[3] \in DOMAIN PeriodOf -> "NOTIFICATION_TIMEPERIOD"
    [] key[1] = "contact" -> "NOTIFICATIONS"
    [] key[3] = "check_freshness" -> "FRESHNESS_CHECKS"
    [] OTHER -> ObjectBit[key[3]]

\* The side of a contact whose bits speak of the setting.
SideOf(key) ==
  CASE key[3] = "custom" -> "MODATTR"
    [] key[3] \in {"host_notifications_enabled", "host_period"} -> "MODHATTR"
    [] OTHER -> "MODSATTR"
-----------------------------------------------------------------------------
(* What becomes of the wish.                                               *)

\* To switch what is so already asks for nothing that would last.
IsSwitch(c) == c.do \notin IntCommands \cup CharCommands \cup {"CUSTOM_VAR"}

Asked(w, c, keys, v) ==
  LET new == {key \in keys : IsSwitch(c) => Expected(w, cfg, key) # v}
  IN [w EXCEPT !.asked = [key \in new |-> [value |-> v, lasts |-> TRUE]] @@ @]

\* CHANGE_..MODATTR says which settings last, as they are now.  A custom variable
\* lasts only if it was changed.
Relasted(w, c) ==
  LET keys == {key \in Keys(cfg) :
                 /\ key[1] = c.kind /\ key[2] = c.at
                 /\ key[1] = "contact" => SideOf(key) = c.do
                 /\ key[3] = "custom" => key \in DOMAIN w.asked}
  IN [w EXCEPT !.asked =
        [key \in keys |-> [value |-> Expected(w, cfg, key), lasts |-> BitOf(key) \in c.v]] @@ @]

Wished(w, c) ==
  CASE c.do \in DOMAIN BitsOf -> Relasted(w, c)
    [] c.do \in CharCommands /\ c.v \notin cfg.periods -> w
    [] c.do = "CUSTOM_VAR" -> IF c.v.known THEN Asked(w, c, Targets(c), c.v.value) ELSE w
    [] c.do = "NOTIFICATIONS_EXPIRE_TIME" ->
         [Asked(w, [c EXCEPT !.v = FALSE], Targets(c), FALSE) EXCEPT !.end = c.v]
    [] c.kind = "program" /\ c.do = "NOTIFICATIONS" /\ c.v ->
         [Asked(w, c, Targets(c), TRUE) EXCEPT
            !.end = IF Expected(w, cfg, <<"program", "all", "enable_notifications">>) THEN @ ELSE 0]
    [] c.do \in Scheduling \cup Deleting -> w
    [] OTHER -> Asked(w, c, Targets(c), c.v)

\* The downtimes of a command: one for each object it is about, those of the hosts below
\* triggered by that of the host itself if it says so.  e is the daemon after it.
DowntimesAsked(w, c, e) ==
  LET fresh == {m \in Listed(e) : \A x \in w.downtimes : x.id # m.id}
      Number(x) == LET its == {m \in fresh : <<m.type, m.on>> = x}
                   IN IF its = {} THEN 0 ELSE (CHOOSE m \in its : TRUE).id
      own == <<c.kind, c.at>>
      By(x) == CASE x = own \/ c.do \in {"DOWNTIME", "SVC_DOWNTIME", "HOST_DOWNTIME"} -> c.v.trigger
                 [] c.do = "AND_PROPAGATE_DOWNTIME" -> 0
                 [] OTHER -> Number(own)
      New(x) == [id |-> Number(x), type |-> x[1], on |-> x[2], start |-> c.v.start,
                 end |-> c.v.end, text |-> c.v.text, by |-> By(x)]
      known == {0} \cup {x.id : x \in w.downtimes}
      possible == /\ c.v.start < c.v.end /\ c.v.end > now
                  /\ c.v.fixed \/ c.v.duration > 0
  IN CASE ~possible \/ (c.v.trigger \notin known /\ c.do # "AND_PROPAGATE_DOWNTIME") -> {}
       [] c.v.trigger \notin known -> {New(x) : x \in About(c) \ {own}}
       [] OTHER -> {New(x) : x \in About(c)}

\* A downtime goes with those that it would trigger.
Without(S, gone) ==
  LET Left[T \in SUBSET S] == LET U == {x \in T : x.by = 0 \/ \E y \in T : y.id = x.by}
                             IN IF U = T THEN T ELSE Left[U]
  IN Left[S \ gone]

\* Those that a command deletes: one by its id, or all that are as it says.
DowntimesMeant(S, c) ==
  LET hosts == CASE c.do = "DEL_DOWNTIME_BY_HOST_NAME" -> {c.at}
                 [] c.do = "DEL_DOWNTIME_BY_HOSTGROUP_NAME" ->
                      {h \in Members(c.at) : c.v.host \in {"any", h}}
                 [] c.v.start = 0 /\ c.v.text = "any" -> {}
                 [] OTHER -> Hosts
  IN IF c.do = "DEL_DOWNTIME" THEN {x \in S : x.id = c.v /\ x.type = c.kind}
     ELSE {x \in S : /\ (IF x.type = "host" THEN x.on ELSE HostOf[x.on]) \in hosts
                      /\ c.v.service \in {"any", x.on}
                      /\ c.v.start \in {0, x.start}
                      /\ c.v.text \in {"any", x.text}}

DowntimesWished(w, c, e) ==
  CASE c.do \in Scheduling -> [w EXCEPT !.downtimes = @ \cup DowntimesAsked(w, c, e)]
    [] c.do \in Deleting ->
         [w EXCEPT !.downtimes = Without(@, DowntimesMeant(@, c))]
    [] OTHER -> w

\* Of the downtimes in a file, those that follow the one that triggers them.
Following(S) ==
  Without(S, {x \in S : \E y \in S : y.id = x.by /\ x.start < y.start})
-----------------------------------------------------------------------------
(* What a form asks for, in the words of the documentation of the CGIs: a  *)
(* contact commands its hosts, the services on them and its services, and  *)
(* others what they have both the right to see and the right to command;   *)
(* nobody commands what he does not see, and a group is commanded whole.   *)

Contact(a, x) == IsContact(a, x[1], x[2])
HostSeen(a, h) == "all_hosts" \in a.rights \/ Contact(a, <<"host", h>>)

ServiceSeen(a, cgi, s) ==
  \/ "all_services" \in a.rights
  \/ Contact(a, <<"service", s>>)
  \/ cgi.show_all /\ HostSeen(a, HostOf[s])

MayOrder(a, cgi, x) ==
  /\ a.authenticated /\ MaySubmit(d, a)
  /\ IF x[1] = "host"
     THEN Contact(a, x) \/ {"all_hosts", "all_host_commands"} \subseteq a.rights
     ELSE /\ ServiceSeen(a, cgi, x[2])
          /\ \/ Contact(a, x)
             \/ Contact(a, <<"host", HostOf[x[2]]>>)
             \/ "all_service_commands" \in a.rights

\* The objects that a form names, in slots or by a group.
NamedBy(q) ==
  CASE q.kind = "host" -> OfHosts({q.slots[x].host : x \in DOMAIN q.slots})
    [] q.kind = "service" -> OfServices({InSlot(q, x) : x \in DOMAIN q.slots})
    [] q.kind = "hostgroup" -> OfHosts(Members(q.group))
    [] q.kind = "servicegroup" -> OfServices(Members(q.group))
    [] OTHER -> {}

Permitted(q, a, cgi) ==
  LET may == {x \in NamedBy(q) : MayOrder(a, cgi, x)}
  IN IF q.kind \in Groups /\ may # NamedBy(q) THEN {} ELSE may

HostsAmong(S) == {IF x[1] = "host" THEN x[2] ELSE HostOf[x[2]] : x \in S}

\* The settings concerned; with a box ticked also those of the hosts, or of the hosts below.
FormTargets(q, S) ==
  LET do == IF q.ptc /\ q.kind = "host" /\ q.do = "NOTIFICATIONS"
            THEN "AND_CHILD_NOTIFICATIONS" ELSE q.do
      direct == IF q.kind \in Groups
                THEN IF S = {} THEN {} ELSE Targets(Say(q.kind, do, q.group, q.v))
                ELSE UNION {Targets(Say(x[1], do, x[2], q.v)) : x \in S}
      sides == IF q.ahas /\ q.do \in {"SVC_CHECKS", "SVC_NOTIFICATIONS"}
               THEN {<<"host", h, ObjectSetting[q.do]>> : h \in HostsAmong(S)} ELSE {}
  IN direct \cup sides

Intervals(S) == {Append(x, i) : x \in S, i \in {"check_interval", "retry_interval"}}

\* Both intervals are asked for, changed or not; all that can be asked of the bits is
\* to keep nothing.
WishedByForm(w, q, S) ==
  CASE q.do = "MODATTR" -> FoldSet(LAMBDA x, e : Relasted(e, Say(x[1], q.do, x[2], {})), w, S)
    [] q.do = "INTERVALS" ->
         [w EXCEPT !.asked = [key \in Intervals(S) |-> [value |-> q.interval, lasts |-> TRUE]] @@ @]
    [] q.do \in DowntimeCommands \cup Deleting -> w
    [] q.do \in DOMAIN ObjectSetting -> Asked(w, Say(q.kind, q.do, "all", q.v), FormTargets(q, S), q.v)
    [] OTHER -> w

\* The commands about downtimes that a form stands for: one for each object it may be
\* about, or one for a group; a downtime by its number only if its page shows it.
ChildOptions == <<"AND_PROPAGATE_TRIGGERED_DOWNTIME", "AND_PROPAGATE_DOWNTIME">>

DowntimeOrders(w, q, a, cgi, S) ==
  LET v == [start |-> q.start_time, end |-> q.end_time, fixed |-> q.fixed, text |-> "text",
            duration |-> q.duration, trigger |-> IF q.kind \in Groups THEN 0 ELSE q.trigger]
      shown == {x \in Following(w.downtimes) : MayOrder(a, cgi, <<x.type, x.on>>)}
      do == IF q.kind = "host" /\ q.do = "DOWNTIME" /\ q.childoptions # 0
            THEN ChildOptions[q.childoptions] ELSE q.do
      sides == IF q.do = "SVC_DOWNTIME" /\ q.ahas THEN {q.do, "HOST_DOWNTIME"} ELSE {q.do}
  IN CASE q.do = "DEL_DOWNTIME" ->
            {Say(q.kind, q.do, "all", x.id) : x \in {y \in shown : y.id \in Range(q.ids)}}
       [] q.do \in Deleting -> {Say(x[1], q.do, x[2], Unfiltered) : x \in S}
       [] q.do \notin DowntimeCommands \/ S = {} -> {}
       [] q.kind \in Groups -> {Say(q.kind, side, q.group, v) : side \in sides}
       [] OTHER -> {Say(x[1], do, x[2], v) : x \in S}

\* e is the daemon that took the lines of the form.
WishedByRequest(w, r, e) ==
  LET a == get_authentication_information(d, r)
      q == Completed(process_cgivars(r.inputs), a, r)
  IN CASE \/ ~q.commit \/ ~r.cgi.check_external_commands \/ ~r.cgi.use_authentication
          \/ "read_only" \in a.rights \/ ~Faultless(q, r, now) -> w
       [] q.kind # "program" ->
            FoldSet(LAMBDA c, x : DowntimesWished(x, c, e),
                    WishedByForm(w, q, Permitted(q, a, r.cgi)),
                    DowntimeOrders(w, q, a, r.cgi, Permitted(q, a, r.cgi)))
       [] "system_commands" \notin a.rights \/ q.do \notin DOMAIN ProgramSetting -> w
       [] q.end_time # NoDate -> Wished(w, Say("program", "NOTIFICATIONS_EXPIRE_TIME", "all", q.end_time))
       [] OTHER -> Wished(w, Say("program", q.do, "all", q.v))
-----------------------------------------------------------------------------
\* The end of the disabled notifications has come.
Ended(w, c) ==
  LET key == <<"program", "all", "enable_notifications">>
  IN [w EXCEPT !.asked = IF Expected(w, c, key) THEN @
                         ELSE (key :> [value |-> TRUE, lasts |-> TRUE]) @@ @,
               !.end = 0]

\* A save writes a host's retry interval as its check interval.
Written(w) ==
  [w EXCEPT !.asked =
     [key \in DOMAIN @ |->
        IF key[1] = "host" /\ key[3] = "retry_interval"
        THEN [@[key] EXCEPT !.value = Expected(w, cfg, <<"host", key[2], "check_interval">>)]
        ELSE @[key]]]

\* What comes back of a setting at a start on configuration c.
Survives(w, key, c) ==
  /\ w.asked[key].lasts
  /\ key \in Keys(c)
  /\ key[3] \in {"check_period", "notification_period", "host_period", "service_period"}
       => w.asked[key].value \in c.periods
  /\ IF key[1] = "program" THEN opt.program /\ BitOf(key) \notin opt.process_mask
     ELSE /\ opt.status /\ opt.nonstatus
          /\ key[3] # "check_freshness"
          /\ key[3] = "custom" => w.asked[key].value # "c"
          /\ BitOf(key) \notin
               CASE key[1] = "contact" /\ key[3] # "custom" -> opt.contact_mask
                 [] key[1] = "contact" -> {}
                 [] OTHER -> opt.object_mask

Nothing == [asked |-> [x \in {} |-> 0], end |-> 0, downtimes |-> {}]

\* A downtime comes back with its object, if it is not over and its trigger comes back.
Remembered(w, c) ==
  [asked |-> [key \in {x \in DOMAIN w.asked : Survives(w, x, c)} |-> w.asked[key]],
   end   |-> IF opt.program THEN w.end ELSE 0,
   downtimes |-> Without(Following(w.downtimes),
                         {x \in w.downtimes : x.on \notin DOMAIN c[x.type] \/ x.end < now})]
-----------------------------------------------------------------------------
Init ==
  /\ story \in DOMAIN Stories
  /\ opt \in Told.opts
  /\ cfg \in Told.configs
  /\ file = None
  /\ now = 0
  /\ d = Started(cfg, file, opt, now)
  /\ wish = Nothing
  /\ kept = None
  /\ used = [commands |-> 0, results |-> 0, stops |-> 0, starts |-> 0,
             sets |-> 0]

Command ==
  /\ Running
  /\ used.commands < Told.most.commands
  /\ \E i \in DOMAIN Told.commands :
       /\ d' = process_external_command1(d, Told.commands[i], now)
       /\ wish' = DowntimesWished(Wished(wish, Told.commands[i]), Told.commands[i], d')
  /\ used' = [used EXCEPT !.commands = @ + 1]
  /\ UNCHANGED <<story, opt, file, cfg, kept, now>>

\* A form is sent to cmd.cgi, and the daemon takes the lines it writes.
Request ==
  /\ Running
  /\ used.commands < Told.most.commands
  /\ \E i \in DOMAIN Told.requests :
       /\ d' = FoldLeft(LAMBDA e, c : process_external_command1(e, c, now), d,
                        commit_command_data(d, Told.requests[i], now))
       /\ wish' = WishedByRequest(wish, Told.requests[i], d')
  /\ used' = [used EXCEPT !.commands = @ + 1]
  /\ UNCHANGED <<story, opt, file, cfg, kept, now>>

Result ==
  /\ Running
  /\ used.results < Told.most.results
  /\ \E r \in Told.results :
       /\ r.at \in DOMAIN d[r.kind]
       /\ r.hard \/ d[r.kind][r.at].set.max_attempts > 1
       /\ d' = ResultTaken(d, r)
  /\ used' = [used EXCEPT !.results = @ + 1]
  /\ UNCHANGED <<story, opt, file, cfg, wish, kept, now>>

Saved ==
  /\ file' = xrddefault_save_state_information(d, opt)
  /\ kept' = [wish |-> Written(wish), host |-> d.host, service |-> d.service,
              comments |-> d.comments.list]

\* EVENT_RETENTION_SAVE.
Save ==
  /\ Running
  /\ Saved
  /\ UNCHANGED <<story, opt, d, cfg, wish, now, used>>

Down ==
  /\ Running
  /\ used.stops < Told.most.stops
  /\ d' = None
  /\ wish' = Nothing
  /\ used' = [used EXCEPT !.stops = @ + 1]
  /\ UNCHANGED <<story, opt, cfg, now>>

Stop == Down /\ Saved

\* Also a stop whose file could not be written: the old file stays.
Crash == Down /\ UNCHANGED <<file, kept>>

StartDue ==
  /\ ~Running
  /\ used' = [used EXCEPT !.starts = @ + 1]

Start ==
  /\ StartDue
  /\ cfg' \in Told.configs
  /\ d' = Started(cfg', file, opt, now)
  /\ LET w == IF kept = None THEN Nothing ELSE Remembered(kept.wish, cfg')
     IN wish' = IF 0 < w.end /\ w.end <= now THEN Ended(w, cfg') ELSE w
  /\ UNCHANGED <<story, opt, file, kept, now>>

\* The first event of the list, once it is due.
HandleEvent ==
  /\ Running
  /\ \E e \in DOMAIN d.events :
       /\ e.due <= now
       /\ \A f \in DOMAIN d.events : e.due <= f.due
       /\ d' = Handled(d, e, now)
       /\ wish' = IF e.what = "notifications" /\ 0 < wish.end /\ wish.end <= e.due
                  THEN Ended(wish, cfg) ELSE wish
  /\ UNCHANGED <<story, opt, file, cfg, kept, now, used>>

Tick ==
  /\ now < Told.most.time
  /\ now' = now + 1
  /\ UNCHANGED <<story, opt, d, file, cfg, wish, kept, used>>

\* The clock is set back.  Of a running daemon, compensate_for_system_time_change()
\* moves neither the events here, which are planned for a time of day, nor any end.
SetClock ==
  /\ used.sets < Told.most.sets
  /\ \E t \in 0 .. now - 1 : now' = t
  /\ used' = [used EXCEPT !.sets = @ + 1]
  /\ UNCHANGED <<story, opt, d, file, cfg, wish, kept>>

Next ==
  \/ Command \/ Request \/ Result \/ Save \/ Stop \/ Crash \/ Start
  \/ HandleEvent \/ Tick \/ SetClock

Spec == Init /\ [][Next]_vars

\* Time passes, the daemon is started again (Start is the step that counts a
\* start), and its events are handled.
FairSpec == Spec /\ WF_vars(Tick) /\ WF_used(StartDue) /\ WF_vars(HandleEvent)
-----------------------------------------------------------------------------
(* Properties.                                                             *)

SettingsFollow == \A key \in Keys(cfg) : Setting(d, key) = Expected(wish, cfg, key)

ChecksPlanned ==
  \A o \in {d.host[h] : h \in DOMAIN d.host} \cup {d.service[s] : s \in DOMAIN d.service} :
    /\ o.should_be_scheduled => o.set.checks_enabled
    /\ o.set.checks_enabled /\ o.set.check_interval # 0 => o.should_be_scheduled

CommentsAreNumbered ==
  \A m, n \in d.comments.list : m.id = n.id /\ m.type = n.type => m = n

\* The list holds what was asked for, each under a number of its own, and each comment
\* about a downtime is that of one which is listed.
DowntimesFollow ==
  LET Content(m) == [id |-> m.id, type |-> m.type, on |-> m.on, start |-> m.start,
                    end |-> m.end, text |-> m.text, by |-> m.trigger]
  IN /\ {Content(m) : m \in Listed(d)} = wish.downtimes
     /\ Cardinality({m.id : m \in Listed(d)}) = Len(d.downtimes.list)
     /\ \A n \in d.comments.list :
          n.entry = "downtime" =>
            \E m \in Listed(d) : m.type = n.type /\ m.on = n.on /\ m.comment = n.id

ObjectShows(shown, o) ==
  /\ shown.pending = ~o.state.checked
  /\ \A f \in DOMAIN shown.entry : shown.entry[f] = Facts(o)[f]

PagesShow ==
  LET pages == Pages(d)
  IN /\ pages.program = ProgramFacts(d.prog)
     /\ \A kind \in Both : \A x \in DOMAIN d[kind] : ObjectShows(pages[kind][x], d[kind][x])
     /\ pages.comments = d.comments.list
     /\ {m.id : m \in Range(pages.downtimes)} = {x.id : x \in Following(wish.downtimes)}

\* Every setting is what the last command or form of one who may command it said,
\* carried over any number of saves, crashes and restarts as far as the retention
\* options let it, and otherwise what the configuration says; the active checks that
\* are planned are the enabled ones; the downtimes are those that were asked for, less
\* those deleted and what they would have triggered; no two comments of a type share a
\* number; and the CGIs show all of it as it is (base/commands.c, common/downtime.c,
\* xdata/xrddefault.c, cgi/cmd.c, cgi/cgiauth.c, xdata/xsddefault.c).
FollowsOperator ==
  Running => /\ SettingsFollow /\ ChecksPlanned
             /\ CommentsAreNumbered /\ DowntimesFollow /\ PagesShow

StateResumes(was, o) ==
  /\ opt.status =>
       /\ o.state.bad = was.bad /\ o.state.hard = was.hard /\ o.state.number = was.number
       /\ was.bad /\ was.hard => o.state.attempt = o.set.max_attempts
  /\ o.state.acked <=> /\ opt.status /\ opt.nonstatus
                       /\ was.acked /\ (was.ackend = 0 \/ was.ackend > now)

\* Large installations trust the file, the others look at the record again.
FlappingResumes(was, kind, o) ==
  LET looks == d'.prog.set.enable_flap_detection /\ o.set.flap_detection_enabled
  IN /\ o.state.flapping => o.set.flap_detection_enabled
     /\ opt.status /\ opt.tweaks /\ o.set.flap_detection_enabled
          => o.state.flapping = was.flapping
     /\ opt.status /\ ~opt.tweaks /\ looks /\ ~(kind = "service" /\ SoftProblem(o))
          => (o.state.flapping <=> was.changes = "many")

\* Without the state of the program the ids of comments start at 0 again, which is also
\* the comment of a downtime whose object is gone: deleting that takes another's along.
CommentsResume ==
  LET lasts(m) == /\ m.on \in DOMAIN d'[m.type]
                  /\ \/ m.persistent
                     \/ m.entry = "acknowledgement" /\ d'[m.type][m.on].state.acked
  IN /\ {m \in kept.comments : lasts(m)} \subseteq d'.comments.list
     /\ \A m \in d'.comments.list \ kept.comments :
          \/ m.entry = "flapping" /\ d'[m.type][m.on].state.flapping
          \/ m.entry = "downtime"
     /\ opt.program => \A m \in Listed(d') :
          \E n \in d'.comments.list :
            n.entry = "downtime" /\ n.type = m.type /\ n.on = m.on /\ n.id = m.comment
     /\ \A m \in d'.comments.list \cap kept.comments : lasts(m) \/ m.entry = "downtime"

\* A start takes up every problem where the last save left it: state, kind of state
\* and notification number are the same, a hard problem is at its last attempt, it is
\* acknowledged exactly if it was and no end has passed, it flaps if its record still
\* says so, and the comments are those that are persistent or explain an acknowledgement
\* in force, and one for each downtime (xdata/xrddefault.c:786-1062).
Resumes ==
  [][~Running /\ d' # None /\ kept # None =>
       /\ \A kind \in Both : \A x \in DOMAIN d'[kind] \cap DOMAIN kept[kind] :
            /\ StateResumes(kept[kind][x].state, d'[kind][x])
            /\ FlappingResumes(kept[kind][x].state, kind, d'[kind][x])
       /\ CommentsResume]_vars

Disabled == Running /\ ~d.prog.set.enable_notifications /\ d.prog.until # 0

AckedUntil(kind, x) ==
  Running /\ x \in DOMAIN d[kind] /\ d[kind][x].state.acked /\ d[kind][x].state.ackend # 0

\* Disabled notifications and an acknowledgement that have an end do end, however
\* often the daemon stops or dies in between, whenever it saved, and also when the
\* clock is set
\* (base/events.c:1549, xdata/xrddefault.c:762 and 843).
EndsCome ==
  /\ Disabled ~> Running /\ ~Disabled
  /\ \A h \in Hosts : AckedUntil("host", h) ~> Running /\ ~AckedUntil("host", h)
  /\ \A s \in Services : AckedUntil("service", s) ~> Running /\ ~AckedUntil("service", s)
=============================================================================
