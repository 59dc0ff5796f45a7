----------------------------- MODULE WebCommand -----------------------------
(***************************************************************************)
(* From a form of cmd.cgi to the lines in the command file (cgi/cmd.c,     *)
(* cgi/cgiauth.c).  A web request is [from, cgi, inputs]: the user that    *)
(* the web server names ("" for none), the options of cgi.cfg in force,    *)
(* and the inputs of the form, a sequence of [key, value].  What the form  *)
(* asks for is a request q (NoRequest below): the command by kind, do and  *)
(* v as in ExternalCommands, and a slot [host, service] for each object it *)
(* names; of the objects that have no slots, the program and the groups,   *)
(* the code keeps what it decides in slot 1.                               *)
(* The options: use_authentication, check_external_commands, enforce       *)
(* (enforce_comments_on_actions), lock (lock_author_names), show_all       *)
(* (show_all_services_host_is_authorized_for), default_user_name, and per  *)
(* right of the module the users and the groups it is given to.            *)
(* Delays, checks, results, custom notifications and the stop of the       *)
(* daemon are handed on here and handled in other modules.                 *)
(***************************************************************************)
EXTENDS StatusFile

CONSTANTS
  ContactsOf,   \* kind -> object -> its contacts, those of its contact groups included
  EscalatedTo,  \* the same for its escalations
  CanSubmit     \* the contacts with can_submit_commands

Say(kind, do, at, v) == [kind |-> kind, do |-> do, at |-> at, v |-> v]
-----------------------------------------------------------------------------
(* Who asks.                                                               *)

Rights == {"all_host_commands", "all_hosts", "all_service_commands", "all_services",
           "read_only", "system_commands"}

Members(group) == IF group \in DOMAIN GroupMembers THEN GroupMembers[group] ELSE {}

get_authentication_information(d, r) ==
  LET name == IF r.from = "" THEN r.cgi.default_user_name ELSE r.from
      Given(right) ==
        \/ r.cgi.users[right] \cap {name, "*"} # {}
        \/ name \in DOMAIN d.contact /\ \E g \in r.cgi.groups[right] : name \in Members(g)
  IN [username |-> name, authenticated |-> name # "",
      rights |-> IF name = "" THEN {} ELSE {x \in Rights : Given(x)}]

\* A right that everyone has where nobody is asked for a name.
HasRight(a, cgi, right) ==
  ~cgi.use_authentication \/ (a.authenticated /\ right \in a.rights)

is_authorized_for_read_only(a, cgi) ==
  cgi.use_authentication /\ a.authenticated /\ "read_only" \in a.rights

is_authorized_for_system_commands(a, cgi) == HasRight(a, cgi, "system_commands")

IsContact(a, kind, x) ==
  a.username \in ContactsOf[kind][x] \cup EscalatedTo[kind][x]

is_authorized_for_host(d, h, a, cgi) ==
  \/ HasRight(a, cgi, "all_hosts")
  \/ a.authenticated /\ h \in DOMAIN d.host /\ IsContact(a, "host", h)

is_authorized_for_service(d, s, a, cgi) ==
  \/ HasRight(a, cgi, "all_services")
  \/ /\ a.authenticated
     /\ s \in DOMAIN d.service
     /\ \/ is_authorized_for_host(d, HostOf[s], a, cgi) /\ cgi.show_all
        \/ IsContact(a, "service", s)

\* A contact that may not submit commands may not, whatever other right it has.
MaySubmit(d, a) == a.username \in DOMAIN d.contact => a.username \in CanSubmit

is_authorized_for_host_commands(d, h, a, cgi) ==
  /\ h \in DOMAIN d.host
  /\ \/ ~cgi.use_authentication
     \/ /\ a.authenticated
        /\ is_authorized_for_host(d, h, a, cgi)
        /\ MaySubmit(d, a)
        /\ IsContact(a, "host", h) \/ "all_host_commands" \in a.rights

is_authorized_for_service_commands(d, s, a, cgi) ==
  /\ s \in DOMAIN d.service
  /\ \/ ~cgi.use_authentication
     \/ /\ a.authenticated
        /\ is_authorized_for_service(d, s, a, cgi)
        /\ MaySubmit(d, a)
        /\ \/ IsContact(a, "host", HostOf[s])
           \/ IsContact(a, "service", s)
           \/ "all_service_commands" \in a.rights

\* A group is for those who may command every member.
is_authorized_for_hostgroup_commands(d, group, a, cgi) ==
  /\ group \in DOMAIN GroupMembers
  /\ \A h \in GroupMembers[group] : is_authorized_for_host_commands(d, h, a, cgi)

is_authorized_for_servicegroup_commands(d, group, a, cgi) ==
  /\ group \in DOMAIN GroupMembers
  /\ \A s \in GroupMembers[group] : is_authorized_for_service_commands(d, s, a, cgi)
-----------------------------------------------------------------------------
(* What the form says.                                                     *)

\* A date that was not given or cannot be read is 0 in the code; our clock starts at 0.
NoDate == 0 - 1

\* A text is "" or "text", or "lines" when it has line breaks.
NoRequest ==
  [kind |-> "none", do |-> "none", v |-> FALSE, commit |-> FALSE,
   slots |-> <<>>, ids |-> <<>>, group |-> "none",
   com_author |-> "", com_data |-> "", plugin_output |-> "",
   start_time |-> NoDate, end_time |-> NoDate, not_dly |-> 0, sched_dly |-> 0, duration |-> 0,
   attr |-> {}, interval |-> 1, plugin_state |-> 0, fixed |-> FALSE, trigger |-> 0,
   childoptions |-> 0, force_notification |-> FALSE, broadcast_notification |-> FALSE,
   persistent |-> FALSE, use_ack_end_time |-> FALSE, use_disabled_notif_end_time |-> FALSE,
   force_check |-> FALSE, ahas |-> FALSE, ptc |-> FALSE]

Units == [hours |-> 3600, minutes |-> 60]

\* The check boxes: to be there is to be ticked.
Boxes == {"persistent", "use_ack_end_time", "use_disabled_notif_end_time", "force_check",
          "ahas", "ptc", "force_notification", "broadcast_notification"}

Slot(host, service) == [host |-> host, service |-> service]

\* A service belongs to the host that was named before it.
Entered(q, i) ==
  CASE i.key = "cmd_typ" -> [q EXCEPT !.kind = i.value.kind, !.do = i.value.do, !.v = i.value.v]
    [] i.key = "cmd_mod" -> [q EXCEPT !.commit = i.value]
    [] i.key \in {"com_id", "down_id"} -> [q EXCEPT !.ids = Append(@, i.value)]
    [] i.key = "host" -> [q EXCEPT !.slots = Append(@, Slot(i.value, "nothing"))]
    [] i.key = "service" -> [q EXCEPT !.slots[Len(q.slots)].service = i.value]
    [] i.key = "hostservice" ->
         [q EXCEPT !.slots = Append(@, Slot(i.value.host, i.value.service))]
    [] i.key \in {"hostgroup", "servicegroup"} -> [q EXCEPT !.group = i.value]
    [] i.key \in DOMAIN Units ->
         [q EXCEPT !.duration = IF i.value < 0 THEN @ ELSE @ + i.value * Units[i.key]]
    [] i.key \in Boxes -> [q EXCEPT ![i.key] = TRUE]
    [] OTHER -> [q EXCEPT ![i.key] = i.value]

process_cgivars(inputs) == FoldLeft(Entered, NoRequest, inputs)

\* The object in a slot, with a service only on its own host.
InSlot(q, x) ==
  LET slot == q.slots[x]
  IN CASE q.kind = "host" -> slot.host
       [] slot.service \in Services /\ HostOf[slot.service] = slot.host -> slot.service
       [] OTHER -> "nothing"
-----------------------------------------------------------------------------
(* The checks of a form.                                                   *)

Acknowledgements  == {"ACKNOWLEDGE", "ACKNOWLEDGE_WITH_SERVICES"}
DowntimeCommands  == {"DOWNTIME", "SVC_DOWNTIME", "HOST_DOWNTIME"}
Explaining        == Acknowledgements \cup {"ADD_COMMENT", "SEND_CUSTOM_NOTIFICATION"}
ById              == {"DEL_COMMENT", "DEL_DOWNTIME"}
Groups            == {"hostgroup", "servicegroup"}

check_comment_sanity(q) == q.com_author # "" /\ q.com_data # ""

check_time_sanity(start, end) == start # NoDate /\ end # NoDate /\ start <= end

\* Two kinds of command are enforced nothing: they change values.
IsExplained(q, r) ==
  q.do \in Explaining \cup DowntimeCommands \/ (r.cgi.enforce /\ q.do \notin {"MODATTR", "INTERVALS"})
    => check_comment_sanity(q)

clean_comment_data(text) == IF text = "lines" THEN "text" ELSE text

\* With an alias or without, the author of one who is known is not what the form says.
Author(q, a, r) == IF r.cgi.lock THEN a.username ELSE q.com_author

\* The two kinds of command that may have an end: it counts only if its box is ticked.
HasEnd(q) ==
  \/ q.do \in Acknowledgements /\ q.use_ack_end_time
  \/ q.kind = "program" /\ q.do = "NOTIFICATIONS" /\ ~q.v /\ q.use_disabled_notif_end_time

\* The request as it is committed.
Completed(q, a, r) ==
  [q EXCEPT !.com_author = clean_comment_data(Author(q, a, r)),
            !.com_data = clean_comment_data(@),
            !.end_time = IF HasEnd(q) \/ q.do \in DowntimeCommands THEN @ ELSE NoDate]

TimesAreSane(q, now) ==
  /\ HasEnd(q) => check_time_sanity(now, q.end_time)
  /\ q.do \in DowntimeCommands => check_time_sanity(q.start_time, q.end_time)

ValuesAreSane(q) ==
  /\ q.do = "PROCESS_CHECK_RESULT" => q.plugin_output # ""
  /\ q.do = "DELAY_NOTIFICATION" => q.not_dly > 0
  /\ q.do \in {"SCHEDULE_CHECK", "SCHEDULE_SVC_CHECKS"} => q.start_time # NoDate
  /\ q.do = "MODATTR" /\ q.slots # <<>> => q.attr = {}

\* Names that would be taken for more than one argument.
Semicolons == {"h;1"}

NamesAreSane(q) ==
  /\ \A x \in DOMAIN q.slots : {q.slots[x].host, q.slots[x].service} \cap Semicolons = {}
  /\ q.group \notin Semicolons

Faultless(q, r, now) ==
  IsExplained(q, r) /\ TimesAreSane(q, now) /\ ValuesAreSane(q) /\ NamesAreSane(q)
-----------------------------------------------------------------------------
(* For which slots the user may command.                                   *)

MayCommand(d, a, cgi, kind, x) ==
  IF kind = "host" THEN is_authorized_for_host_commands(d, x, a, cgi)
  ELSE is_authorized_for_service_commands(d, x, a, cgi)

ObjectSlots(d, q, a, cgi) ==
  {x \in DOMAIN q.slots : MayCommand(d, a, cgi, q.kind, InSlot(q, x))}

\* The objects of comments and downtimes are those that the status file names.
CommentSlots(d, q, a, cgi) ==
  {x \in DOMAIN q.ids :
     \E m \in Pages(d).comments :
       m.id = q.ids[x] /\ m.type = q.kind /\ MayCommand(d, a, cgi, m.type, m.on)}

DowntimeSlots(d, q, a, cgi) ==
  {x \in DOMAIN q.ids :
     \E m \in Range(Pages(d).downtimes) :
       m.id = q.ids[x] /\ m.type = q.kind /\ MayCommand(d, a, cgi, m.type, m.on)}

GroupSlots(d, q, a, cgi) ==
  IF IF q.kind = "hostgroup" THEN is_authorized_for_hostgroup_commands(d, q.group, a, cgi)
     ELSE is_authorized_for_servicegroup_commands(d, q.group, a, cgi)
  THEN {1} ELSE {}

is_authorized(d, q, a, cgi) ==
  CASE q.kind = "program"    -> IF is_authorized_for_system_commands(a, cgi) THEN {1} ELSE {}
    [] q.kind \in Groups     -> GroupSlots(d, q, a, cgi)
    [] q.do = "DEL_COMMENT"  -> CommentSlots(d, q, a, cgi)
    [] q.do = "DEL_DOWNTIME" -> DowntimeSlots(d, q, a, cgi)
    [] OTHER                 -> ObjectSlots(d, q, a, cgi)
-----------------------------------------------------------------------------
(* The lines that are written, ok being the slots for which the user may   *)
(* command.                                                                *)

InOrder(S) == SetToSortSeq(S, LAMBDA x, y : x < y)

\* The same command for each object.
Each(q, ok, do, v) ==
  LET order == InOrder(ok) IN [i \in DOMAIN order |-> Say(q.kind, do, InSlot(q, order[i]), v)]

SystemCommand(q, ok, now) ==
  LET at == now + q.sched_dly * 60
      said == CASE q.do # "NOTIFICATIONS" -> Say("program", q.do, "all", q.v)
                [] ~q.v /\ q.end_time # NoDate ->
                     Say("program", "NOTIFICATIONS_EXPIRE_TIME", "all", q.end_time)
                [] OTHER -> Say("program", q.do, "all", q.v)
  IN IF ok = {} THEN <<>>
     ELSE IF q.do \in {"SHUTDOWN", "RESTART"} THEN <<Say("program", q.do, "all", at)>>
     ELSE <<said>>

\* What is asked of each object, alone or with a value.
ObjectCommand(q, ok, now) ==
  CASE q.do = "ADD_COMMENT" -> Each(q, ok, q.do, q.persistent)
    [] q.do \in ById ->
         LET order == InOrder(ok)
         IN [i \in DOMAIN order |-> Say(q.kind, q.do, "all", q.ids[order[i]])]
    [] q.do = "DEL_DOWNTIME_BY_HOST_NAME" -> Each(q, ok, q.do, Unfiltered)
    [] q.do = "DELAY_NOTIFICATION" -> Each(q, ok, q.do, now + q.not_dly * 60)
    [] q.do = "SCHEDULE_CHECK" ->
         Each(q, ok, IF q.force_check THEN "SCHEDULE_FORCED_CHECK" ELSE q.do, q.start_time)
    [] OTHER -> Each(q, ok, q.do, q.v)

\* The services of a host, and with a box ticked the host too; the notifications of
\* a host, and with a box ticked those of the hosts below.
HostsSide == [SVC_CHECKS |-> "CHECKS", SVC_NOTIFICATIONS |-> "NOTIFICATIONS"]

HostCommand(q, ok, now) ==
  CASE q.do = "NOTIFICATIONS" ->
         Each(q, ok, IF q.ptc THEN "AND_CHILD_NOTIFICATIONS" ELSE q.do, q.v)
    [] q.do \in DOMAIN HostsSide ->
         Each(q, ok, q.do, q.v)
         \o (IF q.ahas THEN Each(q, ok, HostsSide[q.do], q.v) ELSE <<>>)
    [] q.do = "SCHEDULE_SVC_CHECKS" ->
         Each(q, ok, IF q.force_check THEN "SCHEDULE_FORCED_SVC_CHECKS" ELSE q.do,
              now + q.sched_dly * 60)

AcknowledgeCommand(q, ok) ==
  Each(q, ok, q.do, [persistent |-> q.persistent, end |-> IF q.end_time = NoDate THEN 0 ELSE q.end_time])

\* A host's downtime may be one for the hosts below, too.
Propagated == <<"AND_PROPAGATE_TRIGGERED_DOWNTIME", "AND_PROPAGATE_DOWNTIME">>

Downtime(q) ==
  [start |-> q.start_time, end |-> q.end_time, fixed |-> q.fixed,
   trigger |-> IF q.kind \in Groups THEN 0 ELSE q.trigger, duration |-> q.duration,
   text |-> q.com_data]

ReportCommand(q, ok) ==
  CASE q.do = "PROCESS_CHECK_RESULT" -> Each(q, ok, q.do, q.plugin_state)
    [] q.do = "SEND_CUSTOM_NOTIFICATION" ->
         Each(q, ok, q.do, [force |-> q.force_notification, broadcast |-> q.broadcast_notification])
    [] q.kind = "host" /\ q.do = "DOWNTIME" ->
         Each(q, ok, IF q.childoptions \in DOMAIN Propagated THEN Propagated[q.childoptions] ELSE q.do,
              Downtime(q))
    [] q.do \in DowntimeCommands -> Each(q, ok, q.do, Downtime(q))

\* The services of a group, and with a box ticked its hosts too.
GroupHostsSide == [SVC_NOTIFICATIONS |-> "HOST_NOTIFICATIONS", SVC_CHECKS |-> "HOST_CHECKS",
                   SVC_DOWNTIME |-> "HOST_DOWNTIME"]

GroupCommand(q, ok) ==
  LET v == IF q.do \in DowntimeCommands THEN Downtime(q) ELSE q.v
  IN CASE ok = {} -> <<>>
       [] q.ahas /\ q.do \in DOMAIN GroupHostsSide ->
            <<Say(q.kind, q.do, q.group, v), Say(q.kind, GroupHostsSide[q.do], q.group, v)>>
       [] OTHER -> <<Say(q.kind, q.do, q.group, v)>>

\* Bits are only ever reset; an interval is set for both kinds of state, and looked at.
ValueCommand(q, ok, now) ==
  LET order == InOrder(ok)
      Three(x) == <<Say(q.kind, "NORMAL_CHECK_INTERVAL", InSlot(q, x), q.interval),
                    Say(q.kind, "RETRY_CHECK_INTERVAL", InSlot(q, x), q.interval),
                    Say(q.kind, "SCHEDULE_FORCED_CHECK", InSlot(q, x), now)>>
  IN IF q.do = "MODATTR" THEN Each(q, ok, q.do, q.attr)
     ELSE FlattenSeq([i \in DOMAIN order |-> Three(order[i])])

commit_command(q, ok, now) ==
  CASE q.kind = "program" -> SystemCommand(q, ok, now)
    [] q.kind \in Groups -> GroupCommand(q, ok)
    [] q.do \in Acknowledgements -> AcknowledgeCommand(q, ok)
    [] q.do \in {"PROCESS_CHECK_RESULT", "SEND_CUSTOM_NOTIFICATION"} \cup DowntimeCommands ->
         ReportCommand(q, ok)
    [] q.do \in {"MODATTR", "INTERVALS"} -> ValueCommand(q, ok, now)
    [] q.kind = "host" /\ q.do \in DOMAIN HostsSide \cup {"NOTIFICATIONS", "SCHEDULE_SVC_CHECKS"} ->
         HostCommand(q, ok, now)
    [] OTHER -> ObjectCommand(q, ok, now)

\* A line break would make another command: such lines are not written.  (Author and
\* comment are cleaned before, the output of a check result is not.)
write_command_to_file(q, lines) ==
  IF q.do = "PROCESS_CHECK_RESULT" /\ q.plugin_output = "lines" THEN <<>> ELSE lines

\* Everything is checked before the first line is written, but for the right to an
\* object: it is asked for each.
commit_command_data(d, r, now) ==
  LET a == get_authentication_information(d, r)
      q == Completed(process_cgivars(r.inputs), a, r)
      ok == is_authorized(d, q, a, r.cgi)
  IN IF /\ q.commit /\ ~is_authorized_for_read_only(a, r.cgi)
        /\ r.cgi.check_external_commands /\ r.cgi.use_authentication
        /\ Faultless(q, r, now)
     THEN write_command_to_file(q, commit_command(q, ok, now))
     ELSE <<>>
=============================================================================
