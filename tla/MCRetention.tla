----------------------------- MODULE MCRetention -----------------------------
(* Three hosts in a row with services on the lower two, a contact, and a    *)
(* group of each kind.  There are two configurations: "here", and "there"   *)
(* in which every switch and interval differs, a timeperiod is gone and so  *)
(* is a service.  Each story turns one part of the commands loose.          *)
EXTENDS Retention

HostOfDef     == [s2 |-> "h2", s3 |-> "h3"]
ChildrenOfDef == [h1 |-> {"h2"}, h2 |-> {"h3"}, h3 |-> {}]
GroupMembersDef == [hg |-> {"h1", "h2"}, sg |-> {"s3"}, cg |-> {"k"}]

\* "m" may not submit commands, whatever rights it has; "boss" is no contact.
ContactsOfDef  == [host |-> [h1 |-> {"m"}, h2 |-> {"k"}, h3 |-> {}],
                   service |-> [s2 |-> {}, s3 |-> {"m"}]]
EscalatedToDef == [host |-> [h1 |-> {}, h2 |-> {}, h3 |-> {}],
                   service |-> [s2 |-> {}, s3 |-> {"k"}]]
CanSubmitDef   == {"k"}

Cgi ==
  [use_authentication |-> TRUE, check_external_commands |-> TRUE, enforce |-> FALSE,
   lock |-> FALSE, show_all |-> TRUE, default_user_name |-> "",
   users |-> [all_hosts |-> {"boss", "m"}, all_host_commands |-> {"boss", "m"},
              all_services |-> {"boss"}, all_service_commands |-> {"*"},
              read_only |-> {"guest"}, system_commands |-> {"boss"}],
   groups |-> [x \in Rights |-> IF x = "system_commands" THEN {"cg"} ELSE {}]]

Program(v) ==
  [x \in DOMAIN ProgramBit |-> v]

Object(v, interval) ==
  [x \in DOMAIN ObjectBit \cup {"check_freshness"} |->
     CASE x \in PeriodSettings -> "always"
       [] x = "check_interval" -> interval
       [] x = "retry_interval" -> 1
       [] x = "max_attempts"   -> 2
       [] OTHER -> v]

Plain(v, interval) == [set |-> Object(v, interval), custom |-> "written"]

Person(v) ==
  [set |-> [host_notifications_enabled |-> v, service_notifications_enabled |-> v],
   period |-> [host |-> "always", service |-> "always"], custom |-> "written"]

Here ==
  [prog |-> Program(TRUE), host |-> [h \in Hosts |-> Plain(TRUE, 5)],
   service |-> [s2 |-> Plain(TRUE, 5), s3 |-> Plain(TRUE, 0)],
   contact |-> [k \in Contacts |-> Person(TRUE)], periods |-> {"always", "nights"}]

There ==
  [prog |-> Program(FALSE), host |-> [h \in Hosts |-> Plain(FALSE, 0)],
   service |-> [s3 |-> Plain(FALSE, 5)],
   contact |-> [k \in Contacts |-> Person(FALSE)], periods |-> {"always"}]

Options ==
  [status |-> TRUE, nonstatus |-> TRUE, program |-> TRUE, process_mask |-> {},
   object_mask |-> {}, contact_mask |-> {}, tweaks |-> FALSE]

Masks ==
  [Options EXCEPT !.process_mask = {"EVENT_HANDLER", "ACTIVE_CHECKS"},
                  !.object_mask = {"NOTIFICATIONS", "MAX_CHECK_ATTEMPTS"},
                  !.contact_mask = {"NOTIFICATIONS"}]

Tweaked == [Options EXCEPT !.tweaks = TRUE]

Statusless == [Options EXCEPT !.status = FALSE]

Forgetful ==
  {Statusless, [Options EXCEPT !.nonstatus = FALSE],
   [Options EXCEPT !.program = FALSE], Masks}

Result1(kind, at, bad, hard, changes) ==
  [kind |-> kind, at |-> at, bad |-> bad, hard |-> hard, changes |-> changes]

InSomeOrder(S) == FoldSet(LAMBDA x, list : Append(list, x), <<>>, S)

\* The same orders for each object of a sequence.
Orders(objects, says) ==
  FlattenSeq([i \in DOMAIN objects |->
    [j \in DOMAIN says |-> Say(objects[i][1], says[j][1], objects[i][2], says[j][2])]])

OneOfEach == <<<<"host", "h1">>, <<"service", "s3">>>>

ProgramSwitches == InSomeOrder(
  {Say("program", do, "all", v) :
     do \in DOMAIN ProgramSetting \ {"NOTIFICATIONS_EXPIRE_TIME"}, v \in BOOLEAN}
  \cup {Say(kind, "FRESHNESS_CHECKS", "nothing", v) : kind \in Both, v \in BOOLEAN})

ObjectSwitches == InSomeOrder(
  {Say(x[1], do, x[2], v) : x \in Range(OneOfEach), do \in Switches \cup {"FLAP_DETECTION"},
                            v \in BOOLEAN})

ManySwitches == InSomeOrder(
  {Say("host", do, h, v) :
     do \in {"AND_CHILD_NOTIFICATIONS", "NOTIFICATIONS_BEYOND", "SVC_NOTIFICATIONS", "SVC_CHECKS"},
     h \in {"h1", "h2"}, v \in BOOLEAN}
  \cup {Say(g[1], do, g[2], v) : g \in {<<"hostgroup", "hg">>, <<"servicegroup", "sg">>},
          do \in DOMAIN HostPart \cup DOMAIN ServicePart, v \in BOOLEAN}
  \cup {Say("contactgroup", "HOST_NOTIFICATIONS", g, FALSE) : g \in {"cg", "nothing"}})

Values == Orders(<<<<"host", "h2">>, <<"service", "s3">>>>,
  <<<<"NORMAL_CHECK_INTERVAL", 7>>, <<"NORMAL_CHECK_INTERVAL", 0>>,
    <<"RETRY_CHECK_INTERVAL", 3>>, <<"MAX_CHECK_ATTEMPTS", 4>>, <<"MODATTR", {}>>,
    <<"MODATTR", {"NORMAL_CHECK_INTERVAL", "CUSTOM_VARIABLE"}>>,
    <<"CHECK_TIMEPERIOD", "nights">>, <<"NOTIFICATION_TIMEPERIOD", "never">>,
    <<"CUSTOM_VAR", [known |-> TRUE, value |-> "changed"]>>,
    <<"CUSTOM_VAR", [known |-> TRUE, value |-> "c"]>>,
    <<"CUSTOM_VAR", [known |-> FALSE, value |-> "changed"]>>,
    <<"CHECKS", FALSE>>, <<"CHECKS", TRUE>>>>)

ContactValues == Orders(<<<<"contact", "k">>>>,
  <<<<"HOST_NOTIFICATIONS", FALSE>>, <<"SVC_NOTIFICATIONS", FALSE>>,
    <<"SVC_NOTIFICATIONS", TRUE>>, <<"HOST_NOTIFICATION_TIMEPERIOD", "nights">>,
    <<"SVC_NOTIFICATION_TIMEPERIOD", "always">>, <<"MODATTR", {}>>, <<"MODHATTR", {}>>,
    <<"MODSATTR", {"NOTIFICATIONS"}>>,
    <<"CUSTOM_VAR", [known |-> TRUE, value |-> "changed"]>>>>)

Ends == Orders(<<<<"program", "all">>>>,
  <<<<"NOTIFICATIONS_EXPIRE_TIME", 1>>, <<"NOTIFICATIONS_EXPIRE_TIME", 3>>,
    <<"NOTIFICATIONS", TRUE>>, <<"NOTIFICATIONS", FALSE>>>>)

Explained == Orders(OneOfEach,
  <<<<"ACKNOWLEDGE", [persistent |-> FALSE, end |-> 0]>>,
    <<"REMOVE_ACKNOWLEDGEMENT", 0>>, <<"MAX_CHECK_ATTEMPTS", 3>>, <<"NOTIFICATION_NUMBER", 4>>>>)

Expiring == Orders(OneOfEach,
  <<<<"ACKNOWLEDGE", [persistent |-> TRUE, end |-> 2]>>,
    <<"ACKNOWLEDGE", [persistent |-> FALSE, end |-> 1]>>,
    <<"ACKNOWLEDGE", [persistent |-> FALSE, end |-> 0]>>, <<"REMOVE_ACKNOWLEDGEMENT", 0>>>>)

Remarks == Orders(OneOfEach,
  <<<<"ADD_COMMENT", TRUE>>, <<"ADD_COMMENT", FALSE>>, <<"DEL_COMMENT", 1>>,
    <<"DEL_ALL_COMMENTS", 0>>, <<"ACKNOWLEDGE", [persistent |-> FALSE, end |-> 0]>>>>)

FlapSwitches == Orders(<<<<"program", "all">>>> \o OneOfEach,
  <<<<"FLAP_DETECTION", TRUE>>, <<"FLAP_DETECTION", FALSE>>>>)

Problems ==
  {Result1("host", "h1", TRUE, TRUE, "few"), Result1("service", "s3", TRUE, TRUE, "few"),
   Result1("service", "s3", TRUE, FALSE, "few"), Result1("host", "h1", FALSE, TRUE, "few")}

Flaps ==
  {Result1("host", "h1", TRUE, TRUE, changes) : changes \in {"few", "some", "many"}}
  \cup {Result1("service", "s3", FALSE, TRUE, changes) : changes \in {"few", "many"}}
  \cup {Result1("service", "s3", TRUE, FALSE, "many")}

\* Downtimes that have not started by the end of any story.
Rest(start, end, trigger, text) ==
  [start |-> start, end |-> end, fixed |-> TRUE, trigger |-> trigger, duration |-> 0,
   text |-> text]
Filter(service, start, text) ==
  [host |-> "any", service |-> service, start |-> start, text |-> text]

Scheduled ==
  <<Say("host", "AND_PROPAGATE_TRIGGERED_DOWNTIME", "h1", Rest(20, 30, 0, "text")),
    Say("host", "AND_PROPAGATE_DOWNTIME", "h2", Rest(20, 30, 9, "text")),
    Say("host", "SVC_DOWNTIME", "h3", Rest(25, 30, 0, "text")),
    Say("service", "DOWNTIME", "s2", Rest(20, 30, 1, "lines")),
    Say("service", "DOWNTIME", "s3", Rest(10, 30, 3, "text")),
    Say("host", "DEL_DOWNTIME", "all", 1), Say("service", "DEL_DOWNTIME", "all", 2),
    Say("host", "DEL_DOWNTIME_BY_HOST_NAME", "h3", Filter("any", 0, "any")),
    Say("program", "DEL_DOWNTIME_BY_START_TIME_COMMENT", "all", Filter("any", 20, "text"))>>

Grouped ==
  <<Say("hostgroup", "HOST_DOWNTIME", "hg", Rest(20, 30, 0, "text")),
    Say("hostgroup", "SVC_DOWNTIME", "hg", Rest(20, 30, 1, "text")),
    Say("servicegroup", "HOST_DOWNTIME", "sg", Rest(20, 30, 0, "text")),
    Say("servicegroup", "SVC_DOWNTIME", "sg", Rest(10, 30, 0, "text")),
    Say("hostgroup", "SVC_DOWNTIME", "nothing", Rest(20, 30, 0, "text")),
    Say("host", "DOWNTIME", "h1", [Rest(20, 30, 0, "text") EXCEPT !.fixed = FALSE]),
    Say("host", "DOWNTIME", "h1", Rest(30, 30, 0, "text")),
    Say("host", "DOWNTIME", "h1", [Rest(20, 30, 0, "text") EXCEPT !.fixed = FALSE, !.duration = 5]),
    Say("hostgroup", "DEL_DOWNTIME_BY_HOSTGROUP_NAME", "hg", Filter("any", 0, "text")),
    Say("hostgroup", "DEL_DOWNTIME_BY_HOSTGROUP_NAME", "hg", [Filter("any", 20, "any") EXCEPT !.host = "h1"]),
    Say("program", "DEL_DOWNTIME_BY_START_TIME_COMMENT", "all", Unfiltered)>>

\* Forms.
In(key, value) == [key |-> key, value |-> value]
Ticked(box)    == In(box, TRUE)
Cmd(kind, do, v) ==
  <<In("cmd_mod", TRUE), In("cmd_typ", [kind |-> kind, do |-> do, v |-> v])>>
OnHost(h)       == In("host", h)
OnService(h, s) == In("hostservice", [host |-> h, service |-> s])
Form(from, cmd, inputs) == [from |-> from, cgi |-> Cgi, inputs |-> cmd \o inputs]
Remark == <<In("com_author", "text"), In("com_data", "lines")>>

Off(kind, do) == Cmd(kind, do, FALSE)
AllHosts == <<OnHost("h1"), OnHost("h2"), OnHost("h3")>>

\* The same form from everyone.
FromAll(cmd, inputs) ==
  [i \in 1 .. 5 |-> Form(<<"boss", "k", "m", "guest", "">>[i], cmd, inputs)]

\* A form under every change of one option of cgi.cfg.
UnderAll(f) ==
  <<[f EXCEPT !.cgi.use_authentication = FALSE], [f EXCEPT !.cgi.check_external_commands = FALSE],
    [f EXCEPT !.cgi.enforce = TRUE], [f EXCEPT !.cgi.show_all = FALSE],
    [f EXCEPT !.cgi.default_user_name = "boss", !.from = ""],
    [f EXCEPT !.cgi.enforce = TRUE, !.cgi.lock = TRUE, !.inputs = @ \o <<In("com_data", "text")>>],
    [f EXCEPT !.inputs = Append(Tail(@), In("cmd_mod", FALSE))]>>

ObjectForms ==
  FromAll(Off("host", "NOTIFICATIONS"), AllHosts)
  \o FromAll(Off("host", "SVC_CHECKS"), AllHosts \o <<Ticked("ahas")>>)
  \o FromAll(Off("service", "CHECKS"),
             <<OnService("h2", "s2"), OnHost("h3"), In("service", "s3"), OnService("h1", "s3")>>)
  \o FromAll(Off("hostgroup", "SVC_NOTIFICATIONS"), <<In("hostgroup", "hg"), Ticked("ahas")>>)
  \o FromAll(Off("servicegroup", "SVC_CHECKS"), <<In("servicegroup", "sg"), Ticked("ahas")>>)
  \o FromAll(Off("program", "EVENT_HANDLERS"), <<>>)
  \o UnderAll(Form("boss", Off("service", "CHECKS"), <<OnService("h2", "s2")>>))
  \o UnderAll(Form("k", Off("service", "PASSIVE_CHECKS"), <<OnService("h2", "s2")>>))

ValueForms ==
  <<Form("boss", Off("host", "NOTIFICATIONS"), <<OnHost("h1"), Ticked("ptc")>>),
    Form("boss", Off("host", "SVC_NOTIFICATIONS"), <<OnHost("h2")>>),
    Form("k", Cmd("host", "INTERVALS", 0), <<OnHost("h2"), In("interval", 7)>>),
    Form("boss", Cmd("service", "INTERVALS", 0), <<OnService("h3", "s3"), In("interval", 7)>>),
    Form("k", Off("service", "MODATTR"), <<OnService("h2", "s2"), OnService("h3", "s3")>>),
    Form("boss", Off("host", "MODATTR"), <<OnHost("h1"), In("attr", {"NOTIFICATIONS"})>>),
    Form("boss", Off("host", "CHECKS"), <<OnHost("h1"), OnHost("h;1")>>),
    Form("boss", Off("program", "NOTIFICATIONS"), Remark),
    Form("boss", Off("program", "FLAP_DETECTION"), <<>>),
    Form("boss", Off("program", "RESTART"), <<>>),
    Form("boss", Off("hostgroup", "HOST_NOTIFICATIONS"), <<In("hostgroup", "hg")>>),
    Form("k", Cmd("host", "SCHEDULE_SVC_CHECKS", 0),
         <<OnHost("h2"), In("start_time", 2), Ticked("force_check")>>),
    Form("k", Cmd("host", "SCHEDULE_CHECK", 0), <<OnHost("h2"), In("start_time", 2)>>),
    Form("k", Cmd("host", "DELAY_NOTIFICATION", 0), <<OnHost("h2"), In("not_dly", 1)>>),
    Form("k", Cmd("host", "DOWNTIME", 0),
         Remark \o <<OnHost("h2"), In("start_time", 1), In("end_time", 2), In("hours", 1),
                     In("minutes", 0 - 1), In("childoptions", 1)>>),
    Form("k", Cmd("host", "PROCESS_CHECK_RESULT", 0),
         <<OnHost("h2"), In("plugin_output", "lines")>>),
    Form("k", Cmd("host", "SEND_CUSTOM_NOTIFICATION", 0), Remark \o <<OnHost("h2")>>)>>

CommentForms ==
  <<Form("k", Cmd("service", "ADD_COMMENT", 0),
         Remark \o <<OnService("h3", "s3"), OnService("h2", "s2"), Ticked("persistent")>>),
    Form("k", Cmd("host", "DEL_COMMENT", 0), <<In("com_id", 1)>>),
    Form("k", Cmd("service", "DEL_COMMENT", 0), <<In("com_id", 2), In("com_id", 1)>>),
    Form("m", Cmd("service", "DEL_COMMENT", 0), <<In("com_id", 1)>>),
    Form("boss", Cmd("host", "DEL_DOWNTIME", 0), <<In("down_id", 1)>>),
    Form("boss", Cmd("host", "ACKNOWLEDGE_WITH_SERVICES", 0), Remark \o <<OnHost("h3")>>),
    Form("k", Cmd("service", "ACKNOWLEDGE", 0),
         Remark \o <<OnService("h3", "s3"), In("end_time", 2), Ticked("use_ack_end_time")>>),
    Form("k", Off("program", "NOTIFICATIONS"),
         <<In("end_time", 2), Ticked("use_disabled_notif_end_time")>>)>>

Until == <<In("start_time", 20), In("end_time", 30), Ticked("fixed")>>

DowntimeForms ==
  <<Form("k", Cmd("service", "DOWNTIME", 0),
         Remark \o Until \o <<OnService("h2", "s2"), OnService("h3", "s3")>>),
    Form("boss", Cmd("host", "DOWNTIME", 0), Remark \o Until \o <<OnHost("h1"), In("childoptions", 1)>>),
    Form("k", Cmd("host", "DOWNTIME", 0),
         Remark \o Until \o <<OnHost("h2"), In("childoptions", 2), In("trigger", 1)>>),
    Form("k", Cmd("service", "DOWNTIME", 0),
         Remark \o <<OnService("h2", "s2"), In("start_time", 10), In("end_time", 30), In("minutes", 5),
                     In("trigger", 1)>>),
    Form("boss", Cmd("hostgroup", "SVC_DOWNTIME", 0),
         Remark \o Until \o <<In("hostgroup", "hg"), Ticked("ahas")>>),
    Form("boss", Cmd("host", "SVC_DOWNTIME", 0), <<OnHost("h2")>> \o Until),
    Form("m", Cmd("service", "DEL_DOWNTIME", 0), <<In("down_id", 2)>>),
    Form("k", Cmd("service", "DEL_DOWNTIME", 0), <<In("down_id", 1), In("down_id", 2)>>),
    Form("boss", Cmd("host", "DEL_DOWNTIME", 0), <<In("down_id", 1), In("down_id", 3)>>),
    Form("k", Cmd("host", "DEL_DOWNTIME_BY_HOST_NAME", 0), <<OnHost("h2"), OnHost("h1")>>)>>

Forms(requests, results, r, n, t) ==
  [opts |-> {Options}, commands |-> <<>>, requests |-> requests, results |-> results,
   configs |-> {Here, There}, most |-> [commands |-> n, results |-> r, stops |-> 1, time |-> t, sets |-> 0]]

Tale(opts, commands, results, configs, k, r, n, t) ==
  [opts |-> opts, commands |-> commands, requests |-> <<>>, results |-> results, configs |-> configs,
   most |-> [commands |-> k, results |-> r, stops |-> n, time |-> t, sets |-> 0]]

\* The clock is set back once.
SetBack(tale) == [tale EXCEPT !.most.sets = 1]

StoriesDef ==
  [program  |-> Tale({Options, Masks}, ProgramSwitches, {}, {Here, There}, 1, 0, 1, 0),
   objects  |-> Tale({Options, Masks}, ObjectSwitches, {}, {Here, There}, 1, 0, 2, 0),
   many     |-> Tale({Options}, ManySwitches, {}, {Here, There}, 1, 0, 1, 0),
   values   |-> Tale({Options, Masks}, Values, {}, {Here, There}, 2, 0, 1, 0),
   contacts |-> Tale({Options, Masks}, ContactValues, {}, {Here, There}, 2, 0, 1, 0),
   ends     |-> Tale({Options} \cup Forgetful, Ends, {}, {Here}, 2, 0, 2, 5),
   clock    |-> SetBack(Tale({Options}, <<Ends[1], Ends[2], Expiring[1]>>, Problems, {Here},
                             2, 1, 1, 4)),
   problems |-> Tale({Options, Masks}, Explained, Problems, {Here}, 2, 1, 1, 0),
   expiring |-> Tale({Options}, Expiring, Problems, {Here}, 2, 1, 1, 3),
   remarks  |-> Tale({Options} \cup Forgetful, Remarks, Problems, {Here, There}, 2, 1, 1, 0),
   flapping |-> Tale({Options, Tweaked, Statusless}, FlapSwitches, Flaps, {Here}, 1, 2, 1, 0),
   forms    |-> Forms(ObjectForms \o ValueForms, {}, 0, 1, 0),
   twice    |-> Forms(ValueForms, {}, 0, 2, 0),
   downtimes |-> Tale({Options}, Scheduled, {}, {Here, There}, 3, 0, 1, 0),
   groups   |-> Tale({Options, [Options EXCEPT !.program = FALSE]}, Grouped, {}, {Here, There},
                     2, 0, 1, 0),
   listed   |-> Forms(DowntimeForms, {}, 0, 2, 0),
   pages    |-> Forms(CommentForms, {Result1("service", "s3", TRUE, TRUE, "few")}, 1, 2, 4)]
=============================================================================
