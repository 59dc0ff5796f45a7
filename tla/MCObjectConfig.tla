---------------------------- MODULE MCObjectConfig ----------------------------
(* TLC instances of ObjectConfig: small configurations, each in the orders  *)
(* its definitions can stand in where that may matter.                      *)
EXTENDS ObjectMeaning

Excludes == [t \in {"!h1", "!h2", "!g1", "!g2", "!ping"} |->
               CASE t = "!h1" -> "h1" [] t = "!h2" -> "h2" [] t = "!g1" -> "g1"
                 [] t = "!g2" -> "g2" [] OTHER -> "ping"]

Def(type, name, use, register, given) ==
  [type |-> type, name |-> name, use |-> use, register |-> register, given |-> given]
Object(type, given) == Def(type, "", <<>>, TRUE, given)
Template(type, name, use, given) == Def(type, name, use, FALSE, given)

Sound(files) == [files |-> files, emptyAllowed |-> FALSE, circular |-> TRUE, commands |-> {},
                 faulty |-> FALSE]
Faulty(files) == [Sound(files) EXCEPT !.faulty = TRUE]
EmptyAllowed(c) == [c EXCEPT !.emptyAllowed = TRUE]

Attempts == "max_check_attempts" :> <<"3">>
Checked == Attempts @@ ("check_command" :> <<"ping">>)
Host(name) == Object("host", ("host_name" :> <<name>>) @@ Attempts)
Group(name, members) ==
  Object("hostgroup", ("hostgroup_name" :> <<name>>) @@ ("members" :> members))
Service(hosts) ==
  Object("service", ("host_name" :> hosts) @@ ("service_description" :> <<"ping">>) @@ Checked)
Two == <<Host("h1"), Host("h2")>>

-----------------------------------------------------------------------------
(* An object uses t1 and t2, and t1 uses t3.  Each of the four leaves a     *)
(* directive out, clears it, adds to it or gives it, in three orders.       *)
Forms == {"out", "null", "plus", "plain"}

Raw(form, prefix, value) ==
  CASE form = "null" -> Null [] form = "plus" -> prefix \o <<value>> [] OTHER -> <<value>>

(* A list, a text and a setting or name, and a service's command. *)
Host4(form, who) ==
  IF form = "out" THEN <<>>
  ELSE ("contact_groups" :> Raw(form, <<"+">>, who)) @@ ("notes" :> Raw(form, <<>>, who))
       @@ (IF form = "null" THEN <<>> ELSE "check_interval" :> <<who>>)
       @@ (IF form = "null" THEN <<>> ELSE "alias" :> <<who>>)
Service4(form, who) ==
  IF form = "out" THEN <<>>
  ELSE ("contacts" :> Raw(form, <<"+">>, who)) @@ ("event_handler" :> Raw(form, <<>>, who))
       @@ ("check_command" :> Raw(form, <<"!">>, who))

Orders == {<<1, 2, 3, 4>>, <<4, 3, 2, 1>>, <<2, 4, 1, 3>>}

Chained(type, own, Four(_, _), p) ==
  <<Def(type, "", <<"t1", "t2">>, TRUE, own @@ Four(p[1], "own")),
    Template(type, "t1", <<"t3">>, Four(p[2], "a")), Template(type, "t2", <<>>, Four(p[3], "b")),
    Template(type, "t3", <<>>, Four(p[4], "c"))>>

Arranged(defs, order) == [n \in DOMAIN order |-> defs[order[n]]]

Inheriting ==
  {Sound(Arranged(Chained("host", ("host_name" :> <<"h1">>) @@ Attempts, Host4, p), order)) :
     p \in [1..4 -> Forms], order \in Orders}
  \cup {Sound(<<Host("h1")>> \o
              Arranged(Chained("service", ("host_name" :> <<"h1">>) @@
                                          ("service_description" :> <<"ping">>) @@ Attempts,
                               Service4, p),
                       order)) : p \in [1..4 -> Forms], order \in Orders}

-----------------------------------------------------------------------------
(* Every directive of every type, given by the object or by a template, and *)
(* on several hosts where the type allows it.                               *)
Places ==
  [timeperiod |-> "timeperiod_name" :> <<"n">>, command |-> "command_name" :> <<"n">>,
   contactgroup |-> "contactgroup_name" :> <<"n">>,
   hostgroup |-> "hostgroup_name" :> <<"n">>, servicegroup |-> "servicegroup_name" :> <<"n">>,
   contact |-> "contact_name" :> <<"n">>, host |-> "host_name" :> <<"n">>,
   module |-> "module_name" :> <<"n">>,
   service |-> ("host_name" :> <<"h1", "h2">>) @@ ("service_description" :> <<"load">>),
   hostescalation |-> "host_name" :> <<"h1", "h2">>,
   serviceescalation |->
     ("host_name" :> <<"h1", "h2">>) @@ ("service_description" :> <<"ping">>),
   hostdependency |->
     ("host_name" :> <<"h1", "h2">>) @@ ("dependent_host_name" :> <<"h1", "h2">>),
   servicedependency |->
     ("host_name" :> <<"h1", "h2">>) @@ ("service_description" :> <<"ping">>) @@
     ("dependent_host_name" :> <<"h1", "h2">>) @@
     ("dependent_service_description" :> <<"ping">>),
   hostextinfo |-> "host_name" :> <<"h1", "h2">>,
   serviceextinfo |->
     ("host_name" :> <<"h1", "h2">>) @@ ("service_description" :> <<"ping">>)]

Naming == {"members", "hostgroup_members", "contactgroup_members", "servicegroup_members",
           "hostgroups", "servicegroups", "hostgroup_name", "servicegroup_name",
           "dependent_hostgroup_name", "dependent_servicegroup_name"}
          \cup {"contact_groups", "parents"}

(* The contact groups of a contact must exist, those of the others are text here. *)
Full(type) ==
  [d \in Given[type] \ (DOMAIN Places[type] \cup (IF type = "contact" THEN Naming
                          ELSE Naming \ {"contact_groups", "parents"})) |-> <<d>>]

Other(type) == [d \in DOMAIN Full(type) |-> <<"other", d>>]

Complete4(type) ==
  LET own == Places[type]
  IN {<<Object(type, own @@ Full(type))>>,
      <<Def(type, "", <<"t1">>, TRUE, own), Template(type, "t1", <<>>, Full(type))>>,
      <<Template(type, "t1", <<>>, Other(type)),
        Def(type, "", <<"t1">>, TRUE, own @@ Full(type))>>,
      <<Template(type, "t1", <<>>, Other(type)),
        Template(type, "t2", <<"t1">>, (IF type \in ReadIndexed THEN <<>> ELSE own) @@ Full(type)),
        Def(type, "", <<"t2">>, TRUE, IF type \in ReadIndexed THEN own ELSE <<>>)>>}

Everything ==
  {Sound(Two \o <<Service(<<"h1">>), Service(<<"h2">>)>> \o defs) :
     defs \in UNION {Complete4(type) : type \in Types}}

-----------------------------------------------------------------------------
(* What services, escalations and dependencies have from others.            *)
Level(form, who) ==
  IF form = "out" THEN <<>>
  ELSE ("contacts" :> Raw(form, <<>>, who)) @@ ("notification_interval" :> <<who>>)
Timed(form, who) == Level(form, who) @@ (IF form = "out" THEN <<>>
                                          ELSE "notification_period" :> Raw(form, <<>>, who))
Raised(form, who) ==
  (IF form = "out" THEN <<>> ELSE "contacts" :> Raw(form, <<"+">>, who))
  @@ (IF form = "plain" THEN "escalation_period" :> <<who>> ELSE <<>>)

Implying ==
  {LET host == Object("host", ("host_name" :> <<"h1">>) @@ Attempts @@ Timed(h, "host"))
       service == Object("service", Places.service @@ Checked @@ Timed(s, "service")
                                    @@ ("hostgroup_name" :> <<"g1">>))
       onservice == Object("serviceescalation", ("host_name" :> <<"h1">>)
                           @@ ("service_description" :> <<"*">>) @@ Raised(e, "own"))
       onhost == Object("hostescalation", ("host_name" :> <<"h1">>) @@ Raised(e, "own"))
   IN Sound(<<onservice, service, onhost, host, Host("h2"), Group("g1", <<"h1", "h2">>)>>) :
     h \in {"out", "null", "plain"}, s \in {"out", "null", "plain"}, e \in Forms}

-----------------------------------------------------------------------------
(* Which hosts a definition is for, and what is for the same host and service. *)
HostLists == {<<>>, <<"h1">>, <<"*">>, <<"h1", "h2">>, <<"*", "!h1">>, <<"!h2">>, Null}
GroupLists == {<<>>, <<"g1">>, <<"g1", "g2">>, <<"*", "!g2">>, <<"g2", "!g1">>}

Named(type, hosts, groups, others) ==
  Object(type, (IF hosts = <<>> THEN <<>> ELSE "host_name" :> hosts)
               @@ (IF groups = <<>> THEN <<>> ELSE "hostgroup_name" :> groups) @@ others)

Grouped == Two \o <<Host("h3"), Group("g1", <<"h1", "h2">>), Group("g2", <<"h2", "h3">>)>>
Description == "service_description" :> <<"ping">>
Pinged == Description @@ Checked

Choosing ==
  {Sound(Grouped \o <<Named("service", hosts, groups, Pinged)>>) :
     hosts \in HostLists, groups \in GroupLists \ {<<>>}}
  \cup {Sound(Grouped \o <<Service(<<"*">>), Named(type, <<"*">>, groups, Description)>>) :
     groups \in GroupLists, type \in {"serviceescalation", "serviceextinfo"}}
  \cup {Sound(Grouped \o <<Named("hostescalation", <<"*">>, groups, <<>>)>>) :
     groups \in GroupLists}

(* Two definitions for the same host and service, of which the code refuses *)
(* some, and an empty host group.                                           *)
Doubling ==
  {Faulty(<<Named("service", first, <<>>, Pinged @@ ("notes" :> <<"first">>))>> \o Grouped
         \o <<Named("service", <<>>, groups, Pinged @@ ("notes" :> <<"second">>)),
              Named("service", <<"h1">>, <<>>, ("service_description" :> <<"load">>) @@ Checked)>>) :
     first \in {<<"h1">>, <<"h2", "h3">>}, groups \in {<<"g1">>, <<"g1", "g2">>}}
  \cup {EmptyAllowed(Sound(Two \o
          <<Object("hostgroup", "hostgroup_name" :> <<"g0">>),
            Named("service", hosts, <<"g0">>, Pinged)>>)) :
     hosts \in {<<>>, <<"h1">>, <<"h1", "!h1">>}}

FailsChecks == "execution_failure_options" :> <<"u">>

(* Dependencies, with either side given by hosts, groups or service groups. *)
Depending ==
  LET on == Grouped \o <<Service(<<"*">>),
                         Object("servicegroup", ("servicegroup_name" :> <<"sg">>)
                                @@ ("members" :> <<"h1", "ping", "h2", "ping">>)),
                         Object("servicegroup", ("servicegroup_name" :> <<"all">>)
                                @@ ("servicegroup_members" :> <<"sg">>)
                                @@ ("members" :> <<"h3", "*">>))>>
      Sides(side) == {side.host :> <<"h1">> @@ (side.service :> <<"ping">>),
                      side.hostgroup :> <<"g1">> @@ (side.service :> <<"*">>),
                      side.servicegroup :> <<"sg">>,
                      (side.servicegroup :> <<"sg">>) @@ (side.host :> <<"h3">>)
                        @@ (side.service :> <<"ping">>)}
  IN {Sound(on \o <<Object("servicedependency", m @@ d @@ FailsChecks)>>) :
        m \in Sides(MasterSide),
        d \in Sides(DependentSide) \cup {DependentSide.service :> <<"ping">>}}
     \cup {Sound(on \o <<Object("serviceescalation", "servicegroup_name" :> g)>>) :
        g \in {<<"all">>, <<"*", "sg">>}}
     \cup {Sound(on \o <<Object("hostdependency",
             ("hostgroup_name" :> g) @@ ("dependent_host_name" :> h) @@ FailsChecks)>>) :
        g \in {<<"g1">>, <<"g1", "!g2">>}, h \in {<<"*">>, <<"h3">>, <<"*", "!h1">>}}

-----------------------------------------------------------------------------
(* Groups of groups, in both orders; a cycle; a host that joins.            *)
Nested(type, p, order) ==
  LET of == GroupsOf[type]
      name == KeyDirectives[type][1]
      member == KeyDirectives[of][1]
      g(n, form) == Object(type, (name :> <<n>>) @@ form)
  IN <<Object(of, member :> <<"h1">>),
       Object(of, (member :> <<"h2">>) @@ (JoinsBy[type] :> <<"g2">>)),
       Object(of, member :> <<"h3">>)>>
     \o Arranged(<<g("g1", p[1]), g("g2", p[2]), g("g3", p[3])>>, order)

Groups(type, subs) ==
  LET sub == SubgroupsOf[type]
      outer == {("members" :> <<"h1">>) @@ (sub :> <<"g2">>), sub :> <<"g2", "g3">>}
      middle == {("members" :> <<"h3">>) @@ (sub :> <<"g3">>), "members" :> <<"h3">>}
      inner == {"members" :> <<"h1">>, ("members" :> <<"h1">>) @@ (sub :> <<"g2">>)} \cup subs
  IN {Sound(Nested(type, p, order)) :
        p \in outer \X middle \X inner, order \in {<<1, 2, 3>>, <<3, 2, 1>>, <<2, 1, 3>>}}

Grouping ==
  Groups("hostgroup", {"members" :> <<"*">>, "members" :> <<"*", "!h2">>,
                       ("members" :> <<"h1">>) @@ ("hostgroup_members" :> <<"g2", "!g1">>)})
  \cup Groups("contactgroup", {})

-----------------------------------------------------------------------------
(* Something is not there, doubled or not known.                            *)
Faults ==
  {Faulty(Two \o <<Def("host", "", <<"nowhere">>, TRUE, "host_name" :> <<"h3">>)>>),
   Faulty(Two \o <<Host("h1")>>),
   Faulty(Two \o <<Object("host", ("host_name" :> <<"h3">>) @@ ("members" :> <<"h1">>))>>),
   Faulty(Two \o <<Template("host", "t1", <<>>, <<>>), Template("host", "t1", <<>>, <<>>)>>),
   Faulty(Two \o <<Service(<<"h1", "h3">>)>>),
   Faulty(Two \o <<Service(Null)>>),
   Faulty(Two \o <<Object("service", "host_name" :> <<"h1">>)>>),
   Faulty(Two \o <<Group("g1", <<"h3">>)>>),
   Faulty(Two \o <<Object("hostgroup", ("hostgroup_name" :> <<"g1">>) @@
                                       ("hostgroup_members" :> <<"g2">>))>>),
   Faulty(Two \o <<Named("hostescalation", <<"h1", "!h1">>, <<>>, <<>>)>>),
   Faulty(Two \o <<Named("serviceescalation", <<"h1">>, <<>>, Description)>>),
   Faulty(Two \o <<Service(<<"h1">>), Object("servicegroup",
            ("servicegroup_name" :> <<"sg">>) @@ ("members" :> <<"h1">>))>>)}

-----------------------------------------------------------------------------
(* Every kind of object that names others; with one of the names unknown,   *)
(* illegal or left out.                                                     *)
Period(name, others) ==
  Object("timeperiod", ("timeperiod_name" :> <<name>>) @@ ("alias" :> <<name>>) @@ others)
CommandNamed(name) ==
  Object("command", ("command_name" :> <<name>>) @@ ("command_line" :> <<"run">>))
Told2 == ("contacts" :> <<"anna">>) @@ ("contact_groups" :> <<"admins">>)
Watched == Told2 @@ ("check_command" :> <<"ping", "args">>) @@ ("event_handler" :> <<"mail">>)
           @@ ("check_period" :> <<"day">>) @@ ("notification_period" :> <<"day">>) @@ Attempts
Raises(condition) == Told2 @@ ("escalation_period" :> <<"day">>)
                     @@ ("escalation_condition" :> condition)
Waits(host) == ("dependent_host_name" :> <<host>>) @@ ("dependency_period" :> <<"day">>)
               @@ ("execution_failure_options" :> <<"u">>)

Whole ==
  <<Period("day", "exclude" :> <<"night">>), Period("night", <<>>),
    CommandNamed("ping"), CommandNamed("mail"),
    Object("contact", ("contact_name" :> <<"anna">>)
                      @@ ("host_notification_commands" :> <<"mail", "ping">>)
                      @@ ("service_notification_commands" :> <<"mail">>)
                      @@ ("host_notification_period" :> <<"day">>)
                      @@ ("service_notification_period" :> <<"day">>)),
    Object("contactgroup", ("contactgroup_name" :> <<"admins">>) @@ ("members" :> <<"anna">>)),
    Object("host", ("host_name" :> <<"h1">>) @@ ("parents" :> <<"h2">>) @@ Watched),
    Host("h2"), Host("h$"), Group("g1", <<"h1", "h2">>),
    Object("service", ("host_name" :> <<"h1", "h2">>) @@ Description @@ Watched),
    Object("servicegroup", ("servicegroup_name" :> <<"sg">>) @@ ("members" :> <<"h1", "ping">>)),
    Object("hostescalation", ("host_name" :> <<"h1">>) @@ Raises(<<"h2">>)),
    Object("serviceescalation", ("host_name" :> <<"h1">>) @@ Description
                                @@ Raises(<<"h2", "ping">>)),
    Object("hostdependency", ("host_name" :> <<"h2">>) @@ Waits("h1")),
    Object("servicedependency", ("host_name" :> <<"h2">>) @@ Description @@ Waits("h1")
                                @@ ("dependent_service_description" :> <<"ping">>)),
    Object("module", ("module_name" :> <<"idomod">>) @@ ("path" :> <<"lib">>))>>

(* With h$, and without it. *)
Legal(files) == SelectSeq(files, LAMBDA def : def # Host("h$"))
Unlisted(def) == [def EXCEPT !.register = FALSE]

Naming2 == CommandLines \cup CommandLists \cup Periods \cup Contacts
           \cup {"parents", "exclude", "escalation_condition"}

(* A host that is not registered, but has a service, a group or a parent's place. *)
Hidden(others) == Sound(Two \o <<CommandNamed("ping"), Unlisted(Host("h3"))>> \o others)

Referring ==
  {Sound(Whole), [Sound(Legal(Whole)) EXCEPT !.commands = {"mail"}],
   [Sound(Legal(Whole)) EXCEPT !.commands = {"mail", "unknown"}]}
  \cup {Sound([Legal(Whole) EXCEPT ![k].given[d] = <<"unknown">>]) :
          <<k, d>> \in {p \in (DOMAIN Legal(Whole)) \X Naming2 :
                         p[2] \in DOMAIN Legal(Whole)[p[1]].given}}
  \cup {Sound([Legal(Whole) EXCEPT ![k].given = [x \in DOMAIN @ \ {d} |-> @[x]]]) :
          <<k, d>> \in {p \in (DOMAIN Legal(Whole)) \X
                              (CommandLists \cup UNION {Needs[type] : type \in Types}) :
                         /\ p[2] \in DOMAIN Legal(Whole)[p[1]].given
                         /\ p[2] \notin ToSet(PlacesOf[Legal(Whole)[p[1]].type])}}
  \cup {Sound([Legal(Whole) EXCEPT ![13].given["escalation_condition"] = <<"h1", "unknown">>])}
  \cup {Hidden(<<Service(<<"h3">>)>>), Hidden(<<Group("g1", <<"h1", "h3">>)>>),
         Hidden(<<Named("hostescalation", <<"h3">>, <<>>, <<>>)>>), Hidden(<<>>),
         Hidden(<<Service(<<"h1">>), Unlisted(CommandNamed("mail")),
                  Object("host", ("host_name" :> <<"h4">>) @@ ("parents" :> <<"h3">>)
                                 @@ Attempts)>>)}

(* Any parents of three hosts, one parent of each of four; dependencies in  *)
(* a triangle, on itself and across, of each kind.                          *)
Under(hosts, parents) ==
  [n \in DOMAIN hosts |->
     Object("host", ("host_name" :> <<hosts[n]>>) @@ Attempts @@
                    (IF parents[n] = <<>> THEN <<>> ELSE "parents" :> parents[n]))]
ThreeHosts == <<"h1", "h2", "h3">>
FourHosts == <<"h1", "h2", "h3", "h4">>
ParentLists(n) == {<<>>} \cup {s \in UNION {[1..k -> ToSet(ThreeHosts) \ {ThreeHosts[n]}] : k \in 1..2} :
                                Cardinality(ToSet(s)) = Len(s)}

FailsTold == "notification_failure_options" :> <<"u">>
Onward == "inherits_parent" :> <<"1">>
HowFailing == {FailsChecks, FailsTold, FailsTold @@ Onward, FailsChecks @@ FailsTold @@ Onward}

DependsOn(type, dependent, master, how) ==
  Object(type, ("host_name" :> <<master>>) @@ ("dependent_host_name" :> <<dependent>>) @@ how
               @@ (IF type = "hostdependency" THEN <<>>
                   ELSE Description @@ ("dependent_service_description" :> <<"ping">>)))

Circling ==
  {Sound(Under(ThreeHosts, <<a, b, c>>)) :
     a \in ParentLists(1), b \in ParentLists(2), c \in ParentLists(3)}
  \cup {Sound(Under(FourHosts, p)) :
     p \in {f \in [1..4 -> {<<>>} \cup {<<h>> : h \in ToSet(FourHosts)}] :
                           \A n \in 1..4 : f[n] # <<FourHosts[n]>>}}
  \cup {Faulty(Under(<<"h1", "h2">>, <<<<"h2">>, <<"h2">>>>)),
         [Sound(Under(<<"h1", "h2">>, <<<<"h2">>, <<"h1">>>>)) EXCEPT !.circular = FALSE]}
  \cup {Sound(<<CommandNamed("ping"), Service(ThreeHosts)>> \o Under(ThreeHosts, <<<<>>, <<>>, <<>>>>)
               \o <<DependsOn(type, "h1", "h2", how[1]), DependsOn(type, "h2", second, how[2]),
                    DependsOn(type, "h3", third, how[3])>>) :
          type \in Dependencies, how \in [1..3 -> HowFailing],
          second \in {"h1", "h3"}, third \in ToSet(ThreeHosts)}

Consistent == Inheriting \cup Everything \cup Implying \cup Choosing \cup Doubling
              \cup Depending \cup Grouping \cup Faults \cup Referring \cup Circling
=============================================================================
