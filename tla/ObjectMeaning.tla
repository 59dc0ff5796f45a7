---------------------------- MODULE ObjectMeaning ----------------------------
(* What a configuration means, said without an order of work: the value a   *)
(* definition has for a directive, the hosts and services it is for, the    *)
(* members of a group.  This is the promise of                              *)
(* html/docs/en/objectinheritance.html and objecttricks.html, and what the  *)
(* daemon has registered is compared with it, also after a restart from     *)
(* the precached file.  At the end: with which configurations it starts.    *)
EXTENDS ObjectConfig

Definitions == ToSet(config.files)
Registering == {def \in Definitions : def.register}

TemplateNamed(type, name) ==
  CHOOSE def \in Definitions : def.type = type /\ def.name = name

Gives(def, d) == d \in DOMAIN def.given

(* A definition and those it falls back to for d, nearest first.  What      *)
(* gives a value of its own, or null, does not fall back any further.       *)
RECURSIVE Chain(_, _)
Chain(def, d) ==
  <<def>> \o IF Gives(def, d) /\ ~Additive(def.given[d]) THEN <<>>
             ELSE FlattenSeq([n \in DOMAIN def.use |->
                               Chain(TemplateNamed(def.type, def.use[n]), d)])

(* Values with + are put together up to the first one without.              *)
Collected(type, chain, d) ==
  LET Add(acc, def) ==
        LET raw == def.given[d]
            null == raw = Null /\ d \notin KindsOf[type].names
        IN IF acc.final \/ ~Gives(def, d) THEN acc
           ELSE IF null THEN IF acc.text = <<>> THEN [final |-> TRUE, text |-> <<>>] ELSE acc
           ELSE IF Additive(raw) THEN [final |-> FALSE, text |-> Tail(raw) \o acc.text]
           ELSE [final |-> TRUE, text |-> raw \o acc.text]
  IN FoldLeft(Add, [final |-> FALSE, text |-> <<>>], chain)

(* The last of a service's own templates with an important command decides. *)
RECURSIVE Command(_)
Command(def) ==
  LET used == [n \in DOMAIN def.use |-> TemplateNamed(def.type, def.use[n])]
      important == {n \in DOMAIN used :
                      Gives(used[n], Important) /\ used[n].given[Important][1] = "!"}
      last == CHOOSE n \in important : \A m \in important : m <= n
      first == SelectSeq(used, LAMBDA t : Command(t).final)
      own == def.given[Important]
  IN IF important # {} THEN Command(used[last])
     ELSE IF Gives(def, Important)
          THEN [final |-> TRUE, text |-> IF own = Null THEN <<>>
                                         ELSE IF own[1] = "!" THEN Tail(own) ELSE own]
     ELSE IF first # <<>> THEN Command(first[1])
     ELSE [final |-> FALSE, text |-> <<>>]

Own(def, d) ==
  IF def.type = "service" /\ d = Important THEN Command(def)
  ELSE Collected(def.type, Chain(def, d), d)

Written(def, d) == Own(def, d).text

-----------------------------------------------------------------------------
(* Names.                                                                   *)

OfType(type) == {n \in DOMAIN daemon : daemon[n].type = type}
Held(n, d) == IF d \in DOMAIN daemon[n].given THEN daemon[n].given[d] ELSE <<>>

NamesOf(type) == {Held(n, KeyDirectives[type][1])[1] : n \in OfType(type)}
ServicesOf == {<<Held(n, "host_name")[1], Held(n, "service_description")[1]>> :
                 n \in OfType("service")}
MembersOf(type, name) ==
  UNION {ToSet(Held(n, "members")) : n \in {k \in OfType(type) :
           name = "*" \/ Held(k, KeyDirectives[type][1]) = <<name>>}}
ServiceMembersOf(name) ==
  UNION {ToSet(Paired(Held(n, "members"))) : n \in {k \in OfType("servicegroup") :
           name = "*" \/ Held(k, "servicegroup_name") = <<name>>}}

Accepted(tokens) == {t \in ToSet(tokens) : t \notin DOMAIN Rejects}
Rejected(tokens) == {Rejects[t] : t \in ToSet(tokens) \cap DOMAIN Rejects}
NamesIn(type, names) == UNION {IF x = "*" THEN NamesOf(type) ELSE {x} : x \in names}
InGroups(names) == UNION {MembersOf("hostgroup", g) : g \in names}

HostsNamed(def, groupd, hostd) ==
  LET groups == Written(def, groupd)
      hosts == Written(def, hostd)
  IN (InGroups(Accepted(groups)) \cup NamesIn("host", Accepted(hosts)))
     \ (InGroups(Rejected(groups)) \cup NamesIn("host", Rejected(hosts)))

DescribedOn(hosts, tokens) ==
  LET Named(names) == {s \in ServicesOf : s[1] \in hosts /\ names \cap {"*", s[2]} # {}}
  IN Named(Accepted(tokens)) \ Named(Rejected(tokens))

InServicegroups(tokens) ==
  UNION {ServiceMembersOf(g) : g \in Accepted(tokens)}
  \ UNION {ServiceMembersOf(g) : g \in Rejected(tokens)}

(* One side of a service dependency. *)
SideNamed(def, side) ==
  DescribedOn(HostsNamed(def, side.hostgroup, side.host), Written(def, side.service))
  \cup InServicegroups(Written(def, side.servicegroup))

SameHost(def) ==
  Written(def, "dependent_hostgroup_name") = <<>> /\ Written(def, "dependent_host_name") = <<>>

(* What a definition is for, as values of the directives in PlacesOf.       *)
PlacesOf ==
  [hostdependency |-> <<"host_name", "dependent_host_name">>,
   servicedependency |-> <<"host_name", "service_description", "dependent_host_name",
                           "dependent_service_description">>] @@ KeyDirectives

(* A dependency is for nothing while it does not say when it fails. *)
Failing(def) == \E kind \in DOMAIN FailureOptions : Written(def, FailureOptions[kind]) # <<>>

Claims(def) ==
  CASE def.type \in Dependencies /\ ~Failing(def) -> {}
    [] def.type = "service" ->
         {<<h>> \o Written(def, "service_description") :
            h \in HostsNamed(def, "hostgroup_name", "host_name")}
    [] def.type = "hostescalation" ->
         {<<h>> : h \in HostsNamed(def, "hostgroup_name", "host_name")}
    [] def.type = "serviceescalation" -> SideNamed(def, MasterSide)
    [] def.type = "hostdependency" ->
         HostsNamed(def, "hostgroup_name", "host_name")
         \X HostsNamed(def, "dependent_hostgroup_name", "dependent_host_name")
    [] def.type = "servicedependency" ->
         LET masters == SideNamed(def, MasterSide)
             same == {m \o <<m[1], s[2]>> : m \in masters, s \in ServicesOf}
         IN {m \o d : m \in masters, d \in SideNamed(def, DependentSide)}
            \cup (IF ~SameHost(def) THEN {}
                  ELSE {p \in same : <<p[3], p[4]>> \in
                          DescribedOn({p[1]}, Written(def, DependentSide.service))})
    [] OTHER -> {Written(def, KeyDirectives[def.type][1])}

PlaceOf(n) ==
  LET ds == PlacesOf[daemon[n].type]
  IN [k \in DOMAIN ds |-> Held(n, ds[k])[1]]

-----------------------------------------------------------------------------
(* The value of a directive of a registered object that a definition is for. *)

Of(type, key, d) ==
  LET n == CHOOSE k \in OfType(type) : PlaceOf(k) = key
  IN IF \E k \in OfType(type) : PlaceOf(k) = key THEN Held(n, d) ELSE <<>>

Source(d) == IF d = "escalation_period" THEN "notification_period" ELSE d

Implied == [service |-> Contacts \cup {"notification_interval", "notification_period"},
            hostescalation |-> Contacts \cup {"notification_interval", "escalation_period"},
            serviceescalation |-> Contacts \cup {"notification_interval", "escalation_period"}]

Defaulted == [host |-> "notification_options", service |-> "notification_options",
              hostescalation |-> "escalation_options",
              serviceescalation |-> "escalation_options"]

(* Extended information written for the same host or service.               *)
Extended(n, d) ==
  LET infotype == IF daemon[n].type = "host" THEN "hostextinfo" ELSE "serviceextinfo"
      merged == IF daemon[n].type = "host" THEN HostMerged ELSE ServiceMerged
  IN IF daemon[n].type \notin {"host", "service"} \/ d \notin merged THEN {}
     ELSE {Written(info, d) : info \in {x \in Definitions :
             /\ x.type = infotype
             /\ PlaceOf(n)[1] \in HostsNamed(x, "hostgroup_name", "host_name")
             /\ infotype = "serviceextinfo" =>
                  Written(x, "service_description") = Tail(PlaceOf(n))}} \ {<<>>}

Meant(def, n, d) ==
  LET type == def.type
      own == Own(def, d)
      fromtype == IF type = "serviceescalation" THEN "service" ELSE "host"
      fromkey == IF type = "serviceescalation" THEN PlaceOf(n) ELSE <<PlaceOf(n)[1]>>
      from == Of(fromtype, fromkey, Source(d))
      implied == type \in DOMAIN Implied /\ d \in Implied[type]
  IN IF own.text = <<>> /\ ~own.final
     THEN IF implied THEN {from}
          ELSE IF type \in DOMAIN Defaulted /\ d = Defaulted[type] THEN {<<"all">>}
          ELSE IF Extended(n, d) # {} THEN Extended(n, d) ELSE {<<>>}
     ELSE IF own.text = <<>> /\ Extended(n, d) # {} THEN Extended(n, d)
     ELSE IF ~own.final /\ implied /\ type \in Escalations /\ d \in Contacts
          THEN {from \o own.text}
     ELSE {own.text}

Plain(type) == Registered[type] \ (ToSet(PlacesOf[type])
                                   \cup {"members", "escalation_condition"})

Loaded == phase \in {"registered", "running", "refused"}

(* Each object is that of a definition, with the values it means. *)
ValuesAsWritten ==
  \A n \in DOMAIN daemon : \E def \in Registering :
    /\ def.type = daemon[n].type
    /\ PlaceOf(n) \in Claims(def)
    /\ \A d \in Plain(def.type) : Held(n, d) \in Meant(def, n, d)

Unique == ReadIndexed \cup {"service"}

(* There is an object for whatever a definition is for. *)
ClaimsMet ==
  \A type \in DOMAIN Registered :
    LET claimants(p) == {k \in DOMAIN config.files :
          LET def == config.files[k]
          IN def.register /\ def.type = type /\ p \in Claims(def)}
        holders(p) == {n \in OfType(type) : PlaceOf(n) = p}
        places == UNION {Claims(def) : def \in {x \in Registering : x.type = type}}
    IN \A p \in places \cup {PlaceOf(n) : n \in OfType(type)} :
         Cardinality(holders(p)) =
           IF type \in Unique /\ claimants(p) # {} THEN 1 ELSE Cardinality(claimants(p))

(* The definitions that are for something; and lack what objects need.     *)
Active == {def \in Registering : def.type \in DOMAIN Registered /\ Claims(def) # {}}
Lacking(def) == \E d \in Needs[def.type] \ ToSet(PlacesOf[def.type]) : Written(def, d) = <<>>

(* The daemon has an object for exactly what the definitions are for: each  *)
(* named and not excluded host, service or pair of them, once for every     *)
(* definition that is for it, and once only where there can be only one.    *)
(* Each has for every directive, whether the daemon read the configuration  *)
(* or was started from the precached file, the value its definition means:  *)
(* its own, else that of its templates in their order, else what a service  *)
(* has from its host and an escalation from its host or service, a null     *)
(* ending the search, a + adding, and an important check command winning.   *)
(* A configuration without a fault is not refused on the way.               *)
AsDocumented ==
  /\ Loaded => ValuesAsWritten /\ ClaimsMet
  /\ phase = "failed" => config.faulty \/ \E def \in Active : Lacking(def)

-----------------------------------------------------------------------------
(* Groups.                                                                  *)

GroupsOf == [hostgroup |-> "host", contactgroup |-> "contact"]
SubgroupsOf == [hostgroup |-> "hostgroup_members", contactgroup |-> "contactgroup_members"]
JoinsBy == [hostgroup |-> "hostgroups", contactgroup |-> "contact_groups"]

GroupNamed(type, name) ==
  CHOOSE def \in Registering : def.type = type /\ Written(def, KeyDirectives[type][1]) = <<name>>

(* Those who name the group themselves. *)
Joining(type, name) ==
  {Written(def, KeyDirectives[def.type][1])[1] : def \in
     {x \in Registering : /\ x.type = GroupsOf[type]
                          /\ {name, "*"} \cap Accepted(Written(x, JoinsBy[type])) # {}
                          /\ {name, "*"} \cap Rejected(Written(x, JoinsBy[type])) = {}}}

(* Everyone a group names, itself or through its member groups, and         *)
(* everyone that is left out anywhere on the way.                           *)
RECURSIVE Included(_, _, _)
Included(type, name, seen) ==
  LET def == GroupNamed(type, name)
      subs == Accepted(Written(def, SubgroupsOf[type])) \ (seen \cup {name})
  IN NamesIn(GroupsOf[type], Accepted(Written(def, "members"))) \cup Joining(type, name)
     \cup UNION {Included(type, g, seen \cup {name}) : g \in subs}

RECURSIVE Excluded(_, _, _)
Excluded(type, name, seen) ==
  LET def == GroupNamed(type, name)
      subs == Accepted(Written(def, SubgroupsOf[type])) \ (seen \cup {name})
      out == Rejected(Written(def, SubgroupsOf[type]))
  IN NamesIn(GroupsOf[type], Rejected(Written(def, "members")))
     \cup UNION {Excluded(type, g, seen \cup {name}) : g \in subs}
     \cup UNION {Included(type, g, {}) : g \in out}

(* A group has whom it names, by itself, through its member groups in any   *)
(* order of definition, or because they name the group, each once; except   *)
(* that those who are left out somewhere on the way may be missing.         *)
MembersAsWritten ==
  Loaded =>
    \A type \in DOMAIN GroupsOf : \A n \in OfType(type) :
      LET members == Held(n, "members")
          name == PlaceOf(n)[1]
      IN /\ Cardinality(ToSet(members)) = Len(members)
         /\ ToSet(members) \subseteq Included(type, name, {})
         /\ Included(type, name, {}) \ Excluded(type, name, {}) \subseteq ToSet(members)

-----------------------------------------------------------------------------
(* The start.                                                               *)

(* What the words of a definition name. *)
CommandLines == {"check_command", "event_handler"}
CommandLists == {"host_notification_commands", "service_notification_commands"}
Periods == {"check_period", "notification_period", "escalation_period", "dependency_period",
            "host_notification_period", "service_notification_period"}

NamedBy(def) ==
  LET Words(ds) == UNION {ToSet(Written(def, d)) : d \in ds}
  IN [command |-> Words(CommandLists) \cup {Written(def, d)[1] : d \in
                     {x \in CommandLines : Written(def, x) # <<>>}},
      timeperiod |-> Words(Periods \cup {"exclude"}),
      contact |-> Words({"contacts"}),
      contactgroup |-> IF def.type = "contact" THEN {} ELSE Words({"contact_groups"}),
      host |-> Words({"parents"})]

(* The hosts and services the objects belong to or consist of. *)
HostsMet ==
  {s[1] : s \in ServicesOf} \cup MembersOf("hostgroup", "*")
  \cup {Held(n, "host_name")[1] : n \in OfType("hostescalation")}
  \cup UNION {ToSet(PlaceOf(n)) : n \in OfType("hostdependency")}
  \cup {Head(Held(n, "escalation_condition")) : n \in
          {k \in DOMAIN daemon : Held(k, "escalation_condition") # <<>>}}
ServicesMet ==
  ServiceMembersOf("*") \cup {PlaceOf(n) : n \in OfType("serviceescalation")}
  \cup UNION {{SubSeq(PlaceOf(n), 1, 2), SubSeq(PlaceOf(n), 3, 4)} :
                n \in OfType("servicedependency")}
  \cup {Held(n, "escalation_condition") : n \in
          {k \in DOMAIN daemon : Len(Held(k, "escalation_condition")) > 1}}

AllThere ==
  /\ \A def \in Active : \A type \in DOMAIN NamedBy(def) : NamedBy(def)[type] \subseteq NamesOf(type)
  /\ HostsMet \subseteq NamesOf("host") /\ ServicesMet \subseteq ServicesOf
  /\ MembersOf("contactgroup", "*") \subseteq NamesOf("contact")
  /\ \A n \in OfType("contact") : \A d \in CommandLists : Held(n, d) # <<>>
  /\ config.commands \subseteq NamesOf("command")

LegalNames ==
  Illegal \cap ({s[2] : s \in ServicesOf} \cup UNION {NamesOf(type) : type \in ReadIndexed}) = {}

(* Something that comes back to itself in one step or in several. *)
InCircle(edges) ==
  \E S \in SUBSET {e[1] : e \in edges} :
    S # {} /\ \A x \in S : \E y \in S : <<x, y>> \in edges
OnItself(edges) == \E e \in edges : e[1] = e[2]

Parentage ==
  {e \in NamesOf("host") \X NamesOf("host") :
     \E n \in OfType("host") : /\ Held(n, "host_name") = <<e[1]>>
                               /\ Contains(Held(n, "parents"), e[2])}

Depends(type, kind) ==
  {<<DependentOf(daemon[n]), MasterOf(daemon[n])>> :
     n \in {k \in OfType(type) : Held(k, FailureOptions[kind]) # <<>>}}
DependsOnward(type) ==
  {<<DependentOf(daemon[n]), MasterOf(daemon[n])>> :
     n \in {k \in OfType(type) : /\ Held(k, FailureOptions.notification) # <<>>
                                 /\ Held(k, "inherits_parent") = <<"1">>}}

SelfDependent == \E type \in Dependencies, kind \in DOMAIN FailureOptions :
                   OnItself(Depends(type, kind))

(* Circles that would leave no host reachable, no check run, no problem     *)
(* told; and any circle.                                                    *)
Deadlocked == \/ InCircle(Parentage)
              \/ \E type \in Dependencies : InCircle(Depends(type, "execution"))
                                            \/ InCircle(DependsOnward(type))
Circular == Deadlocked \/ \E type \in Dependencies : InCircle(Depends(type, "notification"))

(* A daemon that starts has everything its objects name, in legal names     *)
(* unless they were precached, and no host is above itself, nor does any    *)
(* host or service wait for itself, at whatever distance (with -x: at the   *)
(* distance of one); and one that is refused the start lacks something of   *)
(* that.  Where a circle of notification dependencies is broken by one that *)
(* does not inherit, either is right.                                       *)
StartsIfSound ==
  /\ phase = "running" => /\ AllThere /\ ~SelfDependent
                          /\ config.circular => ~Deadlocked
                          /\ load.presorted \/ LegalNames
  /\ phase = "refused" => \/ ~AllThere \/ SelfDependent
                          \/ config.circular /\ Circular
                          \/ ~load.presorted /\ ~LegalNames
=============================================================================
