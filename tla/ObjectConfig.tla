----------------------------- MODULE ObjectConfig -----------------------------
(* How the daemon gets its objects from the configuration files: they are   *)
(* read, resolved against their templates, groups are filled, definitions   *)
(* for several hosts are multiplied, values are inherited between objects,  *)
(* the result is written to the object cache and registered, and the daemon *)
(* starts if the objects pass its check.  A daemon started with -u reads    *)
(* what was precached and registers that.  Source:                          *)
(* xodtemplate_read_config_data and what it calls, pre_flight_check.        *)
EXTENDS ObjectChecks

CONSTANT Configs    \* [files : definitions in order, emptyAllowed : BOOLEAN, circular :
                    \* look for circles (no -x), commands : that the main file names,
                    \* faulty : a name is not there or doubled when it is resolved]

VARIABLES config,   \* what is configured
          phase,    \* the function about to be called, or where the start ended
          unread,   \* definitions still to be read
          load,     \* the objects, see ObjectTemplates
          cache,    \* definitions in the precached file
          daemon    \* the objects the daemon has registered
vars == <<config, phase, unread, load, cache, daemon>>

-----------------------------------------------------------------------------
(* Multiplying a definition.  A place says which object a copy is for.      *)

Place(o, place) == [o EXCEPT !.v = [d \in DOMAIN place |->
                                      [have |-> TRUE, text |-> place[d]]] @@ @]

Copy(o, place) ==
  LET kept == [d \in DOMAIN o.v \cap Copied[o.type] |-> o.v[d]]
  IN Place([o EXCEPT !.v = kept, !.copied = TRUE], place)

AddCopies(r, i, places) ==
  [r EXCEPT !.objects = @ \o [n \in DOMAIN places |-> Copy(@[i], places[n])]]

(* The definition itself serves for the first place. *)
Fan(r, i, places) ==
  IF places = <<>> THEN r
  ELSE AddCopies([r EXCEPT !.objects[i] = Place(@, places[1])], i, Tail(places))

HostPlaces(hosts) == [n \in DOMAIN hosts |-> "host_name" :> <<hosts[n]>>]
HostsOf(r, o) == ExpandHostgroupsAndHosts(r, Text(o, "hostgroup_name"), Text(o, "host_name"))
NamesHosts(o) == IsSet(o, "hostgroup_name") \/ IsSet(o, "host_name")

(* One copy for each host; a definition whose hosts are all left out is     *)
(* dropped.                                                                 *)
FanHosts(r, i, hosts) ==
  IF ~hosts.ok THEN Failed(r)
  ELSE IF hosts.in = <<>> THEN [r EXCEPT !.objects[i].listed = FALSE]
  ELSE Fan(r, i, HostPlaces(hosts.in))

(* Services.  One with host groups that have no hosts is left as it is when *)
(* that is allowed.                                                         *)
MultiplyService(r, i, emptyAllowed) ==
  LET o == r.objects[i]
      Multiply(groups) ==
        IF ~groups.ok THEN Failed(r)
        ELSE IF \/ /\ IsSet(o, "hostgroup_name") /\ groups.in = <<>>
                   /\ emptyAllowed /\ ~IsSet(o, "host_name")
                \/ ~o.register THEN r
        ELSE FanHosts(r, i, HostsOf(r, o))
  IN IF ~NamesHosts(o) THEN r
     ELSE Multiply(ExpandHostgroups(r, Nobody, Text(o, "hostgroup_name")))

(* A service for a (host, description) that is taken is passed over with a  *)
(* warning; only the result of the last one is handed on.                   *)
IndexService(r, i, copies, emptyAllowed) ==
  LET o == r.objects[i]
  IN IF ~o.register \/ o.copied # copies THEN r
     ELSE IF ~IsSet(o, "host_name") THEN IF emptyAllowed THEN r ELSE Failed(r)
     ELSE IF ~IsSet(o, "service_description") THEN Failed(r)
     ELSE [r EXCEPT !.last = Insertable(r, o), !.objects[i].indexed = Insertable(r, o)]

(* The entries of the file are put in the index before their copies.        *)
DuplicateServices(r, emptyAllowed) ==
  LET multiplied == ForEach([last |-> TRUE] @@ r, "service",
                            LAMBDA acc, i : MultiplyService(acc, i, emptyAllowed))
      entries == ForEach(multiplied, "service",
                         LAMBDA acc, i : IndexService(acc, i, FALSE, emptyAllowed))
      all == ForEach(entries, "service",
                     LAMBDA acc, i : IndexService(acc, i, TRUE, emptyAllowed))
  IN [r EXCEPT !.ok = all.ok /\ all.last, !.objects = all.objects]

(* Copies for the places that were found, of which there must be some. *)
FanFound(r, i, places) == IF places = <<>> THEN Failed(r) ELSE Fan(r, i, places)

(* Escalations and extended information of hosts. *)
MultiplyByHosts(r, i) ==
  IF ~NamesHosts(r.objects[i]) THEN r
  ELSE FanFound(r, i, HostPlaces(HostsOf(r, r.objects[i]).in))

(* Service escalations: by hosts, then by descriptions, then by servicegroups. *)
MultiplyEscalationHosts(r, i) ==
  IF ~NamesHosts(r.objects[i]) THEN r ELSE FanHosts(r, i, HostsOf(r, r.objects[i]))

ServicePlaces(services, host, description) ==
  [n \in DOMAIN services |->
     (host :> <<services[n][1]>>) @@ (description :> <<services[n][2]>>)]

MultiplyEscalationServices(r, i) ==
  LET o == r.objects[i]
  IN IF ~Complete(o) THEN r
     ELSE FanFound(r, i, ServicePlaces(
            ExpandServicegroupsAndServices(r, <<>>, Text(o, "host_name"),
                                           Text(o, "service_description")).in,
            "host_name", "service_description"))

MultiplyEscalationGroups(r, i) ==
  LET o == r.objects[i]
      Multiply(places) ==
        IF places = <<>> THEN Failed(r)
        ELSE IF ~IsSet(o, "host_name") /\ ~IsSet(o, "service_description")
             THEN Fan(r, i, places)
        ELSE AddCopies(r, i, places)
  IN IF ~IsSet(o, "servicegroup_name") THEN r
     ELSE Multiply(ServicePlaces(
            ExpandServicegroupsAndServices(r, Text(o, "servicegroup_name"), <<>>, <<>>).in,
            "host_name", "service_description"))

(* Host dependencies: every master with every dependent host. *)
MultiplyHostDependency(r, i, emptyAllowed) ==
  LET o == r.objects[i]
      Refused(hosts) == ~hosts.ok \/ (hosts.in = <<>> /\ ~emptyAllowed)
      Multiply(masters, dependents) ==
        IF Refused(masters) \/ Refused(dependents) THEN Failed(r)
        ELSE Fan(r, i, FlattenSeq(Each(masters.in, LAMBDA m : Each(dependents.in, LAMBDA d :
               ("host_name" :> <<m>>) @@ ("dependent_host_name" :> <<d>>)))))
  IN IF \A d \in HostdependencyKinds.lists : ~IsSet(o, d) THEN r
     ELSE Multiply(HostsOf(r, o),
                   ExpandHostgroupsAndHosts(r, Text(o, "dependent_hostgroup_name"),
                                            Text(o, "dependent_host_name")))

-----------------------------------------------------------------------------
(* Service dependencies: masters by service group, masters by host, then    *)
(* the same for the dependent side.  The directives of a side:              *)

MasterSide == [host |-> "host_name", hostgroup |-> "hostgroup_name",
               service |-> "service_description", servicegroup |-> "servicegroup_name"]
DependentSide == [host |-> "dependent_host_name", hostgroup |-> "dependent_hostgroup_name",
                  service |-> "dependent_service_description",
                  servicegroup |-> "dependent_servicegroup_name"]

OtherSide(side) == {side.host, side.hostgroup, side.service}

(* A side given by service groups and otherwise too becomes two definitions. *)
MultiplyDependencyGroups(r, i, side) ==
  LET o == r.objects[i]
      split == IF \A d \in OtherSide(side) : ~IsSet(o, d) THEN r
               ELSE [AddCopies(r, i, <<side.servicegroup :> <<>>>>)
                       EXCEPT !.objects[i] = Drop(@, OtherSide(side))]
      samehost == side = DependentSide /\ ~IsSet(o, "host_name") /\ ~IsSet(o, "hostgroup_name")
      ForService(s) ==
        (side.host :> <<s[1]>>) @@ (side.service :> <<s[2]>>)
        @@ (side.servicegroup :> <<>>) @@ (side.hostgroup :> <<>>)
        @@ (IF samehost THEN "host_name" :> <<s[1]>> ELSE <<>>)
      Multiply(services) ==
        IF services = <<>> THEN Failed(r) ELSE Fan(split, i, Each(services, ForService))
  IN IF ~o.register \/ ~IsSet(o, side.servicegroup) THEN r
     ELSE Multiply(
            ExpandServicegroupsAndServices(r, Text(o, side.servicegroup), <<>>, <<>>).in)

(* A dependent side without a host is on the master's host.                 *)
WithHost(o, side) ==
  IF side = DependentSide /\ ~IsSet(o, side.host) /\ ~IsSet(o, side.hostgroup)
     /\ IsSet(o, "host_name")
  THEN Put(o, side.host, Text(o, "host_name")) ELSE o

MultiplyDependencyHosts(r, i, side, emptyAllowed) ==
  LET o == WithHost(r.objects[i], side)
      ForService(s) == (side.host :> <<s[1]>>) @@ (side.service :> <<s[2]>>)
                       @@ (side.hostgroup :> <<>>)
      Multiply(services) ==
        IF \E n \in DOMAIN services : services[n] = <<>> THEN Failed(r)
        ELSE Fan([r EXCEPT !.objects[i] = o], i, Each(FlattenSeq(services), ForService))
      OnHosts(hosts) ==
        IF ~hosts.ok \/ (hosts.in = <<>> /\ ~emptyAllowed) THEN Failed(r)
        ELSE Multiply(Each(hosts.in, LAMBDA h :
               ExpandServicegroupsAndServices(r, <<>>, <<h>>, Text(o, side.service)).in))
  IN IF ~o.register \/ (~IsSet(o, side.host) /\ ~IsSet(o, side.hostgroup)) THEN r
     ELSE OnHosts(ExpandHostgroupsAndHosts(r, Text(o, side.hostgroup), Text(o, side.host)))

-----------------------------------------------------------------------------
(* Escalations and dependencies go into their indexes.                      *)
Index(r, i) ==
  LET o == r.objects[i]
      named == IF o.type = "hostdependency" THEN IsSet(o, "host_name") ELSE Complete(o)
  IN [r EXCEPT !.objects[i].indexed = o.register /\ named]

DuplicateObjects(r, emptyAllowed) ==
  LET hostescalations == ForEach(r, "hostescalation", MultiplyByHosts)
      byhosts == ForEach(hostescalations, "serviceescalation", MultiplyEscalationHosts)
      byservices == ForEach(byhosts, "serviceescalation", MultiplyEscalationServices)
      bygroups == ForEach(byservices, "serviceescalation", MultiplyEscalationGroups)
      hostdependencies == ForEach(bygroups, "hostdependency",
                            LAMBDA acc, i : MultiplyHostDependency(acc, i, emptyAllowed))
      Side(acc, side) ==
        ForEach(ForEach(acc, "servicedependency",
                        LAMBDA a, i : MultiplyDependencyGroups(a, i, side)),
                "servicedependency",
                LAMBDA a, i : MultiplyDependencyHosts(a, i, side, emptyAllowed))
      dependencies == InTurn(Side, hostdependencies, <<MasterSide, DependentSide>>)
      all == InTurn(LAMBDA acc, type : ForEach(acc, type, MultiplyByHosts), dependencies,
                      <<"hostextinfo", "serviceextinfo">>)
  IN InTurn(LAMBDA acc, type : ForEach(acc, type, Index), all,
              <<"hostescalation", "serviceescalation", "hostdependency", "servicedependency">>)

-----------------------------------------------------------------------------
(* Values between objects.                                                  *)

DefaultOptions(o, d) == IF Value(o, d).have THEN o ELSE Put(o, d, <<"all">>)

(* o takes d from the directive source of another object, unless it has it. *)
InheritFrom(o, d, from, source) ==
  IF ~Value(o, d).have /\ IsSet(from, source) THEN Put(o, d, Text(from, source)) ELSE o

(* An escalation's + adds to the contacts of its host or service. *)
AddInherited(o, d, from) ==
  IF Additive(Text(o, d))
  THEN [o EXCEPT !.v = (d :> InheritedString(Value(o, d), Value(from, d))) @@ @] ELSE o

ServiceFromHost(s, h) ==
  DefaultOptions(FoldLeft(LAMBDA o, d : InheritFrom(o, d, h, d), s,
                          <<"contact_groups", "contacts", "notification_interval",
                            "notification_period">>),
                 "notification_options")

EscalationFrom(e, from) ==
  LET contacts == FoldLeft(LAMBDA o, d : AddInherited(InheritFrom(o, d, from, d), d, from), e,
                           <<"contact_groups", "contacts">>)
      interval == InheritFrom(contacts, "notification_interval", from, "notification_interval")
      period == InheritFrom(interval, "escalation_period", from, "notification_period")
  IN Stripped(DefaultOptions(period, "escalation_options"), Contacts)

(* Applies Take to every object of a type and the one Key names, if any.    *)
FromEach(r, type, fromtype, KeyIn(_), Take(_, _)) ==
  ForEach(r, type, LAMBDA acc, i :
    LET found == FindReal(acc, fromtype, KeyIn(acc.objects[i]))
    IN IF found = {} THEN acc
       ELSE [acc EXCEPT !.objects[i] = Take(@, acc.objects[CHOOSE k \in found : TRUE])])

OnHost(o) == <<Text(o, "host_name")>>
OnService(o) == <<Text(o, "host_name"), Text(o, "service_description")>>

InheritObjectProperties(r) ==
  LET hosts == ForEach(r, "host", LAMBDA acc, i :
                 [acc EXCEPT !.objects[i] = DefaultOptions(@, "notification_options")])
      services == FromEach(hosts, "service", "host", OnHost, ServiceFromHost)
      escalations == FromEach(services, "serviceescalation", "service", OnService,
                              EscalationFrom)
  IN FromEach(escalations, "hostescalation", "host", OnHost, EscalationFrom)

(* Extended information fills what its host or service has no value for.    *)
MergeInto(o, info, merged) ==
  [o EXCEPT !.v = [d \in {x \in merged : ~IsSet(o, x) /\ IsSet(info, x)} |-> Value(info, d)]
                  @@ @]

Merge(r, type, infotype, KeyIn(_), merged) ==
  ForEach(r, infotype, LAMBDA acc, i :
    LET info == acc.objects[i]
        found == FindReal(acc, type, KeyIn(info))
    IN IF found = {} THEN acc
       ELSE LET k == CHOOSE x \in found : TRUE
            IN [acc EXCEPT !.objects[k] = MergeInto(@, info, merged)])

MergeExtinfoObjects(r) ==
  Merge(Merge(r, "service", "serviceextinfo", OnService, ServiceMerged),
        "host", "hostextinfo", OnHost, HostMerged)

-----------------------------------------------------------------------------
(* What is written to the object cache and what is registered: the objects  *)
(* in the index that may be registered.                                     *)
Kept(r, fields) ==
  LET kept == SelectSeq(r.objects, LAMBDA o : /\ o.listed /\ o.indexed /\ o.register
                                              /\ o.type \in DOMAIN fields)
  IN [n \in DOMAIN kept |->
        [type |-> kept[n].type,
         given |-> [d \in {x \in fields[kept[n].type] : IsSet(kept[n], x)}
                      |-> Text(kept[n], d)]]]

CacheObjects(r) ==
  LET kept == Kept(r, Cached)
  IN [n \in DOMAIN kept |-> kept[n] @@ [name |-> "", use |-> <<>>, register |-> TRUE]]

RegisterObjects(r) == SelectSeq(Kept(r, Registered), LAMBDA o : ~Lame(o))

-----------------------------------------------------------------------------
(* The daemon starts.                                                       *)
Nothing == <<>>

Init == /\ config \in Configs
        /\ phase = "read" /\ unread = config.files /\ load = Empty(FALSE)
        /\ cache = Nothing /\ daemon = Nothing

(* Each function runs when the one before it returned OK. *)
Step(from, to, result) ==
  /\ phase = from
  /\ load' = result
  /\ phase' = IF result.ok THEN to ELSE "failed"
  /\ UNCHANGED <<config, cache, daemon>>

ReadDefinition ==
  /\ unread # <<>>
  /\ Step("read", "read", Read(load, Head(unread)))
  /\ unread' = Tail(unread)

(* A precached file has everything done to it already. *)
AllRead ==
  /\ unread = <<>>
  /\ Step("read", IF load.presorted THEN "merge" ELSE "resolve", load)
  /\ UNCHANGED unread

Resolve == /\ LET r == ResolveObjects(load)
              IN Step("resolve", "contactgroups", CleanAdditiveStrings(r))
           /\ UNCHANGED unread
Contactgroups == /\ Step("contactgroups", "hostgroups", RecombobulateContactgroups(load))
                 /\ UNCHANGED unread
Hostgroups ==
  /\ Step("hostgroups", "services", RecombobulateHostgroups(load, config.emptyAllowed))
  /\ UNCHANGED unread
Services == /\ Step("services", "servicegroups", DuplicateServices(load, config.emptyAllowed))
            /\ UNCHANGED unread
Servicegroups == /\ Step("servicegroups", "duplicate", RecombobulateServicegroups(load))
                 /\ UNCHANGED unread
Duplicate == /\ Step("duplicate", "inherit", DuplicateObjects(load, config.emptyAllowed))
             /\ UNCHANGED unread
Inherit == /\ Step("inherit", "merge", InheritObjectProperties(load))
           /\ UNCHANGED unread

(* Extended information is merged, the cache written, the objects handed    *)
(* over one by one, until one is refused.                                   *)
Register ==
  /\ phase = "merge"
  /\ LET merged == MergeExtinfoObjects(load)
         handed == RegisterObjects(merged)
         added == \A o \in ToSet(handed) : Addable(o)
     IN /\ cache' = IF load.presorted THEN cache ELSE CacheObjects(merged)
        /\ daemon' = IF added THEN handed ELSE Nothing
        /\ phase' = IF added THEN "registered" ELSE "failed"
  /\ load' = Empty(load.presorted)
  /\ UNCHANGED <<config, unread>>

PreFlight ==
  /\ phase = "registered"
  /\ phase' = IF PreFlightCheck(daemon, load.presorted, config.circular, config.commands)
              THEN "running" ELSE "refused"
  /\ UNCHANGED <<config, unread, load, cache, daemon>>

(* The daemon is started again, with -u. *)
Restart ==
  /\ phase \in {"running", "refused", "failed"} /\ cache # Nothing
  /\ phase' = "read" /\ unread' = cache /\ load' = Empty(TRUE)
  /\ daemon' = Nothing
  /\ UNCHANGED <<config, cache>>

Next == \/ ReadDefinition \/ AllRead \/ Resolve \/ Contactgroups \/ Hostgroups \/ Services
        \/ Servicegroups \/ Duplicate \/ Inherit \/ Register \/ PreFlight
        \/ Restart

Spec == Init /\ [][Next]_vars
=============================================================================
