---------------------------- MODULE ObjectChecks ----------------------------
(* What the daemon demands of the objects it is handed: what the add        *)
(* functions of common/objects.c refuse, and the check before the start     *)
(* (pre_flight_check of base/config.c) that everything named is there and   *)
(* that nothing depends on itself in the end.                               *)
EXTENDS ObjectMembers

CONSTANT Illegal    \* names with characters illegal_object_name_chars lists

(* What a registered object tells for a directive. *)
Told(o, d) == IF d \in DOMAIN o.given THEN o.given[d] ELSE <<>>
Tells(o, d) == Told(o, d) # <<>>

-----------------------------------------------------------------------------
(* Registering.  What an object must tell besides its name, the numbers     *)
(* among it being those that have no usable default.                        *)

TimeperiodNeeds == {"alias"}
CommandNeeds == {"command_line"}
HostNeeds == {"max_check_attempts"}
ServiceNeeds == {"check_command", "max_check_attempts"}
HostdependencyNeeds == {"dependent_host_name"}
ServicedependencyNeeds == {"host_name", "service_description"}
ModuleNeeds == {"path"}

Needs == [timeperiod |-> TimeperiodNeeds, command |-> CommandNeeds, host |-> HostNeeds,
          service |-> ServiceNeeds, hostdependency |-> HostdependencyNeeds,
          servicedependency |-> ServicedependencyNeeds, module |-> ModuleNeeds]
         @@ [type \in Types |-> {}]

OwnParent(o) == o.type = "host" /\ Contains(Told(o, "parents"), Told(o, "host_name")[1])

Addable(o) == (\A d \in Needs[o.type] : Tells(o, d)) /\ ~OwnParent(o)

(* A definition makes one dependency for checks and one for notifications,  *)
(* if it tells when they fail; one that tells neither is passed over.       *)
FailureOptions == [execution |-> "execution_failure_options",
                   notification |-> "notification_failure_options"]
Dependencies == {"hostdependency", "servicedependency"}
Lame(o) == /\ o.type \in Dependencies
           /\ \A kind \in DOMAIN FailureOptions : ~Tells(o, FailureOptions[kind])

-----------------------------------------------------------------------------
(* Everything an object names must be there.                                *)

Find(objects, type, name) ==
  \E o \in ToSet(objects) : o.type = type /\ Told(o, KeyDirectives[type][1]) = <<name>>

FindService(objects, host, description) ==
  \E o \in ToSet(objects) : /\ o.type = "service" /\ Told(o, "host_name") = host
                            /\ Told(o, "service_description") = description

Known(objects, o, directives, type) ==
  \A d \in directives : \A name \in ToSet(Told(o, d)) : Find(objects, type, name)

(* Of a command with arguments only the name counts. *)
CommandsKnown(objects, o, directives) ==
  \A d \in directives : Tells(o, d) => Find(objects, "command", Told(o, d)[1])

ContactsKnown(objects, o) == /\ Known(objects, o, {"contacts"}, "contact")
                             /\ Known(objects, o, {"contact_groups"}, "contactgroup")

(* The condition of an escalation names a host, or a service of one. *)
ConditionKnown(objects, o) ==
  LET condition == Told(o, "escalation_condition")
  IN Tells(o, "escalation_condition") =>
       /\ Find(objects, "host", condition[1])
       /\ Len(condition) > 1 => FindService(objects, <<condition[1]>>, <<condition[2]>>)

ServiceSound(objects, o) ==
  /\ Known(objects, o, {"host_name"}, "host")
  /\ CommandsKnown(objects, o, {"event_handler", "check_command"})
  /\ ContactsKnown(objects, o)
  /\ Known(objects, o, {"check_period", "notification_period"}, "timeperiod")

HostSound(objects, o) ==
  /\ CommandsKnown(objects, o, {"event_handler", "check_command"})
  /\ Known(objects, o, {"check_period", "notification_period"}, "timeperiod")
  /\ ContactsKnown(objects, o)
  /\ Known(objects, o, {"parents"}, "host")

HostgroupSound(objects, o) == Known(objects, o, {"members"}, "host")

ServicegroupSound(objects, o) ==
  \A s \in ToSet(Paired(Told(o, "members"))) : FindService(objects, <<s[1]>>, <<s[2]>>)

ContactSound(objects, o) ==
  LET commands == {"host_notification_commands", "service_notification_commands"}
  IN /\ \A d \in commands : Tells(o, d)
     /\ Known(objects, o, commands, "command")
     /\ Known(objects, o, {"host_notification_period", "service_notification_period"},
              "timeperiod")

ContactgroupSound(objects, o) == Known(objects, o, {"members"}, "contact")

ServiceescalationSound(objects, o) ==
  /\ FindService(objects, Told(o, "host_name"), Told(o, "service_description"))
  /\ Known(objects, o, {"escalation_period"}, "timeperiod")
  /\ ContactsKnown(objects, o) /\ ConditionKnown(objects, o)

HostescalationSound(objects, o) ==
  /\ Known(objects, o, {"host_name"}, "host")
  /\ Known(objects, o, {"escalation_period"}, "timeperiod")
  /\ ContactsKnown(objects, o) /\ ConditionKnown(objects, o)

MasterOf(o) == <<Told(o, "host_name"), Told(o, "service_description")>>
DependentOf(o) == <<Told(o, "dependent_host_name"), Told(o, "dependent_service_description")>>

ServicedependencySound(objects, o) ==
  /\ FindService(objects, DependentOf(o)[1], DependentOf(o)[2])
  /\ FindService(objects, MasterOf(o)[1], MasterOf(o)[2])
  /\ MasterOf(o) # DependentOf(o)
  /\ Known(objects, o, {"dependency_period"}, "timeperiod")

HostdependencySound(objects, o) ==
  /\ Known(objects, o, {"host_name", "dependent_host_name"}, "host")
  /\ MasterOf(o) # DependentOf(o)
  /\ Known(objects, o, {"dependency_period"}, "timeperiod")

TimeperiodSound(objects, o) == Known(objects, o, {"exclude"}, "timeperiod")

(* The names of objects that have one; those of precached objects pass. *)
NameOf == [service |-> "service_description", host |-> "host_name",
           hostgroup |-> "hostgroup_name", servicegroup |-> "servicegroup_name",
           contact |-> "contact_name", contactgroup |-> "contactgroup_name",
           command |-> "command_name", timeperiod |-> "timeperiod_name",
           module |-> "module_name"]
LegallyNamed(o) == o.type \in DOMAIN NameOf => Told(o, NameOf[o.type])[1] \notin Illegal

ObjectSound(objects, o) ==
  CASE o.type = "service" -> ServiceSound(objects, o)
    [] o.type = "host" -> HostSound(objects, o)
    [] o.type = "hostgroup" -> HostgroupSound(objects, o)
    [] o.type = "servicegroup" -> ServicegroupSound(objects, o)
    [] o.type = "contact" -> ContactSound(objects, o)
    [] o.type = "contactgroup" -> ContactgroupSound(objects, o)
    [] o.type = "serviceescalation" -> ServiceescalationSound(objects, o)
    [] o.type = "hostescalation" -> HostescalationSound(objects, o)
    [] o.type = "servicedependency" -> ServicedependencySound(objects, o)
    [] o.type = "hostdependency" -> HostdependencySound(objects, o)
    [] o.type = "timeperiod" -> TimeperiodSound(objects, o)
    [] OTHER -> TRUE

PreFlightObjectCheck(objects, precached) ==
  \A o \in ToSet(objects) : ObjectSound(objects, o) /\ (precached \/ LegallyNamed(o))

-----------------------------------------------------------------------------
(* Parents in a circle: a depth-first search from each host down to its     *)
(* children.                                                                *)

OfOneType(objects, type) == SelectSeq(objects, LAMBDA o : o.type = type)
HostNames(objects) == Each(OfOneType(objects, "host"), LAMBDA o : Told(o, "host_name")[1])

(* The last child linked to its parent is the first. *)
Children(objects, host) ==
  HostNames(Reverse(SelectSeq(objects, LAMBDA o : /\ o.type = "host"
                                                  /\ Contains(Told(o, "parents"), host))))

RECURSIVE DfsHostPath(_, _, _)
DfsHostPath(objects, status, root) ==
  LET Visit(s, child) ==
        LET done == IF s[child] = "unchecked" THEN DfsHostPath(objects, s, child) ELSE s
        IN CASE done[child] = "temp" ->
                  [done EXCEPT ![child] = "loopy", ![root] = "loopy"]
             [] done[child] \in {"near", "loopy"} ->
                  [done EXCEPT ![root] = IF @ = "loopy" THEN @ ELSE "near",
                               ![child] = "loopy"]
             [] OTHER -> done
      visited == FoldLeft(Visit, [status EXCEPT ![root] = "temp"], Children(objects, root))
  IN IF status[root] # "unchecked" THEN status
     ELSE [visited EXCEPT ![root] = IF @ = "temp" THEN "ok" ELSE @]

\* Mutant: the search from the last host decides.
CheckHostLast(objects, a, host) ==
  LET status == DfsHostPath(objects, a.status, host)
  IN [status |-> status, found |-> status[host] = "loopy"]

(* An error only where the search from a host ends with that host loopy. *)
CheckHost(objects, a, host) ==
  LET status == DfsHostPath(objects, a.status, host)
  IN [status |-> status, found |-> a.found \/ status[host] = "loopy"]

CircularParents(objects) ==
  FoldLeft(LAMBDA a, host : CheckHost(objects, a, host),
           [status |-> [h \in ToSet(HostNames(objects)) |-> "unchecked"], found |-> FALSE],
           HostNames(objects)).found

-----------------------------------------------------------------------------
(* Dependencies in a circle: from each one to those its master depends on.  *)

DependencyList(objects, type) ==
  FlattenSeq(Each(OfOneType(objects, type), LAMBDA o :
    Each(SelectSeq(<<"execution", "notification">>, LAMBDA kind : Tells(o, FailureOptions[kind])),
         LAMBDA kind : [kind |-> kind, inherits |-> Told(o, "inherits_parent") = <<"1">>,
                        master |-> MasterOf(o), dependent |-> DependentOf(o)])))

(* s has the dependencies that were checked for this root, those in which a *)
(* circle was found, and the answer.                                        *)
RECURSIVE CircularPath(_, _, _, _, _)
CircularPath(deps, s, root, dep, kind) ==
  LET checked == [s EXCEPT !.checked = @ \cup {dep}, !.found = FALSE]
      parents == SelectSeq([n \in DOMAIN deps |-> n],
                           LAMBDA n : deps[n].dependent = deps[dep].master)
      Follow(a, n) == IF a.found THEN a ELSE CircularPath(deps, a, root, n, kind)
  IN IF deps[root].kind # kind \/ deps[dep].kind # kind THEN [s EXCEPT !.found = FALSE]
     ELSE IF root \in s.circular THEN [s EXCEPT !.found = TRUE]
     ELSE IF dep \in s.checked THEN [s EXCEPT !.found = FALSE]
     ELSE IF dep # root /\ deps[root].dependent = deps[dep].master
          THEN [checked EXCEPT !.circular = @ \cup {root, dep}, !.found = TRUE]
     ELSE IF kind = "notification" /\ ~deps[dep].inherits THEN checked
     ELSE FoldLeft(Follow, checked, parents)

CircularDependencies(objects, type) ==
  LET deps == DependencyList(objects, type)
      CheckFrom(kind, a, root) ==
        LET s == CircularPath(deps, [a EXCEPT !.checked = {}], root, root, kind)
        IN [s EXCEPT !.any = a.any \/ s.found]
      CheckAll(a, kind) ==
        FoldLeft(LAMBDA b, root : CheckFrom(kind, b, root), a, [n \in DOMAIN deps |-> n])
  IN FoldLeft(CheckAll, [checked |-> {}, circular |-> {}, found |-> FALSE, any |-> FALSE],
              <<"execution", "notification">>).any

PreFlightCircularCheck(objects) ==
  ~CircularParents(objects) /\ \A type \in Dependencies : ~CircularDependencies(objects, type)

-----------------------------------------------------------------------------
(* The commands the main configuration file names.                          *)
GlobalCommandsKnown(objects, commands) ==
  \A name \in commands : Find(objects, "command", name)

(* Can the daemon start?  Circles are not looked for with -x.               *)
PreFlightCheck(objects, precached, circular, commands) ==
  /\ PreFlightObjectCheck(objects, precached)
  /\ circular => PreFlightCircularCheck(objects)
  /\ GlobalCommandsKnown(objects, commands)
=============================================================================
