---------------------------- MODULE ObjectMembers ----------------------------
(* Which hosts, contacts and services a definition's lists name, and the    *)
(* members of the groups (the expand and recombobulate functions of         *)
(* xdata/xodtemplate.c).  A list of names is worked through token by token  *)
(* into two lists, the accepted and the rejected ones; the rejected ones    *)
(* are taken out at the end.                                                *)
EXTENDS ObjectTemplates

Nobody == [ok |-> TRUE, in |-> <<>>, out |-> <<>>]

\* Mutant: names that are in the list already are added again.
AddMembersAgain(list, names) == Reverse(names) \o list

AddMembers(list, names) ==
  LET new == SelectSeq([n \in DOMAIN names |-> n],
                       LAMBDA n : ~Contains(list, names[n])
                                  /\ \A m \in 1..(n - 1) : names[m] # names[n])
  IN Reverse([n \in DOMAIN new |-> names[new[n]]]) \o list

Without(list, rejected) == SelectSeq(list, LAMBDA x : ~Contains(rejected, x))

(* The names of the objects of a type that can be registered, as * has them. *)
Everyone(r, type) ==
  LET real == SelectSeq(List(r, type),
                        LAMBDA i : r.objects[i].register /\ Complete(r.objects[i]))
  IN [n \in DOMAIN real |-> r.objects[real[n]]]

(* A token is for what it names, or against it.                             *)
Bare(token) == IF token \in DOMAIN Rejects THEN Rejects[token] ELSE token

(* Takes up what a token stands for: {} when nothing has that name, which   *)
(* ends the work with an error and keeps what has been collected.           *)
Collect(a, token, found) ==
  LET names == CHOOSE s \in found : TRUE
  IN IF found = {} THEN Failed(a)
     ELSE IF token \in DOMAIN Rejects THEN [a EXCEPT !.out = AddMembers(@, names)]
     ELSE [a EXCEPT !.in = AddMembers(@, names)]

Expand(acc, tokens, Matches(_)) ==
  InTurn(LAMBDA a, token : Collect(a, token, Matches(Bare(token))),
         [acc EXCEPT !.ok = TRUE], tokens)

Each(objects, F(_)) == [n \in DOMAIN objects |-> F(objects[n])]

(* A host or contact by name, or all of them. *)
NamedObjects(r, type, name) ==
  IF name = "*" THEN {Each(Everyone(r, type), LAMBDA o : Key(o)[1][1])}
  ELSE {<<name>> : i \in FindReal(r, type, <<<<name>>>>)}

(* The members of a group by name, or of all groups, as they now stand. *)
NamedMembers(r, type, name, MembersOf(_)) ==
  IF name = "*" THEN {FlattenSeq(Each(Everyone(r, type), MembersOf))}
  ELSE {MembersOf(r.objects[i]) : i \in FindReal(r, type, <<<<name>>>>)}

Members(o) == Text(o, "members")

ExpandHosts(r, acc, tokens) ==
  Expand(acc, tokens, LAMBDA name : NamedObjects(r, "host", name))
ExpandHostgroups(r, acc, tokens) ==
  Expand(acc, tokens, LAMBDA name : NamedMembers(r, "hostgroup", name, Members))
ExpandContacts(r, acc, tokens) ==
  Expand(acc, tokens, LAMBDA name : NamedObjects(r, "contact", name))
ExpandContactgroups(r, acc, tokens) ==
  Expand(acc, tokens, LAMBDA name : NamedMembers(r, "contactgroup", name, Members))

(* Groups first, then names; a name rejected by one is rejected from both.  *)
Remaining(a) == [ok |-> a.ok, in |-> IF a.ok THEN Without(a.in, a.out) ELSE <<>>]

Both(first, Second(_)) == Remaining(IF first.ok THEN Second(first) ELSE first)

ExpandHostgroupsAndHosts(r, groups, hosts) ==
  Both(ExpandHostgroups(r, Nobody, groups), LAMBDA acc : ExpandHosts(r, acc, hosts))
ExpandContactgroupsAndContacts(r, groups, contacts) ==
  Both(ExpandContactgroups(r, Nobody, groups), LAMBDA acc : ExpandContacts(r, acc, contacts))

(* A list of group names, with * and ! applied. *)
GroupNames(r, type, tokens) ==
  Remaining(Expand(Nobody, tokens, LAMBDA name : NamedObjects(r, type, name)))

(* The services of a host that a list of descriptions names.  "*" as the    *)
(* host is every host; a service that is to be left out need not exist.     *)
Paired(tokens) == [n \in 1..(Len(tokens) \div 2) |-> <<tokens[2*n-1], tokens[2*n]>>]

ServiceNames(r, host, description) ==
  IF description = "*"
  THEN {Each(SelectSeq(Everyone(r, "service"), LAMBDA o : Text(o, "host_name") = <<host>>),
             LAMBDA o : <<host, Text(o, "service_description")[1]>>)}
  ELSE LET with == SelectSeq(List(r, "host"), LAMBDA i :
                     /\ Complete(r.objects[i])
                     /\ host \in {"*", Text(r.objects[i], "host_name")[1]}
                     /\ FindReal(r, "service", <<Text(r.objects[i], "host_name"),
                                                 <<description>>>>) # {})
       IN {Each(with, LAMBDA i : <<Text(r.objects[i], "host_name")[1], description>>)} \ {<<>>}

ExpandServices(r, acc, host, tokens) ==
  LET Known(token, found) == IF found = {} /\ token \in DOMAIN Rejects THEN {<<>>} ELSE found
  IN InTurn(LAMBDA a, token : Collect(a, token, Known(token, ServiceNames(r, host, Bare(token)))),
            acc, tokens)

ExpandServicegroups(r, acc, tokens) ==
  Expand(acc, tokens, LAMBDA name :
    NamedMembers(r, "servicegroup", name, LAMBDA o : Paired(Members(o))))

ExpandServicegroupsAndServices(r, groups, host, descriptions) ==
  Both(ExpandServicegroups(r, Nobody, groups),
       LAMBDA acc : IF host = <<>> \/ descriptions = <<>> THEN acc
                    ELSE ExpandServices(r, acc, host[1], descriptions))

-----------------------------------------------------------------------------
(* Groups.                                                                  *)

AddTo(o, tokens) == Put(o, "members", Members(o) \o tokens)

(* The objects that name groups themselves are added to those groups. *)
JoinGroups(r, type, directive, grouptype, Takes(_)) ==
  LET Enter(o, acc, name) ==
        LET g == CHOOSE k \in FindReal(acc, grouptype, <<<<name>>>>) : TRUE
        IN [acc EXCEPT !.objects[g] = AddTo(@, FlattenSeq(Key(o)))]
      EnterAll(o, acc, groups) ==
        IF ~groups.ok \/ groups.in = <<>> THEN Failed(acc)
        ELSE InTurn(LAMBDA a, name : Enter(o, a, name), acc, groups.in)
      Join(acc, i) ==
        LET o == acc.objects[i]
        IN IF ~IsSet(o, directive) \/ ~Complete(o) \/ ~Takes(o) THEN acc
           ELSE EnterAll(o, acc, GroupNames(acc, grouptype, Text(o, directive)))
  IN ForEach(r, type, Join)

Always(o) == TRUE
Registers(o) == o.register

(* Contact and service groups: the members of the groups a group names are  *)
(* appended to its own, theirs first.  A group under way has no member      *)
(* groups, which ends a cycle; what goes wrong in a member group is not     *)
(* noticed, and it is left without member groups.                           *)
RECURSIVE SubMembers(_, _, _)
SubMembers(r, i, directive) ==
  LET o == r.objects[i]
      Include(acc, name) ==
        LET found == FindReal(acc, o.type, <<<<name>>>>)
            j == CHOOSE k \in found : TRUE
            inner == SubMembers(acc, j, directive)
        IN IF found = {} THEN Failed(acc)
           ELSE [inner EXCEPT !.ok = TRUE,
                              !.objects[i] = IF inner.ok THEN AddTo(@, Members(inner.objects[j]))
                                             ELSE @]
      done == InTurn(Include, [r EXCEPT !.objects[i] = Put(@, directive, <<>>)],
                     Text(o, directive))
  IN IF ~IsSet(o, directive) THEN r
     ELSE IF done.ok THEN [done EXCEPT !.objects[i] = Put(@, directive, Text(o, directive))]
     ELSE done

RecombobulateContactgroups(r) ==
  LET joined == JoinGroups(r, "contact", "contact_groups", "contactgroup", Always)
      nested == ForEach(joined, "contactgroup",
                        LAMBDA acc, i : SubMembers(acc, i, "contactgroup_members"))
      FillWith(acc, i, all) ==
        IF ~all.ok \/ all.in = <<>> THEN Failed(acc)
        ELSE [acc EXCEPT !.objects[i] = Put(@, "members", all.in)]
      Fill(acc, i) ==
        LET o == acc.objects[i]
        IN IF ~IsSet(o, "members") THEN acc
           ELSE FillWith(acc, i, ExpandContactgroupsAndContacts(
                                   acc, Text(o, "contactgroup_members"), Members(o)))
  IN ForEach(nested, "contactgroup", Fill)

(* Host groups: the member groups are expanded into an accepted and a       *)
(* rejected list, which change places for a group that is left out; a name  *)
(* that a member group leaves out is so accepted from a rejected group.     *)
RECURSIVE SubHosts(_, _, _)
SubHosts(r, i, acc) ==
  LET o == r.objects[i]
      Include(a, token) ==
        LET rejected == token \in DOMAIN Rejects
            found == FindReal(a.r, "hostgroup",
                              <<<<IF rejected THEN Rejects[token] ELSE token>>>>)
            inner == SubHosts(a.r, CHOOSE k \in found : TRUE,
                              IF rejected THEN [ok |-> TRUE, in |-> a.out, out |-> a.in]
                                          ELSE [ok |-> TRUE, in |-> a.in, out |-> a.out])
            in == IF rejected THEN inner.out ELSE inner.in
            out == IF rejected THEN inner.in ELSE inner.out
        IN IF found = {} THEN Failed(a)
           ELSE [ok |-> TRUE, r |-> inner.r, in |-> Without(in, out), out |-> <<>>]
      groups == InTurn(Include,
                       [ok |-> TRUE, in |-> acc.in, out |-> <<>>,
                        r |-> [r EXCEPT !.objects[i] = Put(@, "hostgroup_members", <<>>)]],
                       Text(o, "hostgroup_members"))
      own == ExpandHosts(groups.r, [ok |-> TRUE, in |-> groups.in, out |-> acc.out], Members(o))
  IN IF ~groups.ok THEN [ok |-> FALSE, r |-> groups.r, in |-> groups.in, out |-> acc.out]
     ELSE [ok |-> TRUE, in |-> own.in, out |-> own.out,
           r |-> IF IsSet(o, "hostgroup_members")
                 THEN [groups.r EXCEPT !.objects[i] = Put(@, "hostgroup_members",
                                                          Text(o, "hostgroup_members"))]
                 ELSE r]

RecombobulateHostgroups(r, emptyAllowed) ==
  LET joined == JoinGroups(r, "host", "hostgroups", "hostgroup", Registers)
      NestWith(acc, i, sub) ==
        IF ~sub.ok THEN Failed(acc)
        ELSE [sub.r EXCEPT !.objects[i] = AddTo(@, Without(sub.in, sub.out))]
      nested == ForEach(joined, "hostgroup",
                        LAMBDA acc, i : NestWith(acc, i, SubHosts(acc, i, Nobody)))
      FillWith(acc, i, all) ==
        IF (~all.ok \/ all.in = <<>>) /\ ~emptyAllowed THEN Failed(acc)
        ELSE [acc EXCEPT !.objects[i] = Put(@, "members", all.in)]
      Fill(acc, i) ==
        LET o == acc.objects[i]
        IN IF ~o.register \/ (~IsSet(o, "members") /\ ~IsSet(o, "hostgroup_members")) THEN acc
           ELSE FillWith(acc, i, ExpandHostgroupsAndHosts(acc, <<>>, Members(o)))
  IN ForEach(nested, "hostgroup", Fill)

RecombobulateServicegroups(r) ==
  LET joined == JoinGroups(r, "service", "servicegroups", "servicegroup", Registers)
      nested == ForEach(joined, "servicegroup",
                        LAMBDA acc, i : SubMembers(acc, i, "servicegroup_members"))
      FillWith(acc, i, all) ==
        IF \E n \in DOMAIN all : ~all[n].ok \/ all[n].in = <<>> THEN Failed(acc)
        ELSE [acc EXCEPT !.objects[i] =
                Put(@, "members", FlattenSeq(Each(all, LAMBDA a : FlattenSeq(a.in))))]
      Fill(acc, i) ==
        LET o == acc.objects[i]
        IN IF ~IsSet(o, "members") \/ ~o.register THEN acc
           ELSE IF Len(Members(o)) % 2 = 1 THEN Failed(acc)
           ELSE FillWith(acc, i, Each(Paired(Members(o)), LAMBDA m :
                  ExpandServicegroupsAndServices(acc, <<>>, <<m[1]>>, <<m[2]>>)))
  IN ForEach(nested, "servicegroup", Fill)
=============================================================================
