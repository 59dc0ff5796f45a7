--------------------------- MODULE ObjectTemplates ---------------------------
(* Object definitions as xdata/xodtemplate.c holds them while it reads and  *)
(* resolves them: what is read for each directive, the index of objects by  *)
(* name, the inheritance from templates and the + of additive values.       *)
(*                                                                          *)
(* A value is a sequence of tokens, <<>> being NULL: names, "*", a name     *)
(* that excludes (a member of DOMAIN Rejects), and in front "+" (add to     *)
(* what is inherited) or "!" (an important check command).                  *)
EXTENDS ObjectDirectives, Naturals, FiniteSets, Sequences, SequencesExt, TLC

CONSTANT Rejects        \* [token !x -> the name x it excludes]

ASSUME RejectsAssumption == \A t \in DOMAIN Rejects : Rejects[t] \notin DOMAIN Rejects

(* The objects read so far, in the order they were made.  "ok" is OK or     *)
(* ERROR, and "presorted" tells whether they come from the precached file.  *)
Empty(presorted) == [ok |-> TRUE, presorted |-> presorted, objects |-> <<>>]

Failed(r) == [r EXCEPT !.ok = FALSE]

Unset == [have |-> FALSE, text |-> <<>>]
Value(o, d) == IF d \in DOMAIN o.v THEN o.v[d] ELSE Unset
Text(o, d) == Value(o, d).text
IsSet(o, d) == Text(o, d) # <<>>
Put(o, d, text) == [o EXCEPT !.v = (d :> [have |-> TRUE, text |-> text]) @@ @]
Drop(o, ds) == [o EXCEPT !.v = [d \in DOMAIN @ \ ds |-> @[d]]]

(* The objects of a type in the order of their list: the last one made is   *)
(* at the head, unless they were read from the precached file.              *)
List(r, type) ==
  LET all == [i \in DOMAIN r.objects |-> IF r.presorted THEN i ELSE Len(r.objects) + 1 - i]
  IN SelectSeq(all, LAMBDA i : r.objects[i].type = type /\ r.objects[i].listed)

(* Does F for one item after the other, as long as nothing fails.           *)
RECURSIVE InTurn(_, _, _)
InTurn(F(_, _), r, items) ==
  IF ~r.ok \/ items = <<>> THEN r ELSE InTurn(F, F(r, Head(items)), Tail(items))

(* Does F for each object of a type.  An object made on the way goes to the *)
(* head of the list and is not met.                                         *)
ForEach(r, type, F(_, _)) == IF r.ok THEN InTurn(F, r, List(r, type)) ELSE r

-----------------------------------------------------------------------------
(* The index of each type.                                                  *)

KeyDirectives ==
  [timeperiod |-> <<"timeperiod_name">>, command |-> <<"command_name">>,
   contactgroup |-> <<"contactgroup_name">>, hostgroup |-> <<"hostgroup_name">>,
   servicegroup |-> <<"servicegroup_name">>, contact |-> <<"contact_name">>,
   host |-> <<"host_name">>, module |-> <<"module_name">>,
   service |-> <<"host_name", "service_description">>,
   servicedependency |->
     <<"dependent_host_name", "dependent_service_description">>,
   serviceescalation |-> <<"host_name", "service_description">>,
   hostdependency |-> <<"dependent_host_name">>, hostescalation |-> <<"host_name">>,
   hostextinfo |-> <<>>, serviceextinfo |-> <<>>]

Key(o) == [n \in DOMAIN KeyDirectives[o.type] |-> Text(o, KeyDirectives[o.type][n])]

Complete(o) == \A n \in DOMAIN Key(o) : Key(o)[n] # <<>>

ReadIndexed == {"timeperiod", "command", "contactgroup", "hostgroup",
                "servicegroup", "contact", "host", "module"}

ManyPerKey == {"servicedependency", "serviceescalation", "hostdependency", "hostescalation"}

(* The object a key stands for, if there is one: none or one position. *)
FindReal(r, type, key) ==
  {i \in DOMAIN r.objects : /\ r.objects[i].type = type
                            /\ r.objects[i].indexed
                            /\ Key(r.objects[i]) = key}

(* Only a type that allows several objects under a key takes a second one. *)
Insertable(r, o) == o.type \in ManyPerKey \/ FindReal(r, o.type, Key(o)) = {}

FindTemplate(r, type, name) ==
  {i \in DOMAIN r.objects : r.objects[i].type = type /\ r.objects[i].name = name}

-----------------------------------------------------------------------------
(* Reading.                                                                 *)

Null == <<"null">>

(* What a directive of the file sets: "null" clears a text and leaves its   *)
(* have flag on, and is nothing special in a name.                          *)
Parsed(type, d, raw) ==
  [have |-> TRUE,
   text |-> IF raw = Null /\ d \notin KindsOf[type].names THEN <<>>
            ELSE IF d = Important /\ type = "service" /\ raw[1] = "!" THEN Tail(raw)
            ELSE raw]

Begin(def) ==
  [type |-> def.type, name |-> def.name, use |-> def.use, register |-> def.register,
   resolved |-> FALSE, copied |-> FALSE, listed |-> TRUE, indexed |-> FALSE,
   important |-> def.type = "service" /\ Important \in DOMAIN def.given
                 /\ def.given[Important][1] = "!",
   v |-> [d \in DOMAIN def.given |-> Parsed(def.type, d, def.given[d])]]

(* One definition of a configuration file.  A directive the type does not   *)
(* know, a template name used twice and an object named twice are errors.   *)
(* With the precached file, services and the rest are indexed here too.     *)
Read(r, def) ==
  LET o == Begin(def)
      indexed == /\ def.type \in ReadIndexed \/ (r.presorted /\ KeyDirectives[def.type] # <<>>)
                 /\ Complete(o)
  IN IF \/ ~ (DOMAIN def.given \subseteq Given[def.type])
        \/ def.name # "" /\ FindTemplate(r, def.type, def.name) # {}
        \/ indexed /\ ~Insertable(r, o)
     THEN Failed(r)
     ELSE [r EXCEPT !.objects = Append(@, [o EXCEPT !.indexed = indexed])]

-----------------------------------------------------------------------------
(* Templates.                                                               *)

Additive(text) == text # <<>> /\ text[1] = "+"

InheritedString(own, tmpl) ==
  IF ~tmpl.have THEN own
  ELSE [have |-> TRUE,
        text |-> IF tmpl.text = <<>> THEN own.text
                 ELSE IF own.text = <<>> THEN IF own.have THEN <<>> ELSE tmpl.text
                 ELSE IF Additive(own.text) THEN tmpl.text \o Tail(own.text)
                 ELSE own.text]

InheritedText(own, tmpl) == IF ~own.have /\ tmpl.have THEN tmpl ELSE own

InheritedName(own, tmpl) == IF own.text = <<>> THEN tmpl ELSE own

(* A template's important command replaces the one the object has by then. *)
InheritedCommand(own, tmpl, important) ==
  IF tmpl.have /\ important THEN tmpl ELSE InheritedText(own, tmpl)

(* Object o takes from template t what it lacks. *)
TakeFrom(o, t) ==
  LET kinds == KindsOf[o.type]
      Take(d) ==
        IF d \in kinds.names THEN InheritedName(Value(o, d), Value(t, d))
        ELSE IF d \in kinds.lists THEN InheritedString(Value(o, d), Value(t, d))
        ELSE IF o.type = "service" /\ d = Important
             THEN InheritedCommand(Value(o, d), Value(t, d), t.important)
        ELSE InheritedText(Value(o, d), Value(t, d))
  IN [o EXCEPT !.v = [d \in DOMAIN o.v \cup (DOMAIN t.v \cap Inherited[o.type]) |->
                        IF d \in Inherited[o.type] THEN Take(d) ELSE o.v[d]]]

(* An object marks itself resolved first, then resolves each template it    *)
(* names before it takes from it.                                           *)
RECURSIVE ResolveObject(_, _)
ResolveObject(r, i) ==
  LET Use(acc, name) ==
        LET found == FindTemplate(acc, acc.objects[i].type, name)
            j == CHOOSE k \in found : TRUE
            resolved == ResolveObject(acc, j)
        IN IF found = {} \/ ~resolved.ok THEN Failed(acc)
           ELSE [resolved EXCEPT !.objects[i] = TakeFrom(@, resolved.objects[j])]
  IN IF r.objects[i].resolved THEN r
     ELSE InTurn(Use, [r EXCEPT !.objects[i].resolved = TRUE], r.objects[i].use)

ResolveObjects(r) ==
  InTurn(LAMBDA acc, type : ForEach(acc, type, ResolveObject), r,
           <<"timeperiod", "command", "contactgroup", "hostgroup", "servicegroup",
             "servicedependency", "serviceescalation", "contact", "host", "service",
             "hostdependency", "hostescalation", "hostextinfo", "serviceextinfo",
             "module">>)

Stripped(o, ds) ==
  [o EXCEPT !.v = [d \in DOMAIN @ |->
     IF d \in ds /\ Additive(@[d].text) THEN [@[d] EXCEPT !.text = Tail(@)] ELSE @[d]]]

(* The contacts of escalations keep their + until they have met those of    *)
(* the host or service.                                                     *)
Escalations == {"serviceescalation", "hostescalation"}
Contacts == {"contacts", "contact_groups"}

CleanAdditiveStrings(r) ==
  [r EXCEPT !.objects = [i \in DOMAIN @ |->
     Stripped(@[i], KindsOf[@[i].type].lists \
                      (IF @[i].type \in Escalations THEN Contacts ELSE {}))]]
=============================================================================
