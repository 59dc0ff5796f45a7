----------------------------- MODULE IdoRecord -----------------------------
(***************************************************************************)
(* What ido2db promises to a reader of the database: it holds what the core  *)
(* told, one fact for each thing that happened or is configured.  A fact     *)
(* belongs to a table, has a key, which says what it is about, and says      *)
(* something of it.  Nothing here knows of ids, of statements or of servers. *)
(*                                                                           *)
(*   pipe   the messages that are on their way                               *)
(*   known  what the connection that writes the database knows: the facts,   *)
(*          the notifications in progress, the kind of configuration dump,   *)
(*          and since when the facts about the present have been told        *)
(*   kept   the facts that stay when that connection breaks                  *)
(***************************************************************************)
EXTENDS Integers, Sequences

VARIABLES pipe, known, kept

Fact(table, key, says) == <<table, key, says>>
TableOf(f) == f[1]
KeyOf(f) == f[2]
SaysOf(f) == f[3]

\* Names of objects: nothing tells what it is about when no name is given.
About(kind, m) ==
    CASE kind = "SERVICE" -> <<"SERVICE", m.HOST, m.SERVICE>>
      [] kind = "HOST" -> <<"HOST", m.HOST, "">>
Named(kind, name) == IF name = "" THEN << >> ELSE <<kind, name, "">>

Span(m) == <<m.ENDTIME, m.REST>>

Nothing == [facts |-> {}, notification |-> << >>, contactnotification |-> << >>,
            dump |-> "ORIGINAL", since |-> 0]

-----------------------------------------------------------------------------
(* What happened.                                                           *)

Event(m) ==
    CASE m.DATA = "PROCESSDATA" ->
             Fact("processevents", m.TIMESTAMP, m.TYPE)
      \* Of the time of a log line only the second is recorded by every server.
      [] m.DATA = "LOGDATA" ->
             Fact("logentries", <<m.TIMESTAMP.sec, m.LOGENTRY>>, << >>)
      [] m.DATA = "SYSTEMCOMMANDDATA" ->
             Fact("systemcommands", m.STARTTIME, Span(m))
      [] m.DATA = "SERVICECHECKDATA" ->
             Fact("servicechecks", m.STARTTIME,
                  <<About("SERVICE", m), Span(m)>>)
      [] m.DATA = "HOSTCHECKDATA" ->
             Fact("hostchecks", m.STARTTIME, <<About("HOST", m), Span(m)>>)
      \* The handlers of services are recorded as those of their hosts.
      [] m.DATA = "EVENTHANDLERDATA" ->
             Fact("eventhandlers", m.STARTTIME, <<About("HOST", m), Span(m)>>)
      [] m.DATA = "FLAPPINGDATA" ->
             Fact("flappinghistory", m.TIMESTAMP,
                  <<About(m.FLAPPINGTYPE, m), m.TYPE>>)
      [] m.DATA = "EXTERNALCOMMANDDATA" ->
             Fact("externalcommands", <<m.ENTRYTIME, m.REST>>, << >>)
      [] m.DATA = "ACKNOWLEDGEMENTDATA" ->
             Fact("acknowledgements", m.TIMESTAMP,
                  <<About(m.ACKNOWLEDGEMENTTYPE, m), m.REST>>)
      [] m.DATA = "STATECHANGEDATA" ->
             Fact("statehistory", m.TIMESTAMP,
                  <<About(m.STATECHANGETYPE, m), m.REST>>)

\* A check is told when it is processed, a command when it starts, a change of
\* state when it has taken place.
Happens(m) ==
    CASE m.DATA \in {"SERVICECHECKDATA", "HOSTCHECKDATA"} -> m.TYPE = "PROCESSED"
      [] m.DATA = "EXTERNALCOMMANDDATA" -> m.TYPE = "START"
      [] m.DATA = "STATECHANGEDATA" -> m.TYPE = "END"
      [] OTHER -> m.DATA \in {"PROCESSDATA", "LOGDATA", "SYSTEMCOMMANDDATA",
                              "EVENTHANDLERDATA", "FLAPPINGDATA",
                              "ACKNOWLEDGEMENTDATA"}

\* Of the time of a notification only the second is recorded.
NotificationKey(m) == <<About(m.NOTIFICATIONTYPE, m), m.STARTTIME.sec>>
ContactNotificationKey(m) == <<m.CONTACTNAME, m.STARTTIME>>

NotificationFact(k, m) ==
    CASE m.DATA = "NOTIFICATIONDATA" ->
             Fact("notifications", NotificationKey(m), Span(m))
      [] m.DATA = "CONTACTNOTIFICATIONDATA" ->
             Fact("contactnotifications", ContactNotificationKey(m),
                  <<Span(m), k.notification>>)
      [] m.DATA = "CONTACTNOTIFICATIONMETHODDATA" ->
             Fact("contactnotificationmethods",
                  <<m.STARTTIME, k.contactnotification>>,
                  <<m.COMMANDNAME, Span(m)>>)

\* What is known of a table and a key.
At(facts, table, key) == {f \in facts : TableOf(f) = table /\ KeyOf(f) = key}

\* New facts take the place of what was known about the same thing.
Put(facts, new) ==
    {f \in facts : \A n \in new : \/ TableOf(f) # TableOf(n)
                                 \/ KeyOf(f) # KeyOf(n)} \cup new

\* What was said before in some place of a fact, if it is known at all.
Before(facts, table, key, place, otherwise) ==
    LET said == At(facts, table, key)
    IN IF said = {} THEN otherwise
       ELSE SaysOf(CHOOSE f \in said : TRUE)[place]

Change(facts, table, key, place, value) ==
    Put(facts, {Fact(table, key, [SaysOf(f) EXCEPT ![place] = value]) :
                    f \in At(facts, table, key)})

Remove(facts, table, key) == facts \ At(facts, table, key)

\* A comment is shown until it is deleted; its history stays.
CommentKey(m) == <<m.ENTRYTIME, m.COMMENTID>>

Commented(facts, m) ==
    LET key == CommentKey(m)
        says == <<About(m.COMMENTTYPE, m), m.REST>>
        deleted == Before(facts, "commenthistory", key, 3, 0)
        told == Before(facts, "comments", key, 3, m.TIMESTAMP.sec)
    IN IF m.TYPE = "DELETE"
       THEN Change(Remove(facts, "comments", key), "commenthistory", key, 3,
                   m.TIMESTAMP.sec)
       ELSE Put(facts, {Fact("comments", key, says \o <<told>>),
                        Fact("commenthistory", key, says \o <<deleted>>)})

\* A downtime is shown until it stops or is deleted, with the time of its
\* first start; its history also has the time of its end.
DowntimeKey(m) == <<About(m.DOWNTIMETYPE, m), m.ENTRYTIME, m.DOWNTIMEID>>

Began(facts, table, m) ==
    IF Before(facts, table, DowntimeKey(m), 2, 0) # 0 THEN facts
    ELSE Change(facts, table, DowntimeKey(m), 2, m.TIMESTAMP.sec)

Scheduled(facts, m) ==
    LET key == DowntimeKey(m)
        start(table) == Before(facts, table, key, 2, 0)
        end == Before(facts, "downtimehistory", key, 3, 0)
    IN CASE m.TYPE \in {"ADD", "LOAD"} ->
                Put(facts, {Fact("scheduleddowntime", key,
                                 <<m.REST, start("scheduleddowntime")>>),
                            Fact("downtimehistory", key,
                                 <<m.REST, start("downtimehistory"), end>>)})
         [] m.TYPE = "START" ->
                Began(Began(facts, "scheduleddowntime", m), "downtimehistory", m)
         [] m.TYPE = "STOP" ->
                Change(Remove(facts, "scheduleddowntime", key),
                       "downtimehistory", key, 3, m.TIMESTAMP.sec)
         [] m.TYPE = "DELETE" -> Remove(facts, "scheduleddowntime", key)

-----------------------------------------------------------------------------
(* What is now.                                                             *)

Variables(table, o, variables) ==
    {Fact(table, <<o, variables[i][1]>>, variables[i][2]) :
        i \in DOMAIN variables}

Status(m) ==
    CASE m.DATA = "PROGRAMSTATUSDATA" ->
             {Fact("programstatus", "core", <<m.TIMESTAMP.sec, TRUE, m.REST>>)}
      [] m.DATA = "HOSTSTATUSDATA" ->
             {Fact("hoststatus", About("HOST", m),
                   <<m.TIMESTAMP.sec, m.HOSTCHECKPERIOD, m.REST>>)}
             \cup Variables("customvariablestatus", About("HOST", m),
                            m.CUSTOMVARIABLESTATUS)
      [] m.DATA = "SERVICESTATUSDATA" ->
             {Fact("servicestatus", About("SERVICE", m),
                   <<m.TIMESTAMP.sec, m.SERVICECHECKPERIOD, m.REST>>)}
             \cup Variables("customvariablestatus", About("SERVICE", m),
                            m.CUSTOMVARIABLESTATUS)
      [] m.DATA = "CONTACTSTATUSDATA" ->
             {Fact("contactstatus", Named("CONTACT", m.CONTACTNAME),
                   <<m.TIMESTAMP.sec, m.REST>>)}
             \cup Variables("customvariablestatus",
                            Named("CONTACT", m.CONTACTNAME),
                            m.CUSTOMVARIABLESTATUS)

Every(table, owner, list) ==
    {Fact(table, <<owner, list[i]>>, "") : i \in DOMAIN list}

\* The objects of a dump, and what belongs to them.
HostFacts(dump, m) ==
    LET host == <<m.HOSTNAME, dump>>
    IN {Fact("hosts", host, <<m.HOSTCHECKCOMMAND, m.HOSTEVENTHANDLER,
                              m.HOSTNOTIFICATIONPERIOD, m.HOSTCHECKPERIOD,
                              m.REST>>)}
       \cup Every("hostparenthosts", host, m.PARENTHOST)
       \cup Every("hostcontactgroups", host, m.CONTACTGROUP)
       \cup Every("hostcontacts", host, m.CONTACT)
       \cup Variables("customvariables", Named("HOST", m.HOSTNAME),
                      m.CUSTOMVARIABLE)

ServiceFacts(dump, m) ==
    LET service == <<m.HOSTNAME, m.SERVICEDESCRIPTION, dump>>
    IN {Fact("services", service, <<m.SERVICECHECKCOMMAND,
                                    m.SERVICEEVENTHANDLER,
                                    m.SERVICENOTIFICATIONPERIOD,
                                    m.SERVICECHECKPERIOD, m.REST>>)}
       \cup Every("servicecontactgroups", service, m.CONTACTGROUP)
       \cup Every("servicecontacts", service, m.CONTACT)
       \cup Variables("customvariables",
                      <<"SERVICE", m.HOSTNAME, m.SERVICEDESCRIPTION>>,
                      m.CUSTOMVARIABLE)

ContactFacts(dump, m) ==
    LET contact == <<m.CONTACTNAME, dump>>
    IN {Fact("contacts", contact, <<m.HOSTNOTIFICATIONPERIOD,
                                    m.SERVICENOTIFICATIONPERIOD, m.REST>>)}
       \cup {Fact("contactaddresses", <<contact, i>>, m.CONTACTADDRESS[i]) :
                i \in {j \in DOMAIN m.CONTACTADDRESS :
                          m.CONTACTADDRESS[j] # ""}}
       \cup Every("contactnotificationcommands", <<contact, "HOST">>,
                  m.HOSTNOTIFICATIONCOMMAND)
       \cup Every("contactnotificationcommands", <<contact, "SERVICE">>,
                  m.SERVICENOTIFICATIONCOMMAND)
       \cup Variables("customvariables", contact, m.CUSTOMVARIABLE)

EscalationFacts(table, groups, contacts, about, dump, m) ==
    LET escalation == <<about, dump, m.ESCALATIONPERIOD, m.FIRSTNOTIFICATION,
                        m.LASTNOTIFICATION>>
    IN {Fact(table, escalation, m.REST)}
       \cup Every(groups, escalation, m.CONTACTGROUP)
       \cup Every(contacts, escalation, m.CONTACT)

\* The groups of hosts are the same in every dump.
Defined(dump, m) ==
    CASE m.DATA = "HOSTDEFINITION" -> HostFacts(dump, m)
      [] m.DATA = "SERVICEDEFINITION" -> ServiceFacts(dump, m)
      [] m.DATA = "CONTACTDEFINITION" -> ContactFacts(dump, m)
      [] m.DATA = "HOSTGROUPDEFINITION" ->
             {Fact("hostgroups", m.HOSTGROUPNAME, <<dump, m.REST>>)}
             \cup Every("hostgroupmembers", m.HOSTGROUPNAME,
                        m.HOSTGROUPMEMBER)
      [] m.DATA = "SERVICEGROUPDEFINITION" ->
             {Fact("servicegroups", <<m.SERVICEGROUPNAME, dump>>, m.REST)}
             \cup Every("servicegroupmembers", <<m.SERVICEGROUPNAME, dump>>,
                        m.SERVICEGROUPMEMBER)
      [] m.DATA = "CONTACTGROUPDEFINITION" ->
             {Fact("contactgroups", <<m.CONTACTGROUPNAME, dump>>, m.REST)}
             \cup Every("contactgroupmembers", <<m.CONTACTGROUPNAME, dump>>,
                        m.CONTACTGROUPMEMBER)
      [] m.DATA = "COMMANDDEFINITION" ->
             {Fact("commands", <<m.COMMANDNAME, dump>>, m.REST)}
      [] m.DATA = "TIMEPERIODDEFINITION" ->
             {Fact("timeperiods", <<m.TIMEPERIODNAME, dump>>, m.REST)}
             \cup Every("timeperiodtimeranges", <<m.TIMEPERIODNAME, dump>>,
                        m.TIMERANGE)
      [] m.DATA = "HOSTESCALATIONDEFINITION" ->
             EscalationFacts("hostescalations", "hostescalationcontactgroups",
                             "hostescalationcontacts", m.HOSTNAME, dump, m)
      [] m.DATA = "SERVICEESCALATIONDEFINITION" ->
             EscalationFacts("serviceescalations",
                             "serviceescalationcontactgroups",
                             "serviceescalationcontacts",
                             <<m.HOSTNAME, m.SERVICEDESCRIPTION>>, dump, m)
      [] m.DATA = "HOSTDEPENDENCYDEFINITION" ->
             {Fact("hostdependencies",
                   <<m.HOSTNAME, m.DEPENDENTHOSTNAME, m.DEPENDENCYTYPE,
                     m.INHERITSPARENT, m.FAILON, dump>>, m.DEPENDENCYPERIOD)}
      [] m.DATA = "SERVICEDEPENDENCYDEFINITION" ->
             {Fact("servicedependencies",
                   <<<<m.HOSTNAME, m.SERVICEDESCRIPTION>>,
                     <<m.DEPENDENTHOSTNAME, m.DEPENDENTSERVICEDESCRIPTION>>,
                     m.DEPENDENCYTYPE, m.INHERITSPARENT, m.FAILON, dump>>,
                   m.DEPENDENCYPERIOD)}
      [] m.DATA = "MAINCONFIGFILEVARIABLES" ->
             {Fact("configfiles", m.CONFIGFILENAME, "")}
             \cup Variables("configfilevariables", m.CONFIGFILENAME,
                            m.CONFIGFILEVARIABLE)
      [] m.DATA = "RUNTIMEVARIABLES" ->
             Variables("runtimevariables", "core", m.RUNTIMEVARIABLE)

Definitions ==
    {"HOSTDEFINITION", "SERVICEDEFINITION", "CONTACTDEFINITION",
     "HOSTGROUPDEFINITION", "SERVICEGROUPDEFINITION", "CONTACTGROUPDEFINITION",
     "COMMANDDEFINITION", "TIMEPERIODDEFINITION", "HOSTESCALATIONDEFINITION",
     "SERVICEESCALATIONDEFINITION", "HOSTDEPENDENCYDEFINITION",
     "SERVICEDEPENDENCYDEFINITION", "MAINCONFIGFILEVARIABLES",
     "RUNTIMEVARIABLES"}

-----------------------------------------------------------------------------
(* The promise.                                                             *)

History ==
    {"processevents", "logentries", "systemcommands", "servicechecks",
     "hostchecks", "eventhandlers", "flappinghistory", "externalcommands",
     "acknowledgements", "statehistory", "notifications",
     "contactnotifications", "contactnotificationmethods", "commenthistory",
     "downtimehistory"}

\* A core that starts has neither configuration nor status of its own yet, but
\* the last status of hosts and services is still shown.
Launched(facts) ==
    {f \in facts : TableOf(f) \in History \cup {"hoststatus", "servicestatus"}}

\* A core that ends is shown as not running.
Ended(facts, m) == Change(facts, "programstatus", "core", 2, FALSE)

Processed(facts, m) ==
    CASE m.TYPE = "PRELAUNCH" -> Launched(facts)
      [] m.TYPE \in {"SHUTDOWN", "RESTART"} -> Ended(facts, m)
      [] OTHER -> facts

Present(facts, dump, m) ==
    CASE m.DATA = "PROCESSDATA" -> Processed(facts, m)
      [] m.DATA = "COMMENTDATA" -> Commented(facts, m)
      [] m.DATA = "DOWNTIMEDATA" -> Scheduled(facts, m)
      [] m.DATA \in {"PROGRAMSTATUSDATA", "HOSTSTATUSDATA",
                     "SERVICESTATUSDATA", "CONTACTSTATUSDATA"} ->
             Put(facts, Status(m))
      [] m.DATA \in Definitions -> Put(facts, Defined(dump, m))
      [] OTHER -> facts

\* The present is not put back by what is older than what was known of it when
\* the connection was made; the history takes it in.
Timely(k, m) ==
    LET facts == Present(k.facts, k.dump, m)
    IN IF m.TIMESTAMP.sec >= k.since THEN facts
       ELSE {f \in k.facts : TableOf(f) \notin History}
            \cup {f \in facts : TableOf(f) \in History}

Recorded(k, m) ==
    [k EXCEPT !.facts = IF Happens(m) THEN Put(Timely(k, m), {Event(m)})
                        ELSE Timely(k, m),
              !.dump = IF m.DATA = "STARTCONFIGDUMP" THEN m.CONFIGDUMPTYPE
                       ELSE @]

\* A notification is in progress from its start; whether it still is after its
\* end makes no difference.
InProgress(k, field, fact, m) ==
    {[k EXCEPT !.facts = Put(@, {fact}), ![field] = key] :
        key \in {KeyOf(fact)} \cup (IF m.TYPE = "START" THEN {} ELSE {k[field]})}

Notified(k, m) ==
    LET fact == NotificationFact(k, m)
    IN CASE m.DATA = "NOTIFICATIONDATA" ->
                InProgress(k, "notification", fact, m)
         [] m.DATA = "CONTACTNOTIFICATIONDATA" ->
                InProgress(k, "contactnotification", fact, m)
         [] OTHER -> {[k EXCEPT !.facts = Put(@, {fact})]}

\* What can be known once a message was taken in.
Told(k, m) ==
    IF m.DATA \in {"NOTIFICATIONDATA", "CONTACTNOTIFICATIONDATA",
                   "CONTACTNOTIFICATIONMETHODDATA"}
    THEN Notified(k, m) ELSE {Recorded(k, m)}

\* The last second of which the facts tell the present.
Since(facts) ==
    LET told == {SaysOf(f)[1] : f \in {g \in facts : TableOf(g) \in
                    {"programstatus", "hoststatus", "servicestatus",
                     "contactstatus"}}}
                \cup {SaysOf(f)[3] : f \in {g \in facts :
                                           TableOf(g) = "comments"}}
                \cup {0}
    IN CHOOSE t \in told : \A u \in told : u <= t

Connected(facts) == [Nothing EXCEPT !.facts = facts, !.since = Since(facts)]

-----------------------------------------------------------------------------

Init == pipe = << >> /\ known = Nothing /\ kept = {}

\* More messages follow those on their way.
Tell ==
    /\ Len(pipe') > Len(pipe)
    /\ SubSeq(pipe', 1, Len(pipe)) = pipe
    /\ UNCHANGED <<known, kept>>

Take ==
    /\ pipe # << >>
    /\ known' \in Told(known, Head(pipe))
    /\ pipe' = Tail(pipe)
    /\ kept' \in {kept, known'.facts}

Keep == kept' = known.facts /\ UNCHANGED <<pipe, known>>

\* What was not kept is lost, with messages that were on their way.
Lose ==
    /\ known' = Connected(kept)
    /\ Len(pipe') <= Len(pipe)
    /\ pipe' = SubSeq(pipe, Len(pipe) - Len(pipe') + 1, Len(pipe))
    /\ UNCHANGED kept

Next == Tell \/ Take \/ Keep \/ Lose

Spec == Init /\ [][Next]_<<pipe, known, kept>>
=============================================================================
