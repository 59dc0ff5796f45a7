---------------------------- MODULE IdoHandlers ----------------------------
(***************************************************************************)
(* What ido2db does with each message (ido2db_handle_... of dbhandlers.c).   *)
(* A world w is the database together with what a child of ido2db remembers  *)
(* of its connection:                                                        *)
(*   server   the kind of server;  rows, objects, active, next: its tables   *)
(*            of rows, the names in its objects table, those marked active,  *)
(*            and the next id;                                               *)
(*   put, given              what the last statement did, and the id the     *)
(*                           code then takes for that of the row;            *)
(*   latest, cleared, config_type, last_notification,                        *)
(*   last_contact_notification, activate                                     *)
(*            the fields of ido2db_idi of those names, the last one being    *)
(*            the ids in its transaction buffer.                             *)
(* An object id is the name that the objects table gives it.                 *)
(***************************************************************************)
EXTENDS Integers, Sequences, FiniteSets, SequencesExt

LOCAL My == INSTANCE IdoMysql
LOCAL Pg == INSTANCE IdoPgsql
LOCAL Ora == INSTANCE IdoOracle

Instance == 1
NoObject == << >>

\* The two names of an object; an empty name is NULL, and two are no object.
Object(kind, name1, name2) ==
    IF name1 = "" /\ name2 = "" THEN NoObject ELSE <<kind, name1, name2>>

StatementOf(w, name) ==
    CASE w.server = "mysql" -> My!Statements[name]
      [] w.server = "pgsql" -> Pg!Statements[name]
      [] w.server = "oracle" -> Ora!Statements[name]

\* The rows a statement is about.
Selected(w, table, statement, row) ==
    {r \in w.rows[table] : \A c \in statement.key : r[c] = row[c]}

\* The columns that a row has only once an UPDATE wrote them.
Updated(r, row, kept) ==
    [c \in DOMAIN row \ kept |-> row[c]] @@ r

\* An object the table does not hold is added to it, inactive until it is
\* marked; the cache of a child holds the same names as the table.
Known(w, o) ==
    IF o = NoObject THEN w ELSE [w EXCEPT !.objects = @ \cup {o}]

KnownAll(w, os) == [w EXCEPT !.objects = @ \cup (os \ {NoObject})]

\* Which id the code reads back: that of the row a MySQL or PostgreSQL server
\* selects, but on Oracle always the current value of the sequence, of which
\* the MERGE takes a number even when it updates.
Inserted(w, table, new) ==
    [w EXCEPT !.rows[table] = @ \cup {new}, !.next = @ + 1,
              !.given = w.next, !.put = "inserted"]

Replaced(w, table, old, news) ==
    [w EXCEPT !.rows[table] = (@ \ old) \cup news,
              !.next = IF w.server = "oracle" THEN @ + 1 ELSE @,
              !.given = IF w.server = "oracle" THEN w.next
                        ELSE (CHOOSE r \in old : TRUE).id,
              !.put = IF w.server = "mysql" /\ news = old THEN "same"
                      ELSE "changed"]

PutOver(w, table, new, kept, old) ==
    IF old = {} THEN Inserted(w, table, new)
    ELSE Replaced(w, table, old, {Updated(r, new, kept \cup {"id"}) : r \in old})

PutRow(w, table, statement, new) ==
    PutOver(w, table, new, statement.keep, Selected(w, table, statement, new))

PutBy(w, table, statement, row) ==
    PutRow(w, table, statement,
           row @@ [id |-> w.next, instance_id |-> Instance])

Put(w, table, row) == PutBy(w, table, StatementOf(w, table), row)

PutEach(w, table, rows) ==
    FoldLeft(LAMBDA x, row : Put(x, table, row), w, rows)

\* One INSERT of several rows.
AddRows(w, table, rows) ==
    [w EXCEPT !.rows[table] = @ \cup {rows[i] @@ [id |-> w.next + i - 1,
                                                 instance_id |-> Instance] :
                                        i \in DOMAIN rows},
              !.next = @ + Len(rows)]

\* An UPDATE of columns, and a DELETE, of the rows a statement selects.
Change(w, table, name, row, set) ==
    LET old == Selected(w, table, StatementOf(w, name),
                        row @@ [instance_id |-> Instance])
    IN [w EXCEPT !.rows[table] = (@ \ old) \cup {set @@ r : r \in old}]

Delete(w, table, name, row) ==
    [w EXCEPT !.rows[table] =
        @ \ Selected(w, table, StatementOf(w, name),
                     row @@ [instance_id |-> Instance])]

\* Mutant: the hosts are forgotten when the tables are made empty.
Clear_KeepHosts(w, tables) ==
    [w EXCEPT !.rows = [t \in DOMAIN @ |->
                           IF t \in tables \ {"hosts"} THEN {} ELSE @[t]]]

Clear(w, tables) ==
    [w EXCEPT !.rows = [t \in DOMAIN @ |-> IF t \in tables THEN {} ELSE @[t]]]

\* On Oracle an object is marked active at once, otherwise when the transaction
\* buffer is written.
SetActive(w, o) ==
    IF w.server = "oracle" THEN [w EXCEPT !.active = @ \cup {o}]
    ELSE [w EXCEPT !.activate = @ \cup {o}]
SetAllInactive(w) == [w EXCEPT !.active = {}]
WriteTxbuf(w) == [w EXCEPT !.active = @ \cup w.activate, !.activate = {}]

\* Messages about a host or about a service of it.
HostOf(m) == Object("HOST", m.HOST, "")
ServiceOf(m) == Object("SERVICE", m.HOST, m.SERVICE)
AboutOf(kind, m) == IF kind = "SERVICE" THEN ServiceOf(m) ELSE HostOf(m)
Timeperiod(name) == Object("TIMEPERIOD", name, "")
Command(name) == Object("COMMAND", name, "")
Contact(name) == Object("CONTACT", name, "")

Outdated(w, m) == m.TIMESTAMP.sec < w.latest

-----------------------------------------------------------------------------
(* Custom variables, and the events of the core.                            *)

CustomVariables(variables, o) ==
    [i \in DOMAIN variables |-> [object_id |-> o, varname |-> variables[i][1],
                                 rest |-> variables[i][2]]]

save_custom_variables(w, table, o, variables) ==
    PutEach(w, table, CustomVariables(variables, o))

\* A line of a log that is imported is recorded once.
handle_logentry(w, m) ==
    LET o == IF m.HOST = "" THEN NoObject ELSE ServiceOf(m)
        same == {r \in w.rows["logentries"] : /\ r.logentry_time = m.LOGENTRYTIME
                                             /\ r.rest = m.LOGENTRY}
    IN IF same # {} THEN Known(w, o)
       ELSE Put(Known(w, o), "logentries",
                [object_id |-> o, logentry_time |-> m.LOGENTRYTIME,
                 entry_time |-> m.LOGENTRYTIME, entry_time_usec |-> 0,
                 rest |-> m.LOGENTRY])

StatusTables == {"scheduleddowntime", "programstatus", "contactstatus",
                 "comments", "runtimevariables", "customvariablestatus"}

ConfigTables ==
    {"hosts", "hostparenthosts", "hostcontactgroups", "hostcontacts",
     "hostgroups", "hostgroupmembers", "services", "servicecontactgroups",
     "servicecontacts", "servicegroups", "servicegroupmembers",
     "hostdependencies", "servicedependencies", "hostescalations",
     "hostescalationcontactgroups", "hostescalationcontacts",
     "serviceescalations", "serviceescalationcontactgroups",
     "serviceescalationcontacts", "commands", "timeperiods",
     "timeperiodtimeranges", "contacts", "contactaddresses",
     "contactnotificationcommands", "contactgroups", "contactgroupmembers",
     "configfiles", "configfilevariables", "customvariables"}

\* Mutant: the objects of the core before stay active.
handle_processdata_KeepActive(w, m) ==
    LET x == Put(w, "processevents",
                 [event_type |-> m.TYPE, event_time |-> m.TIMESTAMP,
                  rest |-> m.REST])
    IN CASE Outdated(w, m) -> x
         [] m.TYPE = "PRELAUNCH" ->
                [Clear(x, StatusTables \cup ConfigTables)
                 EXCEPT !.cleared = TRUE]
         [] OTHER -> x

\* A core that starts makes the tables empty, except for those with the status
\* of hosts and services; one that stops is recorded as not running.
handle_processdata(w, m) ==
    LET x == Put(w, "processevents",
                 [event_type |-> m.TYPE, event_time |-> m.TIMESTAMP,
                  rest |-> m.REST])
    IN CASE Outdated(w, m) -> x
         [] m.TYPE = "PRELAUNCH" ->
                SetAllInactive([Clear(x, StatusTables \cup ConfigTables)
                                EXCEPT !.cleared = TRUE])
         [] m.TYPE \in {"SHUTDOWN", "RESTART"} ->
                Change(x, "programstatus", "programstatus_update", << >>,
                       [program_end_time |-> m.TIMESTAMP.sec,
                        is_currently_running |-> FALSE])
         [] OTHER -> x

\* Only Oracle is given the time of the line itself, and the microseconds.
handle_logdata(w, m) ==
    LET o == IF m.HOST = "" THEN NoObject ELSE ServiceOf(m)
        times == IF w.server = "oracle" THEN <<m.LOGENTRYTIME, m.TIMESTAMP.usec>>
                 ELSE <<m.TIMESTAMP.sec, 0>>
    IN Put(Known(w, o), "logentries",
           [object_id |-> o, logentry_time |-> times[1],
            entry_time |-> m.TIMESTAMP.sec, entry_time_usec |-> times[2],
            rest |-> m.LOGENTRY])

\* Two times of a row: a second and, in a column of its own, the rest of it.
Started(m) ==
    [start_time |-> m.STARTTIME.sec, start_time_usec |-> m.STARTTIME.usec,
     end_time |-> m.ENDTIME, rest |-> m.REST]

handle_systemcommanddata(w, m) == Put(w, "systemcommands", Started(m))

\* No message says that an event handler is one of a service.
EventHandlerType(m) == IF "EVENTHANDLERTYPE" \in DOMAIN m
                       THEN m.EVENTHANDLERTYPE ELSE "HOST"

handle_eventhandlerdata(w, m) ==
    LET o == AboutOf(EventHandlerType(m), m)
        c == Command(m.COMMANDNAME)
    IN Put(KnownAll(w, {o, c}), "eventhandlers",
           [object_id |-> o, command_object_id |-> c] @@ Started(m))

\* The microseconds of the start are given as its seconds.
NotificationRow(m) ==
    [object_id |-> AboutOf(m.NOTIFICATIONTYPE, m),
     start_time_usec |-> m.STARTTIME.sec] @@ Started(m)

\* The id that later messages refer to.
SavedId(x, type, last) ==
    CASE x.server = "oracle" -> IF type = "START" THEN x.given ELSE last
      [] x.put = "inserted" -> IF type = "START" THEN x.given ELSE last
      [] x.put = "changed" -> x.given
      [] x.put = "same" -> last

handle_notificationdata(w, m) ==
    LET x == Put(Known(w, AboutOf(m.NOTIFICATIONTYPE, m)), "notifications",
                 NotificationRow(m))
    IN [x EXCEPT !.last_notification = SavedId(x, m.TYPE, @)]

handle_contactnotificationdata(w, m) ==
    LET c == Contact(m.CONTACTNAME)
        x == Put(Known(w, c), "contactnotifications",
                 [contact_object_id |-> c,
                  notification_id |-> w.last_notification] @@ Started(m))
    IN [x EXCEPT !.last_contact_notification = SavedId(x, m.TYPE, @)]

handle_contactnotificationmethoddata(w, m) ==
    LET c == Command(m.COMMANDNAME)
    IN Put(Known(w, c), "contactnotificationmethods",
           [command_object_id |-> c,
            contactnotification_id |-> w.last_contact_notification]
           @@ Started(m))

handle_servicecheckdata(w, m) ==
    IF m.TYPE # "PROCESSED" THEN w
    ELSE LET o == ServiceOf(m)
             c == Command(m.COMMANDNAME)
         IN Put(KnownAll(w, {o, c}), "servicechecks",
                [service_object_id |-> o, command_object_id |-> c]
                @@ Started(m))

handle_hostcheckdata(w, m) ==
    IF m.TYPE # "PROCESSED" THEN w
    ELSE LET o == HostOf(m)
             c == Command(m.COMMANDNAME)
         IN Put(KnownAll(w, {o, c}), "hostchecks",
                [host_object_id |-> o, command_object_id |-> c] @@ Started(m))

CommentRow(m) ==
    [entry_time |-> m.TIMESTAMP.sec, entry_time_usec |-> m.TIMESTAMP.usec,
     object_id |-> AboutOf(m.COMMENTTYPE, m), comment_time |-> m.ENTRYTIME,
     internal_comment_id |-> m.COMMENTID, rest |-> m.REST]

\* The history has every comment; the comments of now are not written with
\* messages older than the newest data the child found in the database.
CommentHistory(w, m) ==
    IF m.TYPE = "DELETE"
    THEN Change(w, "commenthistory", "comment_history_update", CommentRow(m),
                [deletion_time |-> m.TIMESTAMP.sec])
    ELSE Put(w, "commenthistory", CommentRow(m))

\* Mutant: an old message is written like a new one.
handle_commentdata_AlsoOld(w, m) ==
    LET x == CommentHistory(Known(w, AboutOf(m.COMMENTTYPE, m)), m)
    IN IF m.TYPE = "DELETE"
       THEN Delete(x, "comments", "comments_delete", CommentRow(m))
       ELSE Put(x, "comments", CommentRow(m))

handle_commentdata(w, m) ==
    LET x == CommentHistory(Known(w, AboutOf(m.COMMENTTYPE, m)), m)
    IN CASE Outdated(w, m) -> x
         [] m.TYPE = "DELETE" ->
                Delete(x, "comments", "comments_delete", CommentRow(m))
         [] OTHER -> Put(x, "comments", CommentRow(m))

DowntimeRow(m) ==
    [downtime_type |-> m.DOWNTIMETYPE, object_id |-> AboutOf(m.DOWNTIMETYPE, m),
     entry_time |-> m.ENTRYTIME, internal_downtime_id |-> m.DOWNTIMEID,
     scheduled_start_time |-> m.STARTTIME, scheduled_end_time |-> m.ENDTIME,
     is_in_effect |-> m.DOWNTIMEISINEFFECT,
     trigger_time |-> m.DOWNTIMETRIGGERTIME, rest |-> m.REST]

\* The columns of a new row that its INSERT leaves at their default.
NotStarted == [was_started |-> FALSE, actual_start_time |-> 0]

PutDowntime(w, table, row, old) ==
    IF old = {} THEN Put(w, table, row @@ NotStarted) ELSE Put(w, table, row)

ScheduledIn(w, table, row) ==
    PutDowntime(w, table, row,
                Selected(w, table, StatementOf(w, table),
                         row @@ [instance_id |-> Instance]))

\* A downtime starts once: only a row that has not started is changed.
StartedIn(w, table, name, m) ==
    Change(w, table, name, DowntimeRow(m) @@ NotStarted,
           [actual_start_time |-> m.TIMESTAMP.sec, was_started |-> TRUE,
            is_in_effect |-> TRUE, trigger_time |-> m.DOWNTIMETRIGGERTIME])

DowntimeHistory(w, m) ==
    CASE m.TYPE \in {"ADD", "LOAD"} ->
             ScheduledIn(w, "downtimehistory", DowntimeRow(m))
      [] m.TYPE = "START" ->
             StartedIn(w, "downtimehistory", "downtimehistory_update_start", m)
      [] m.TYPE = "STOP" ->
             Change(w, "downtimehistory", "downtimehistory_update_stop",
                    DowntimeRow(m),
                    [actual_end_time |-> m.TIMESTAMP.sec,
                     was_cancelled |-> m.ATTRIBUTES = "STOP_CANCELLED",
                     is_in_effect |-> m.DOWNTIMEISINEFFECT,
                     trigger_time |-> m.DOWNTIMETRIGGERTIME])
      [] OTHER -> w

ScheduledDowntime(w, m) ==
    CASE Outdated(w, m) -> w
      [] m.TYPE \in {"ADD", "LOAD"} ->
             ScheduledIn(w, "scheduleddowntime", DowntimeRow(m))
      [] m.TYPE = "START" ->
             StartedIn(w, "scheduleddowntime",
                       "scheduleddowntime_update_start", m)
      [] OTHER ->
             Delete(w, "scheduleddowntime", "downtime_delete", DowntimeRow(m))

handle_downtimedata(w, m) ==
    ScheduledDowntime(DowntimeHistory(Known(w, AboutOf(m.DOWNTIMETYPE, m)), m),
                      m)

handle_flappingdata(w, m) ==
    LET o == AboutOf(m.FLAPPINGTYPE, m)
    IN Put(Known(w, o), "flappinghistory",
           [object_id |-> o, event_time |-> m.TIMESTAMP,
            event_type |-> m.TYPE, rest |-> m.REST])

handle_programstatusdata(w, m) ==
    IF Outdated(w, m) THEN w
    ELSE Put(w, "programstatus",
             [status_update_time |-> m.TIMESTAMP.sec,
              is_currently_running |-> TRUE, rest |-> m.REST])

\* The status of an object, and the custom variables it has by now.
PutStatus(w, m, table, column, o, period) ==
    IF Outdated(w, m) THEN w
    ELSE save_custom_variables(
             Put(KnownAll(w, {o, period}), table,
                 [c \in {column} |-> o]
                 @@ [status_update_time |-> m.TIMESTAMP.sec,
                     check_timeperiod_object_id |-> period, rest |-> m.REST]),
             "customvariablestatus", o, m.CUSTOMVARIABLESTATUS)

handle_hoststatusdata(w, m) ==
    PutStatus(w, m, "hoststatus", "host_object_id", HostOf(m),
              Timeperiod(m.HOSTCHECKPERIOD))

handle_servicestatusdata(w, m) ==
    PutStatus(w, m, "servicestatus", "service_object_id", ServiceOf(m),
              Timeperiod(m.SERVICECHECKPERIOD))

handle_contactstatusdata(w, m) ==
    PutStatus(w, m, "contactstatus", "contact_object_id",
              Contact(m.CONTACTNAME), NoObject)

handle_adaptivedata(w, m) == w

handle_externalcommanddata(w, m) ==
    IF m.TYPE # "START" THEN w
    ELSE Put(w, "externalcommands",
             [entry_time |-> m.ENTRYTIME, rest |-> m.REST])

handle_acknowledgementdata(w, m) ==
    LET o == AboutOf(m.ACKNOWLEDGEMENTTYPE, m)
    IN Put(Known(w, o), "acknowledgements",
           [object_id |-> o, entry_time |-> m.TIMESTAMP, rest |-> m.REST])

handle_statechangedata(w, m) ==
    IF m.TYPE # "END" THEN w
    ELSE LET o == AboutOf(m.STATECHANGETYPE, m)
         IN Put(Known(w, o), "statehistory",
                [object_id |-> o, state_time |-> m.TIMESTAMP,
                 rest |-> m.REST])

-----------------------------------------------------------------------------
(* The configuration.                                                       *)

\* Names, in a list, of a kind of object.
Named(kind, names) == [i \in DOMAIN names |-> Object(kind, names[i], "")]

ServicesNamed(pairs) ==
    [i \in DOMAIN pairs |-> Object("SERVICE", pairs[i][1], pairs[i][2])]

\* What belongs to the row that was put last: a row of its own for each.
Members(w, table, owner, column, os) ==
    AddRows(KnownAll(w, ToSet(os)), table,
            [i \in DOMAIN os |-> [c \in {owner, column} |->
                                     IF c = owner THEN w.given ELSE os[i]]])

handle_configfilevariables(w, m) ==
    IF Outdated(w, m) THEN w
    ELSE LET x == Put(w, "configfiles", [configfile_type |-> 0,
                                         configfile_path |-> m.CONFIGFILENAME])
             vs == m.CONFIGFILEVARIABLE
         IN AddRows(x, "configfilevariables",
                    [i \in DOMAIN vs |-> [configfile_id |-> x.given,
                                          varname |-> vs[i][1],
                                          rest |-> vs[i][2]]])

handle_runtimevariables(w, m) ==
    IF Outdated(w, m) THEN w
    ELSE LET vs == m.RUNTIMEVARIABLE
         IN AddRows(w, "runtimevariables",
                    [i \in DOMAIN vs |-> [varname |-> vs[i][1],
                                          rest |-> vs[i][2]]])

handle_configdumpstart(w, m) ==
    [w EXCEPT !.config_type = IF m.CONFIGDUMPTYPE = "RETAINED" THEN 1 ELSE 0]

handle_configdumpend(w, m) == w

\* On a MySQL server the rows of hosts and services are inserted at once when
\* the tables were made empty before.
Anew(w, table) ==
    IF w.server = "mysql" /\ w.cleared THEN [key |-> {"id"}, keep |-> {}]
    ELSE StatementOf(w, table)

\* The row of an object, one for each type of dump.
Define(w, table, statement, o, row) ==
    PutBy(SetActive(Known(w, o), o), table, statement,
          row @@ [config_type |-> w.config_type])

CheckedBy(m, command, handler, notified, checked) ==
    [check_command_object_id |-> Command(m[command]),
     eventhandler_command_object_id |-> Command(m[handler]),
     notification_timeperiod_object_id |-> Timeperiod(m[notified]),
     check_timeperiod_object_id |-> Timeperiod(m[checked])]

KnownIn(w, row) == KnownAll(w, {row[c] : c \in DOMAIN row})

HostColumns(m) ==
    CheckedBy(m, "HOSTCHECKCOMMAND", "HOSTEVENTHANDLER",
              "HOSTNOTIFICATIONPERIOD", "HOSTCHECKPERIOD")

HostRow(w, m, o) ==
    Define(KnownIn(w, HostColumns(m)), "hosts", Anew(w, "hosts"), o,
           [host_object_id |-> o, rest |-> m.REST] @@ HostColumns(m))

HostParents(w, m) ==
    Members(w, "hostparenthosts", "host_id", "parent_host_object_id",
            Named("HOST", m.PARENTHOST))

HostContactGroups(w, m) ==
    Members(w, "hostcontactgroups", "host_id", "contactgroup_object_id",
            Named("CONTACTGROUP", m.CONTACTGROUP))

HostContacts(w, m) ==
    Members(w, "hostcontacts", "host_id", "contact_object_id",
            Named("CONTACT", m.CONTACT))

HostMembers(w, m) == HostContacts(HostContactGroups(HostParents(w, m), m), m)

handle_hostdefinition(w, m) ==
    IF Outdated(w, m) THEN w
    ELSE LET o == Object("HOST", m.HOSTNAME, "")
         IN save_custom_variables(HostMembers(HostRow(w, m, o), m),
                                  "customvariables", o, m.CUSTOMVARIABLE)

handle_hostgroupdefinition(w, m) ==
    IF Outdated(w, m) THEN w
    ELSE LET o == Object("HOSTGROUP", m.HOSTGROUPNAME, "")
         IN Members(Define(w, "hostgroups", StatementOf(w, "hostgroups"), o,
                           [hostgroup_object_id |-> o, rest |-> m.REST]),
                    "hostgroupmembers", "hostgroup_id", "host_object_id",
                    Named("HOST", m.HOSTGROUPMEMBER))

ServiceColumns(m) ==
    [host_object_id |-> Object("HOST", m.HOSTNAME, "")]
    @@ CheckedBy(m, "SERVICECHECKCOMMAND", "SERVICEEVENTHANDLER",
                 "SERVICENOTIFICATIONPERIOD", "SERVICECHECKPERIOD")

ServiceRow(w, m, o) ==
    Define(KnownIn(w, ServiceColumns(m)), "services", Anew(w, "services"), o,
           [service_object_id |-> o, rest |-> m.REST] @@ ServiceColumns(m))

ServiceContactGroups(w, m) ==
    Members(w, "servicecontactgroups", "service_id", "contactgroup_object_id",
            Named("CONTACTGROUP", m.CONTACTGROUP))

ServiceContacts(w, m) ==
    Members(w, "servicecontacts", "service_id", "contact_object_id",
            Named("CONTACT", m.CONTACT))

ServiceMembers(w, m) == ServiceContacts(ServiceContactGroups(w, m), m)

handle_servicedefinition(w, m) ==
    IF Outdated(w, m) THEN w
    ELSE LET o == Object("SERVICE", m.HOSTNAME, m.SERVICEDESCRIPTION)
         IN save_custom_variables(ServiceMembers(ServiceRow(w, m, o), m),
                                  "customvariables", o, m.CUSTOMVARIABLE)

handle_servicegroupdefinition(w, m) ==
    IF Outdated(w, m) THEN w
    ELSE LET o == Object("SERVICEGROUP", m.SERVICEGROUPNAME, "")
         IN Members(Define(w, "servicegroups", StatementOf(w, "servicegroups"),
                           o, [servicegroup_object_id |-> o, rest |-> m.REST]),
                    "servicegroupmembers", "servicegroup_id",
                    "service_object_id", ServicesNamed(m.SERVICEGROUPMEMBER))

\* A row that only refers to objects: it does not mark them active.
Relate(w, table, row, os) ==
    Put(KnownAll(w, os), table, row @@ [config_type |-> w.config_type])

DependencyRow(m) ==
    [dependency_type |-> m.DEPENDENCYTYPE, inherits_parent |-> m.INHERITSPARENT,
     timeperiod_object_id |-> Timeperiod(m.DEPENDENCYPERIOD)]

handle_hostdependencydefinition(w, m) ==
    LET o == Object("HOST", m.HOSTNAME, "")
        d == Object("HOST", m.DEPENDENTHOSTNAME, "")
    IN IF Outdated(w, m) THEN w
       ELSE Relate(w, "hostdependencies",
                   [host_object_id |-> o, dependent_host_object_id |-> d,
                    fail_on_up |-> "up" \in m.FAILON,
                    fail_on_down |-> "down" \in m.FAILON,
                    fail_on_unreachable |-> "unreachable" \in m.FAILON]
                   @@ DependencyRow(m),
                   {o, d, Timeperiod(m.DEPENDENCYPERIOD)})

handle_servicedependencydefinition(w, m) ==
    LET o == Object("SERVICE", m.HOSTNAME, m.SERVICEDESCRIPTION)
        d == Object("SERVICE", m.DEPENDENTHOSTNAME,
                    m.DEPENDENTSERVICEDESCRIPTION)
    IN IF Outdated(w, m) THEN w
       ELSE Relate(w, "servicedependencies",
                   [service_object_id |-> o, dependent_service_object_id |-> d,
                    fail_on_ok |-> "ok" \in m.FAILON,
                    fail_on_warning |-> "warning" \in m.FAILON,
                    fail_on_unknown |-> "unknown" \in m.FAILON,
                    fail_on_critical |-> "critical" \in m.FAILON]
                   @@ DependencyRow(m),
                   {o, d, Timeperiod(m.DEPENDENCYPERIOD)})

EscalationRow(w, m, table, column, o) ==
    Relate(w, table,
           [c \in {column} |-> o]
           @@ [timeperiod_object_id |-> Timeperiod(m.ESCALATIONPERIOD),
               first_notification |-> m.FIRSTNOTIFICATION,
               last_notification |-> m.LASTNOTIFICATION, rest |-> m.REST],
           {o, Timeperiod(m.ESCALATIONPERIOD)})

\* Each in a statement of its own; given is the id of the row they belong to.
PutMembers(w, table, owner, given, column, os) ==
    PutEach(KnownAll(w, ToSet(os)), table,
            [i \in DOMAIN os |-> [c \in {owner, column} |->
                                     IF c = owner THEN given ELSE os[i]]])

Escalated(w, m, groups, contacts, owner, given) ==
    PutMembers(PutMembers(w, groups, owner, given, "contactgroup_object_id",
                          Named("CONTACTGROUP", m.CONTACTGROUP)),
               contacts, owner, given, "contact_object_id",
               Named("CONTACT", m.CONTACT))

handle_hostescalationdefinition(w, m) ==
    IF Outdated(w, m) THEN w
    ELSE LET x == EscalationRow(w, m, "hostescalations", "host_object_id",
                                Object("HOST", m.HOSTNAME, ""))
         IN Escalated(x, m, "hostescalationcontactgroups",
                      "hostescalationcontacts", "hostescalation_id", x.given)

handle_serviceescalationdefinition(w, m) ==
    IF Outdated(w, m) THEN w
    ELSE LET x == EscalationRow(w, m, "serviceescalations", "service_object_id",
                                Object("SERVICE", m.HOSTNAME,
                                       m.SERVICEDESCRIPTION))
         IN Escalated(x, m, "serviceescalationcontactgroups",
                      "serviceescalationcontacts", "serviceescalation_id",
                      x.given)

handle_commanddefinition(w, m) ==
    IF Outdated(w, m) THEN w
    ELSE LET o == Command(m.COMMANDNAME)
         IN Define(w, "commands", StatementOf(w, "commands"), o,
                   [object_id |-> o, rest |-> m.REST])

handle_timeperiodefinition(w, m) ==
    IF Outdated(w, m) THEN w
    ELSE LET o == Timeperiod(m.TIMEPERIODNAME)
             x == Define(w, "timeperiods", StatementOf(w, "timeperiods"), o,
                         [timeperiod_object_id |-> o, rest |-> m.REST])
         IN AddRows(x, "timeperiodtimeranges",
                    [i \in DOMAIN m.TIMERANGE |->
                        [timeperiod_id |-> x.given, rest |-> m.TIMERANGE[i]]])

ContactRow(w, m, o) ==
    LET periods ==
            [host_timeperiod_object_id |-> Timeperiod(m.HOSTNOTIFICATIONPERIOD),
             service_timeperiod_object_id |->
                 Timeperiod(m.SERVICENOTIFICATIONPERIOD)]
    IN Define(KnownIn(w, periods), "contacts", StatementOf(w, "contacts"), o,
              [contact_object_id |-> o, rest |-> m.REST] @@ periods)

\* Addresses keep their number; the ones that are not set have no row.
Addresses(id, addresses) ==
    LET set == {i \in DOMAIN addresses : addresses[i] # ""}
        all == [i \in DOMAIN addresses |->
                   [contact_id |-> id, address_number |-> i,
                    rest |-> addresses[i]]]
    IN SelectSeq(all, LAMBDA row : row.address_number \in set)

NotificationCommands(id, type, names) ==
    [i \in DOMAIN names |->
        [contact_id |-> id, notification_type |-> type,
         command_object_id |-> Command(names[i])]]

ContactCommands(id, m) ==
    NotificationCommands(id, "HOST", m.HOSTNOTIFICATIONCOMMAND)
        \o NotificationCommands(id, "SERVICE", m.SERVICENOTIFICATIONCOMMAND)

\* The custom variables of a contact are those of the object whose id is the
\* one of the contact's row.
ContactMembers(w, m, id) ==
    save_custom_variables(
        PutEach(PutEach(KnownAll(w, {Command(c) : c \in
                                        ToSet(m.HOSTNOTIFICATIONCOMMAND)
                                        \cup ToSet(m.SERVICENOTIFICATIONCOMMAND)}),
                        "contactaddresses", Addresses(id, m.CONTACTADDRESS)),
                "contactnotificationcommands", ContactCommands(id, m)),
        "customvariables", <<"ROW", id>>, m.CUSTOMVARIABLE)

handle_contactdefinition(w, m) ==
    IF Outdated(w, m) THEN w
    ELSE LET x == ContactRow(w, m, Contact(m.CONTACTNAME))
         IN ContactMembers(x, m, x.given)

handle_contactgroupdefinition(w, m) ==
    IF Outdated(w, m) THEN w
    ELSE LET o == Object("CONTACTGROUP", m.CONTACTGROUPNAME, "")
         IN Members(Define(w, "contactgroups", StatementOf(w, "contactgroups"),
                           o, [contactgroup_object_id |-> o, rest |-> m.REST]),
                    "contactgroupmembers", "contactgroup_id",
                    "contact_object_id",
                    Named("CONTACT", m.CONTACTGROUPMEMBER))

-----------------------------------------------------------------------------

\* A dump of the configuration is written in one go: what went before is
\* committed, and how far the dump has come is noted.
update_config_dump(w, m) ==
    Change(w, "programstatus", "programstatus_progress", << >>,
           [config_dump_in_progress |-> m.DATA = "STARTCONFIGDUMP"])

\* The handler of the message that just ended, by what it is about.
end_input_data(w, m) ==
    CASE m.DATA = "LOGENTRY" -> handle_logentry(w, m)
      [] m.DATA = "PROCESSDATA" -> handle_processdata(w, m)
      [] m.DATA = "LOGDATA" -> handle_logdata(w, m)
      [] m.DATA = "SYSTEMCOMMANDDATA" -> handle_systemcommanddata(w, m)
      [] m.DATA = "EVENTHANDLERDATA" -> handle_eventhandlerdata(w, m)
      [] m.DATA = "NOTIFICATIONDATA" -> handle_notificationdata(w, m)
      [] m.DATA = "SERVICECHECKDATA" -> handle_servicecheckdata(w, m)
      [] m.DATA = "HOSTCHECKDATA" -> handle_hostcheckdata(w, m)
      [] m.DATA = "COMMENTDATA" -> handle_commentdata(w, m)
      [] m.DATA = "DOWNTIMEDATA" -> handle_downtimedata(w, m)
      [] m.DATA = "FLAPPINGDATA" -> handle_flappingdata(w, m)
      [] m.DATA = "PROGRAMSTATUSDATA" -> handle_programstatusdata(w, m)
      [] m.DATA = "HOSTSTATUSDATA" -> handle_hoststatusdata(w, m)
      [] m.DATA = "SERVICESTATUSDATA" -> handle_servicestatusdata(w, m)
      [] m.DATA = "CONTACTSTATUSDATA" -> handle_contactstatusdata(w, m)
      [] m.DATA \in {"ADAPTIVEPROGRAMDATA", "ADAPTIVEHOSTDATA",
                     "ADAPTIVESERVICEDATA", "ADAPTIVECONTACTDATA",
                     "AGGREGATEDSTATUSDATA", "RETENTIONDATA"} ->
             handle_adaptivedata(w, m)
      [] m.DATA = "EXTERNALCOMMANDDATA" -> handle_externalcommanddata(w, m)
      [] m.DATA = "CONTACTNOTIFICATIONDATA" ->
             handle_contactnotificationdata(w, m)
      [] m.DATA = "CONTACTNOTIFICATIONMETHODDATA" ->
             handle_contactnotificationmethoddata(w, m)
      [] m.DATA = "ACKNOWLEDGEMENTDATA" -> handle_acknowledgementdata(w, m)
      [] m.DATA = "STATECHANGEDATA" -> handle_statechangedata(w, m)
      [] m.DATA = "MAINCONFIGFILEVARIABLES" -> handle_configfilevariables(w, m)
      [] m.DATA = "RUNTIMEVARIABLES" -> handle_runtimevariables(w, m)
      [] m.DATA = "HOSTDEFINITION" -> handle_hostdefinition(w, m)
      [] m.DATA = "HOSTGROUPDEFINITION" -> handle_hostgroupdefinition(w, m)
      [] m.DATA = "SERVICEDEFINITION" -> handle_servicedefinition(w, m)
      [] m.DATA = "SERVICEGROUPDEFINITION" ->
             handle_servicegroupdefinition(w, m)
      [] m.DATA = "HOSTDEPENDENCYDEFINITION" ->
             handle_hostdependencydefinition(w, m)
      [] m.DATA = "SERVICEDEPENDENCYDEFINITION" ->
             handle_servicedependencydefinition(w, m)
      [] m.DATA = "HOSTESCALATIONDEFINITION" ->
             handle_hostescalationdefinition(w, m)
      [] m.DATA = "SERVICEESCALATIONDEFINITION" ->
             handle_serviceescalationdefinition(w, m)
      [] m.DATA = "COMMANDDEFINITION" -> handle_commanddefinition(w, m)
      [] m.DATA = "TIMEPERIODDEFINITION" -> handle_timeperiodefinition(w, m)
      [] m.DATA = "CONTACTDEFINITION" -> handle_contactdefinition(w, m)
      [] m.DATA = "CONTACTGROUPDEFINITION" ->
             handle_contactgroupdefinition(w, m)
      [] m.DATA = "STARTCONFIGDUMP" -> handle_configdumpstart(w, m)
      [] m.DATA = "ENDCONFIGDUMP" -> handle_configdumpend(w, m)

\* A message of idomod, in the child of ido2db that reads it.
handle_client_input(w, m) ==
    CASE m.DATA = "STARTCONFIGDUMP" ->
             end_input_data(update_config_dump(w, m), m)
      [] m.DATA = "ENDCONFIGDUMP" ->
             end_input_data([update_config_dump(w, m)
                             EXCEPT !.cleared = FALSE], m)
      [] OTHER -> end_input_data(w, m)
=============================================================================
