------------------------------ MODULE IdoSeen ------------------------------
(***************************************************************************)
(* What a reader finds in the database: the facts of IdoRecord that the rows *)
(* of a world of IdoHandlers say, with the ids of other rows followed.       *)
(***************************************************************************)
EXTENDS IdoHandlers

LOCAL Fact(table, key, says) == <<table, key, says>>

\* The names of an object.
Name(o) == IF o = NoObject THEN "" ELSE o[2]
ServiceName(o) == <<o[2], o[3]>>

RowsOf(w, table, id) == {r \in w.rows[table] : r.id = id}

Dump(r) == IF r.config_type = 1 THEN "RETAINED" ELSE "ORIGINAL"

StartOf(r) == [sec |-> r.start_time, usec |-> r.start_time_usec]
SpanOf(r) == <<r.end_time, r.rest>>

\* A column that only some rows have.
Column(r, column, otherwise) ==
    IF column \in DOMAIN r THEN r[column] ELSE otherwise

-----------------------------------------------------------------------------
(* The key of a row, by its table.                                          *)

EscalationKey(about, r) ==
    <<about, Dump(r), Name(r.timeperiod_object_id), r.first_notification,
      r.last_notification>>

LOCAL FailOn(r) ==
    {c \in {"up", "down", "unreachable"} :
        \/ c = "up" /\ r.fail_on_up
        \/ c = "down" /\ r.fail_on_down
        \/ c = "unreachable" /\ r.fail_on_unreachable}

LOCAL ServiceFailOn(r) ==
    {c \in {"ok", "warning", "unknown", "critical"} :
        \/ c = "ok" /\ r.fail_on_ok
        \/ c = "warning" /\ r.fail_on_warning
        \/ c = "unknown" /\ r.fail_on_unknown
        \/ c = "critical" /\ r.fail_on_critical}

OwnKey(table, r) ==
    CASE table \in {"systemcommands", "servicechecks", "hostchecks",
                    "eventhandlers"} -> StartOf(r)
      [] table = "notifications" -> <<r.object_id, r.start_time>>
      [] table = "contactnotifications" ->
             <<Name(r.contact_object_id), StartOf(r)>>
      [] table \in {"processevents", "flappinghistory"} -> r.event_time
      [] table = "acknowledgements" -> r.entry_time
      [] table \in {"logentries", "externalcommands"} -> <<r.entry_time, r.rest>>
      [] table = "statehistory" -> r.state_time
      [] table \in {"comments", "commenthistory"} ->
             <<r.comment_time, r.internal_comment_id>>
      [] table \in {"scheduleddowntime", "downtimehistory"} ->
             <<r.object_id, r.entry_time, r.internal_downtime_id>>
      [] table \in {"programstatus", "runtimevariables"} -> "core"
      [] table = "hoststatus" -> r.host_object_id
      [] table = "servicestatus" -> r.service_object_id
      [] table = "contactstatus" -> r.contact_object_id
      [] table = "customvariablestatus" -> <<r.object_id, r.varname>>
      [] table = "hosts" -> <<Name(r.host_object_id), Dump(r)>>
      [] table = "services" ->
             ServiceName(r.service_object_id) \o <<Dump(r)>>
      [] table = "contacts" -> <<Name(r.contact_object_id), Dump(r)>>
      [] table = "hostgroups" -> Name(r.hostgroup_object_id)
      [] table = "servicegroups" -> <<Name(r.servicegroup_object_id), Dump(r)>>
      [] table = "contactgroups" -> <<Name(r.contactgroup_object_id), Dump(r)>>
      [] table = "commands" -> <<Name(r.object_id), Dump(r)>>
      [] table = "timeperiods" -> <<Name(r.timeperiod_object_id), Dump(r)>>
      [] table = "hostescalations" ->
             EscalationKey(Name(r.host_object_id), r)
      [] table = "serviceescalations" ->
             EscalationKey(ServiceName(r.service_object_id), r)
      [] table = "hostdependencies" ->
             <<Name(r.host_object_id), Name(r.dependent_host_object_id),
               r.dependency_type, r.inherits_parent, FailOn(r), Dump(r)>>
      [] table = "servicedependencies" ->
             <<ServiceName(r.service_object_id),
               ServiceName(r.dependent_service_object_id),
               r.dependency_type, r.inherits_parent, ServiceFailOn(r), Dump(r)>>
      [] table = "configfiles" -> r.configfile_path

\* The key of the row that an id stands for; no row has the id 0.
KeyAt(w, table, id) ==
    LET found == RowsOf(w, table, id)
    IN IF found = {} THEN << >>
       ELSE OwnKey(table, CHOOSE r \in found : TRUE)

\* The tables whose rows belong to a row of another one: that table, the column
\* with its id, and the column that tells the rows of one owner apart.
Belongs ==
    [hostparenthosts |-> <<"hosts", "host_id", "parent_host_object_id">>,
     hostcontactgroups |-> <<"hosts", "host_id", "contactgroup_object_id">>,
     hostcontacts |-> <<"hosts", "host_id", "contact_object_id">>,
     hostgroupmembers |-> <<"hostgroups", "hostgroup_id", "host_object_id">>,
     servicecontactgroups |->
         <<"services", "service_id", "contactgroup_object_id">>,
     servicecontacts |-> <<"services", "service_id", "contact_object_id">>,
     servicegroupmembers |->
         <<"servicegroups", "servicegroup_id", "service_object_id">>,
     hostescalationcontactgroups |->
         <<"hostescalations", "hostescalation_id", "contactgroup_object_id">>,
     hostescalationcontacts |->
         <<"hostescalations", "hostescalation_id", "contact_object_id">>,
     serviceescalationcontactgroups |->
         <<"serviceescalations", "serviceescalation_id",
           "contactgroup_object_id">>,
     serviceescalationcontacts |->
         <<"serviceescalations", "serviceescalation_id", "contact_object_id">>,
     contactgroupmembers |->
         <<"contactgroups", "contactgroup_id", "contact_object_id">>,
     contactaddresses |-> <<"contacts", "contact_id", "address_number">>,
     contactnotificationcommands |->
         <<"contacts", "contact_id", "command_object_id">>,
     timeperiodtimeranges |-> <<"timeperiods", "timeperiod_id", "rest">>,
     configfilevariables |-> <<"configfiles", "configfile_id", "varname">>]

-----------------------------------------------------------------------------
(* What a row says.                                                         *)

OwnSays(w, table, r) ==
    CASE table \in {"systemcommands", "notifications"} -> SpanOf(r)
      [] table = "servicechecks" -> <<r.service_object_id, SpanOf(r)>>
      [] table = "hostchecks" -> <<r.host_object_id, SpanOf(r)>>
      [] table = "eventhandlers" -> <<r.object_id, SpanOf(r)>>
      [] table = "contactnotifications" ->
             <<SpanOf(r), KeyAt(w, "notifications", r.notification_id)>>
      [] table = "processevents" -> r.event_type
      [] table = "flappinghistory" -> <<r.object_id, r.event_type>>
      [] table \in {"logentries", "externalcommands"} -> << >>
      [] table \in {"acknowledgements", "statehistory"} -> <<r.object_id, r.rest>>
      [] table = "comments" -> <<r.object_id, r.rest, r.entry_time>>
      [] table = "commenthistory" ->
             <<r.object_id, r.rest, Column(r, "deletion_time", 0)>>
      [] table = "scheduleddowntime" -> <<r.rest, r.actual_start_time>>
      [] table = "downtimehistory" ->
             <<r.rest, r.actual_start_time, Column(r, "actual_end_time", 0)>>
      [] table = "programstatus" ->
             <<r.status_update_time, r.is_currently_running, r.rest>>
      [] table \in {"hoststatus", "servicestatus"} ->
             <<r.status_update_time, Name(r.check_timeperiod_object_id), r.rest>>
      [] table = "contactstatus" -> <<r.status_update_time, r.rest>>
      [] table \in {"hosts", "services"} ->
             <<Name(r.check_command_object_id),
               Name(r.eventhandler_command_object_id),
               Name(r.notification_timeperiod_object_id),
               Name(r.check_timeperiod_object_id), r.rest>>
      [] table = "contacts" ->
             <<Name(r.host_timeperiod_object_id),
               Name(r.service_timeperiod_object_id), r.rest>>
      [] table = "hostgroups" -> <<Dump(r), r.rest>>
      [] table \in {"hostdependencies", "servicedependencies"} ->
             Name(r.timeperiod_object_id)
      [] table = "configfiles" -> ""
      [] OTHER -> r.rest

\* What belongs to a row is named as it was in its definition.
Member(table, r, column) ==
    CASE table = "servicegroupmembers" -> ServiceName(r[column])
      [] table \in {"contactaddresses", "timeperiodtimeranges",
                    "configfilevariables"} -> r[column]
      [] OTHER -> Name(r[column])

MemberFact(w, table, r, of) ==
    LET owner == KeyAt(w, of[1], r[of[2]])
        under == IF table = "contactnotificationcommands"
                 THEN <<owner, r.notification_type>> ELSE owner
    IN Fact(table, <<under, Member(table, r, of[3])>>,
            IF table \in {"contactaddresses", "configfilevariables"}
            THEN r.rest ELSE "")

\* The custom variables of a contact belong to its row.
VariableOf(w, o) ==
    IF o[1] = "ROW" THEN KeyAt(w, "contacts", o[2]) ELSE o

RowFact(w, table, r) ==
    CASE table \in DOMAIN Belongs -> MemberFact(w, table, r, Belongs[table])
      [] table = "contactnotificationmethods" ->
             Fact(table, <<StartOf(r), KeyAt(w, "contactnotifications",
                                             r.contactnotification_id)>>,
                  <<Name(r.command_object_id), SpanOf(r)>>)
      [] table = "customvariables" ->
             Fact(table, <<VariableOf(w, r.object_id), r.varname>>, r.rest)
      [] table = "runtimevariables" -> Fact(table, <<"core", r.varname>>, r.rest)
      [] OTHER -> Fact(table, OwnKey(table, r), OwnSays(w, table, r))

Seen(w) ==
    UNION {{RowFact(w, table, r) : r \in w.rows[table]} : table \in DOMAIN w.rows}
=============================================================================
