----------------------------- MODULE IdoOracle -----------------------------
(***************************************************************************)
(* How ido2db writes each table on an Oracle server: the statements that     *)
(* db.c prepares when it connects, ido2db_oci_prepared_statement_...  The     *)
(* columns of a statement are those of the ON clause of its MERGE or of the  *)
(* WHERE clause of its UPDATE or DELETE.                                     *)
(***************************************************************************)
EXTENDS TLC

LOCAL D == INSTANCE IdoDirect

LOCAL ByKey(columns) == D!ByKey(columns)
LOCAL ByKeyKeeping(columns, kept) == D!ByKeyKeeping(columns, kept)
LOCAL Append == D!Append

processevents == Append
flappinghistory == Append
externalcommands == Append
acknowledgements == Append
statehistory == Append
hoststatus == ByKey({"host_object_id"})
hostchecks == Append
servicestatus == ByKey({"service_object_id"})
servicechecks == Append
contactnotificationcommands ==
    ByKey({"instance_id", "contact_id", "notification_type",
           "command_object_id"})
programstatus == ByKey({"instance_id"})
programstatus_update == ByKey({"instance_id"})
programstatus_progress == ByKey({"instance_id"})
systemcommands == ByKey({"instance_id", "start_time", "start_time_usec"})
eventhandlers == ByKey({"instance_id", "start_time", "start_time_usec"})
notifications ==
    ByKey({"instance_id", "start_time", "start_time_usec", "object_id"})
contactnotifications ==
    ByKey({"instance_id", "contact_object_id", "start_time",
           "start_time_usec"})
contactnotificationmethods ==
    ByKey({"instance_id", "contactnotification_id", "start_time",
           "start_time_usec"})
comments ==
    ByKeyKeeping({"instance_id", "comment_time", "internal_comment_id"},
                  {"entry_time", "entry_time_usec"})
commenthistory ==
    ByKeyKeeping({"instance_id", "comment_time", "internal_comment_id"},
                  {"entry_time", "entry_time_usec"})
comment_history_update ==
    ByKey({"instance_id", "comment_time", "internal_comment_id"})
scheduleddowntime ==
    ByKey({"instance_id", "object_id", "entry_time", "internal_downtime_id"})
downtimehistory ==
    ByKey({"instance_id", "object_id", "entry_time", "internal_downtime_id"})
downtimehistory_update_start ==
    ByKey({"instance_id", "downtime_type", "object_id", "entry_time",
           "scheduled_start_time", "scheduled_end_time", "was_started"})
scheduleddowntime_update_start ==
    ByKey({"instance_id", "downtime_type", "object_id", "entry_time",
           "scheduled_start_time", "scheduled_end_time", "was_started"})
downtimehistory_update_stop ==
    ByKey({"instance_id", "downtime_type", "object_id", "entry_time",
           "scheduled_start_time", "scheduled_end_time"})
contactstatus == ByKey({"contact_object_id"})
configfiles == ByKey({"instance_id"})
hosts == ByKey({"instance_id", "config_type", "host_object_id"})
hostgroups == ByKey({"instance_id", "hostgroup_object_id"})
services == ByKey({"instance_id", "config_type", "service_object_id"})
servicegroups ==
    ByKey({"instance_id", "config_type", "servicegroup_object_id"})
hostdependencies ==
    ByKey({"instance_id", "config_type", "host_object_id",
           "dependent_host_object_id", "dependency_type", "inherits_parent",
           "fail_on_up", "fail_on_down", "fail_on_unreachable"})
servicedependencies ==
    ByKey({"instance_id", "config_type", "service_object_id",
           "dependent_service_object_id", "dependency_type", "inherits_parent",
           "fail_on_ok", "fail_on_warning", "fail_on_unknown",
           "fail_on_critical"})
hostescalations ==
    ByKey({"instance_id", "config_type", "host_object_id",
           "timeperiod_object_id", "first_notification", "last_notification"})
hostescalationcontactgroups ==
    ByKey({"hostescalation_id", "contactgroup_object_id"})
hostescalationcontacts == ByKey({"instance_id"})
serviceescalations ==
    ByKey({"instance_id", "config_type", "service_object_id",
           "timeperiod_object_id", "first_notification", "last_notification"})
serviceescalationcontactgroups ==
    ByKey({"serviceescalation_id", "contactgroup_object_id"})
serviceescalationcontacts == ByKey({"instance_id"})
commands == ByKey({"instance_id", "object_id", "config_type"})
timeperiods == ByKey({"instance_id", "config_type", "timeperiod_object_id"})
contacts == ByKey({"instance_id", "config_type", "contact_object_id"})
contactaddresses == ByKey({"contact_id", "address_number"})
customvariables == ByKey({"object_id", "varname"})
customvariablestatus == ByKey({"object_id", "varname"})
contactgroups ==
    ByKey({"instance_id", "config_type", "contactgroup_object_id"})
comments_delete ==
    ByKey({"instance_id", "comment_time", "internal_comment_id"})
downtime_delete ==
    ByKey({"instance_id", "downtime_type", "object_id", "entry_time",
           "scheduled_start_time", "scheduled_end_time"})

\* The statement of each table; the handlers write the other tables directly.
Statements ==
    [ processevents |-> processevents, flappinghistory |-> flappinghistory,
      externalcommands |-> externalcommands,
      acknowledgements |-> acknowledgements, statehistory |-> statehistory,
      hoststatus |-> hoststatus, hostchecks |-> hostchecks,
      servicestatus |-> servicestatus, servicechecks |-> servicechecks,
      contactnotificationcommands |-> contactnotificationcommands,
      programstatus |-> programstatus,
      programstatus_update |-> programstatus_update,
      programstatus_progress |-> programstatus_progress,
      systemcommands |-> systemcommands, eventhandlers |-> eventhandlers,
      notifications |-> notifications,
      contactnotifications |-> contactnotifications,
      contactnotificationmethods |-> contactnotificationmethods,
      comments |-> comments, commenthistory |-> commenthistory,
      comment_history_update |-> comment_history_update,
      scheduleddowntime |-> scheduleddowntime,
      downtimehistory |-> downtimehistory,
      downtimehistory_update_start |-> downtimehistory_update_start,
      scheduleddowntime_update_start |-> scheduleddowntime_update_start,
      downtimehistory_update_stop |-> downtimehistory_update_stop,
      contactstatus |-> contactstatus, configfiles |-> configfiles,
      hosts |-> hosts, hostgroups |-> hostgroups, services |-> services,
      servicegroups |-> servicegroups, hostdependencies |-> hostdependencies,
      servicedependencies |-> servicedependencies,
      hostescalations |-> hostescalations,
      hostescalationcontactgroups |-> hostescalationcontactgroups,
      hostescalationcontacts |-> hostescalationcontacts,
      serviceescalations |-> serviceescalations,
      serviceescalationcontactgroups |-> serviceescalationcontactgroups,
      serviceescalationcontacts |-> serviceescalationcontacts,
      commands |-> commands, timeperiods |-> timeperiods,
      contacts |-> contacts, contactaddresses |-> contactaddresses,
      customvariables |-> customvariables,
      customvariablestatus |-> customvariablestatus,
      contactgroups |-> contactgroups, comments_delete |-> comments_delete,
      downtime_delete |-> downtime_delete ]
    @@ D!Direct
=============================================================================
