----------------------------- MODULE IdoPgsql -----------------------------
(***************************************************************************)
(* How ido2db writes each table on a PostgreSQL server: the PGSQL branches   *)
(* of dbqueries.c.  Such a query is an UPDATE of the row that has the key,   *)
(* followed by an INSERT when it affects no row.                             *)
(***************************************************************************)
EXTENDS IdoDirect, TLC

systemcommands == ByKey({"instance_id", "start_time", "start_time_usec"})
eventhandlers == ByKey({"instance_id", "start_time", "start_time_usec"})
notifications ==
    ByKey({"instance_id", "start_time", "start_time_usec", "object_id"})
contactnotifications ==
    ByKey({"instance_id", "contact_object_id", "start_time",
           "start_time_usec"})
contactnotificationmethods ==
    ByKey({"instance_id", "contactnotification_id", "start_time",
           "start_time_usec"})
servicechecks == Append
hostchecks == Append
comments ==
    ByKeyKeeping({"instance_id", "comment_time", "internal_comment_id"},
                  {"entry_time", "entry_time_usec"})
commenthistory ==
    ByKeyKeeping({"instance_id", "comment_time", "internal_comment_id"},
                  {"entry_time", "entry_time_usec"})
scheduleddowntime ==
    ByKey({"instance_id", "object_id", "entry_time", "internal_downtime_id"})
downtimehistory ==
    ByKey({"instance_id", "object_id", "entry_time", "internal_downtime_id"})
programstatus == ByKey({"instance_id"})
hoststatus == ByKey({"host_object_id"})
servicestatus == ByKey({"service_object_id"})
contactstatus == ByKey({"contact_object_id"})
configfiles == ByKey({"instance_id", "configfile_type", "configfile_path"})
hosts == ByKey({"instance_id", "config_type", "host_object_id"})
hostgroups == ByKey({"instance_id", "hostgroup_object_id"})
services == ByKey({"instance_id", "config_type", "service_object_id"})
servicegroups ==
    ByKey({"instance_id", "config_type", "servicegroup_object_id"})
hostdependencies ==
    ByKey({"instance_id", "config_type", "host_object_id",
           "dependent_host_object_id", "dependency_type", "inherits_parent",
           "fail_on_up", "fail_on_down", "fail_on_unreachable"})
servicedependencies ==
    ByKey({"instance_id", "config_type", "service_object_id",
           "dependent_service_object_id", "dependency_type", "inherits_parent",
           "fail_on_ok", "fail_on_warning", "fail_on_unknown",
           "fail_on_critical"})
hostescalations ==
    ByKey({"instance_id", "config_type", "host_object_id",
           "timeperiod_object_id", "first_notification", "last_notification"})
hostescalationcontactgroups ==
    ByKey({"hostescalation_id", "contactgroup_object_id"})
hostescalationcontacts ==
    ByKey({"instance_id", "hostescalation_id", "contact_object_id"})
serviceescalations ==
    ByKey({"instance_id", "config_type", "service_object_id",
           "timeperiod_object_id", "first_notification", "last_notification"})
serviceescalationcontactgroups ==
    ByKey({"serviceescalation_id", "contactgroup_object_id"})
serviceescalationcontacts ==
    ByKey({"instance_id", "serviceescalation_id", "contact_object_id"})
commands == ByKey({"instance_id", "object_id", "config_type"})
timeperiods == ByKey({"instance_id", "config_type", "timeperiod_object_id"})
contacts == ByKey({"instance_id", "config_type", "contact_object_id"})
contactaddresses == ByKey({"contact_id", "address_number"})
contactnotificationcommands ==
    ByKey({"instance_id", "contact_id", "notification_type",
           "command_object_id"})
customvariables == ByKey({"object_id", "varname"})
customvariablestatus == ByKey({"object_id", "varname"})
contactgroups ==
    ByKey({"instance_id", "config_type", "contactgroup_object_id"})

\* The statement of each table; the handlers write the other tables directly.
Statements ==
    [ systemcommands |-> systemcommands, eventhandlers |-> eventhandlers,
      notifications |-> notifications,
      contactnotifications |-> contactnotifications,
      contactnotificationmethods |-> contactnotificationmethods,
      servicechecks |-> servicechecks, hostchecks |-> hostchecks,
      comments |-> comments, commenthistory |-> commenthistory,
      scheduleddowntime |-> scheduleddowntime,
      downtimehistory |-> downtimehistory, programstatus |-> programstatus,
      hoststatus |-> hoststatus, servicestatus |-> servicestatus,
      contactstatus |-> contactstatus, configfiles |-> configfiles,
      hosts |-> hosts, hostgroups |-> hostgroups, services |-> services,
      servicegroups |-> servicegroups, hostdependencies |-> hostdependencies,
      servicedependencies |-> servicedependencies,
      hostescalations |-> hostescalations,
      hostescalationcontactgroups |-> hostescalationcontactgroups,
      hostescalationcontacts |-> hostescalationcontacts,
      serviceescalations |-> serviceescalations,
      serviceescalationcontactgroups |-> serviceescalationcontactgroups,
      serviceescalationcontacts |-> serviceescalationcontacts,
      commands |-> commands, timeperiods |-> timeperiods,
      contacts |-> contacts, contactaddresses |-> contactaddresses,
      contactnotificationcommands |-> contactnotificationcommands,
      customvariables |-> customvariables,
      customvariablestatus |-> customvariablestatus,
      contactgroups |-> contactgroups ]
    @@ Direct
=============================================================================
