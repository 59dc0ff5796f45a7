---------------------------- MODULE IdoMessages ----------------------------
(***************************************************************************)
(* What idomod sends for each event of the broker and for each object of a   *)
(* configuration dump (idomod_broker_data and idomod_write_object_config of  *)
(* idomod.c).  An event is a record with the fields of its nebstruct, and    *)
(* with those of the object it points to; a message has the items of the     *)
(* protocol, named as in protoapi.h without IDO_DATA_.  All items that no    *)
(* handler of ido2db treats apart are one item, REST.                        *)
(***************************************************************************)
EXTENDS Sequences, TLC

CONSTANT ProcessOptions      \* the callbacks idomod_process_options selects

\* The type of an event is one of NEBTYPE_<what>_<phase>: here its phase.
Message(data, e) ==
    [DATA |-> data, TYPE |-> e.type, TIMESTAMP |-> e.timestamp]

Items(data, e, items) == items @@ Message(data, e)

OfObject(e) == [HOST |-> e.host_name, SERVICE |-> e.service_description]

Ran(e) == [STARTTIME |-> e.start_time, ENDTIME |-> e.end_time, REST |-> e.rest]

-----------------------------------------------------------------------------
(* The events of the broker.                                                *)

ProcessData(e) == Items("PROCESSDATA", e, [REST |-> e.rest])

LogData(e) ==
    Items("LOGDATA", e, [LOGENTRYTIME |-> e.entry_time, LOGENTRY |-> e.data]
                        @@ OfObject(e))

SystemCommandData(e) == Items("SYSTEMCOMMANDDATA", e, Ran(e))

\* The type of the event handler is in the event but not among the items.
EventHandlerData(e) ==
    Items("EVENTHANDLERDATA", e,
          [COMMANDNAME |-> e.command_name] @@ OfObject(e) @@ Ran(e))

NotificationData(e) ==
    Items("NOTIFICATIONDATA", e,
          [NOTIFICATIONTYPE |-> e.notification_type] @@ OfObject(e) @@ Ran(e))

ServiceCheckData(e) ==
    Items("SERVICECHECKDATA", e,
          [COMMANDNAME |-> e.command_name] @@ OfObject(e) @@ Ran(e))

HostCheckData(e) ==
    Items("HOSTCHECKDATA", e,
          [COMMANDNAME |-> e.command_name, HOST |-> e.host_name] @@ Ran(e))

CommentData(e) ==
    Items("COMMENTDATA", e,
          [COMMENTTYPE |-> e.comment_type, ENTRYTIME |-> e.entry_time,
           COMMENTID |-> e.comment_id, REST |-> e.rest] @@ OfObject(e))

DowntimeData(e) ==
    Items("DOWNTIMEDATA", e,
          [ATTRIBUTES |-> e.attr, DOWNTIMETYPE |-> e.downtime_type,
           ENTRYTIME |-> e.entry_time, STARTTIME |-> e.start_time,
           ENDTIME |-> e.end_time, DOWNTIMEID |-> e.downtime_id,
           DOWNTIMEISINEFFECT |-> e.is_in_effect,
           DOWNTIMETRIGGERTIME |-> e.trigger_time, REST |-> e.rest]
          @@ OfObject(e))

FlappingData(e) ==
    Items("FLAPPINGDATA", e,
          [FLAPPINGTYPE |-> e.flapping_type, REST |-> e.rest] @@ OfObject(e))

ProgramStatusData(e) == Items("PROGRAMSTATUSDATA", e, [REST |-> e.rest])

\* A status names the check period and the custom variables of the object.
HostStatusData(e) ==
    Items("HOSTSTATUSDATA", e,
          [HOST |-> e.host_name, HOSTCHECKPERIOD |-> e.check_period,
           CUSTOMVARIABLESTATUS |-> e.custom_variables, REST |-> e.rest])

ServiceStatusData(e) ==
    Items("SERVICESTATUSDATA", e,
          [SERVICECHECKPERIOD |-> e.check_period,
           CUSTOMVARIABLESTATUS |-> e.custom_variables, REST |-> e.rest]
          @@ OfObject(e))

ContactStatusData(e) ==
    Items("CONTACTSTATUSDATA", e,
          [CONTACTNAME |-> e.contact_name,
           CUSTOMVARIABLESTATUS |-> e.custom_variables, REST |-> e.rest])

\* ido2db has a handler for each kind of adaptive data, and none does a thing.
AdaptiveProgramData(e) == Items("ADAPTIVEPROGRAMDATA", e, [REST |-> e.rest])
AdaptiveHostData(e) ==
    Items("ADAPTIVEHOSTDATA", e, [HOST |-> e.host_name, REST |-> e.rest])
AdaptiveServiceData(e) ==
    Items("ADAPTIVESERVICEDATA", e, [REST |-> e.rest] @@ OfObject(e))
AdaptiveContactData(e) ==
    Items("ADAPTIVECONTACTDATA", e,
          [CONTACTNAME |-> e.contact_name, REST |-> e.rest])

ExternalCommandData(e) ==
    Items("EXTERNALCOMMANDDATA", e,
          [ENTRYTIME |-> e.entry_time, REST |-> e.rest])

AggregatedStatusData(e) == Message("AGGREGATEDSTATUSDATA", e)

RetentionData(e) == Message("RETENTIONDATA", e)

ContactNotificationData(e) ==
    Items("CONTACTNOTIFICATIONDATA", e,
          [CONTACTNAME |-> e.contact_name] @@ OfObject(e) @@ Ran(e))

ContactNotificationMethodData(e) ==
    Items("CONTACTNOTIFICATIONMETHODDATA", e,
          [CONTACTNAME |-> e.contact_name, COMMANDNAME |-> e.command_name]
          @@ OfObject(e) @@ Ran(e))

AcknowledgementData(e) ==
    Items("ACKNOWLEDGEMENTDATA", e,
          [ACKNOWLEDGEMENTTYPE |-> e.acknowledgement_type, REST |-> e.rest]
          @@ OfObject(e))

StateChangeData(e) ==
    Items("STATECHANGEDATA", e,
          [STATECHANGETYPE |-> e.statechange_type, REST |-> e.rest]
          @@ OfObject(e))

EventMessage(e) ==
    CASE e.callback = "PROCESS_DATA" -> ProcessData(e)
      [] e.callback = "LOG_DATA" -> LogData(e)
      [] e.callback = "SYSTEM_COMMAND_DATA" -> SystemCommandData(e)
      [] e.callback = "EVENT_HANDLER_DATA" -> EventHandlerData(e)
      [] e.callback = "NOTIFICATION_DATA" -> NotificationData(e)
      [] e.callback = "SERVICE_CHECK_DATA" -> ServiceCheckData(e)
      [] e.callback = "HOST_CHECK_DATA" -> HostCheckData(e)
      [] e.callback = "COMMENT_DATA" -> CommentData(e)
      [] e.callback = "DOWNTIME_DATA" -> DowntimeData(e)
      [] e.callback = "FLAPPING_DATA" -> FlappingData(e)
      [] e.callback = "PROGRAM_STATUS_DATA" -> ProgramStatusData(e)
      [] e.callback = "HOST_STATUS_DATA" -> HostStatusData(e)
      [] e.callback = "SERVICE_STATUS_DATA" -> ServiceStatusData(e)
      [] e.callback = "CONTACT_STATUS_DATA" -> ContactStatusData(e)
      [] e.callback = "ADAPTIVE_PROGRAM_DATA" -> AdaptiveProgramData(e)
      [] e.callback = "ADAPTIVE_HOST_DATA" -> AdaptiveHostData(e)
      [] e.callback = "ADAPTIVE_SERVICE_DATA" -> AdaptiveServiceData(e)
      [] e.callback = "ADAPTIVE_CONTACT_DATA" -> AdaptiveContactData(e)
      [] e.callback = "EXTERNAL_COMMAND_DATA" -> ExternalCommandData(e)
      [] e.callback = "AGGREGATED_STATUS_DATA" -> AggregatedStatusData(e)
      [] e.callback = "RETENTION_DATA" -> RetentionData(e)
      [] e.callback = "CONTACT_NOTIFICATION_DATA" -> ContactNotificationData(e)
      [] e.callback = "CONTACT_NOTIFICATION_METHOD_DATA" ->
             ContactNotificationMethodData(e)
      [] e.callback = "ACKNOWLEDGEMENT_DATA" -> AcknowledgementData(e)
      [] e.callback = "STATE_CHANGE_DATA" -> StateChangeData(e)

Wanted(e) ==
    /\ e.callback \in ProcessOptions
    /\ e.callback \in {"SERVICE_CHECK_DATA", "HOST_CHECK_DATA"} =>
           e.type = "PROCESSED"

-----------------------------------------------------------------------------
(* The objects of a configuration, in the order of the dump.                *)

Definition(data, now, o) == o @@ [DATA |-> data, TIMESTAMP |-> now]

CommandDefinition(now, o) ==
    Definition("COMMANDDEFINITION", now,
               [COMMANDNAME |-> o.name, REST |-> o.rest])

TimeperiodDefinition(now, o) ==
    Definition("TIMEPERIODDEFINITION", now,
               [TIMEPERIODNAME |-> o.name, TIMERANGE |-> o.days,
                REST |-> o.rest])

ContactLists(o) ==
    [CONTACTADDRESS |-> o.address,
     HOSTNOTIFICATIONCOMMAND |-> o.host_notification_commands,
     SERVICENOTIFICATIONCOMMAND |-> o.service_notification_commands,
     CUSTOMVARIABLE |-> o.custom_variables]

ContactDefinition(now, o) ==
    Definition("CONTACTDEFINITION", now,
               [CONTACTNAME |-> o.name,
                HOSTNOTIFICATIONPERIOD |-> o.host_notification_period,
                SERVICENOTIFICATIONPERIOD |-> o.service_notification_period,
                REST |-> o.rest] @@ ContactLists(o))

ContactgroupDefinition(now, o) ==
    Definition("CONTACTGROUPDEFINITION", now,
               [CONTACTGROUPNAME |-> o.group_name,
                CONTACTGROUPMEMBER |-> o.members, REST |-> o.rest])

HostLists(o) ==
    [PARENTHOST |-> o.parent_hosts, CONTACTGROUP |-> o.contact_groups,
     CONTACT |-> o.contacts, CUSTOMVARIABLE |-> o.custom_variables]

HostDefinition(now, o) ==
    Definition("HOSTDEFINITION", now,
               [HOSTNAME |-> o.name,
                HOSTCHECKCOMMAND |-> o.host_check_command,
                HOSTEVENTHANDLER |-> o.event_handler,
                HOSTNOTIFICATIONPERIOD |-> o.notification_period,
                HOSTCHECKPERIOD |-> o.check_period, REST |-> o.rest]
               @@ HostLists(o))

HostgroupDefinition(now, o) ==
    Definition("HOSTGROUPDEFINITION", now,
               [HOSTGROUPNAME |-> o.group_name, HOSTGROUPMEMBER |-> o.members,
                REST |-> o.rest])

ServiceLists(o) ==
    [CONTACTGROUP |-> o.contact_groups, CONTACT |-> o.contacts,
     CUSTOMVARIABLE |-> o.custom_variables]

ServiceDefinition(now, o) ==
    Definition("SERVICEDEFINITION", now,
               [HOSTNAME |-> o.host_name, SERVICEDESCRIPTION |-> o.description,
                SERVICECHECKCOMMAND |-> o.service_check_command,
                SERVICEEVENTHANDLER |-> o.event_handler,
                SERVICENOTIFICATIONPERIOD |-> o.notification_period,
                SERVICECHECKPERIOD |-> o.check_period, REST |-> o.rest]
               @@ ServiceLists(o))

ServicegroupDefinition(now, o) ==
    Definition("SERVICEGROUPDEFINITION", now,
               [SERVICEGROUPNAME |-> o.group_name,
                SERVICEGROUPMEMBER |-> o.members, REST |-> o.rest])

\* What host and service escalations have in common.
Escalation(o) ==
    [HOSTNAME |-> o.host_name, ESCALATIONPERIOD |-> o.escalation_period,
     FIRSTNOTIFICATION |-> o.first_notification,
     LASTNOTIFICATION |-> o.last_notification,
     CONTACTGROUP |-> o.contact_groups, CONTACT |-> o.contacts,
     REST |-> o.rest]

HostEscalationDefinition(now, o) ==
    Definition("HOSTESCALATIONDEFINITION", now, Escalation(o))

ServiceEscalationDefinition(now, o) ==
    Definition("SERVICEESCALATIONDEFINITION", now,
               [SERVICEDESCRIPTION |-> o.description] @@ Escalation(o))

Dependency(o) ==
    [HOSTNAME |-> o.host_name, DEPENDENTHOSTNAME |-> o.dependent_host_name,
     DEPENDENCYTYPE |-> o.dependency_type,
     INHERITSPARENT |-> o.inherits_parent,
     DEPENDENCYPERIOD |-> o.dependency_period, FAILON |-> o.fail_on]

HostDependencyDefinition(now, o) ==
    Definition("HOSTDEPENDENCYDEFINITION", now, Dependency(o))

ServiceDependencyDefinition(now, o) ==
    Definition("SERVICEDEPENDENCYDEFINITION", now,
               [SERVICEDESCRIPTION |-> o.service_description,
                DEPENDENTSERVICEDESCRIPTION |-> o.dependent_service_description]
               @@ Dependency(o))

LOCAL Each(list, Define(_, _), now) ==
    [i \in DOMAIN list |-> Define(now, list[i])]

ObjectConfig(now, c) ==
    Each(c.commands, CommandDefinition, now)
        \o Each(c.timeperiods, TimeperiodDefinition, now)
        \o Each(c.contacts, ContactDefinition, now)
        \o Each(c.contactgroups, ContactgroupDefinition, now)
        \o Each(c.hosts, HostDefinition, now)
        \o Each(c.hostgroups, HostgroupDefinition, now)
        \o Each(c.services, ServiceDefinition, now)
        \o Each(c.servicegroups, ServicegroupDefinition, now)
        \o Each(c.hostescalations, HostEscalationDefinition, now)
        \o Each(c.serviceescalations, ServiceEscalationDefinition, now)
        \o Each(c.hostdependencies, HostDependencyDefinition, now)
        \o Each(c.servicedependencies, ServiceDependencyDefinition, now)

\* The dump of a configuration, when the options of idomod select it.
ConfigDump(kind, now, c) ==
    IF kind \notin c.config_output_options THEN << >>
    ELSE << [DATA |-> "STARTCONFIGDUMP", CONFIGDUMPTYPE |-> kind,
             TIMESTAMP |-> now] >>
         \o (IF "OBJECT_CONFIG_DATA" \in ProcessOptions
             THEN ObjectConfig(now, c) ELSE << >>)
         \o << [DATA |-> "ENDCONFIGDUMP", TIMESTAMP |-> now] >>

MainConfigFile(now, c) ==
    [DATA |-> "MAINCONFIGFILEVARIABLES", TIMESTAMP |-> now,
     CONFIGFILENAME |-> c.config_file,
     CONFIGFILEVARIABLE |-> c.config_file_variables]

RuntimeVariables(now, c) ==
    [DATA |-> "RUNTIMEVARIABLES", TIMESTAMP |-> now,
     RUNTIMEVARIABLE |-> c.runtime_variables]

\* What follows the message of an event, given the configuration c.
PostProcessing(e, c) ==
    CASE e.callback = "PROCESS_DATA" /\ e.type = "START" ->
             << MainConfigFile(e.timestamp, c) >>
                 \o ConfigDump("ORIGINAL", e.timestamp, c)
      [] e.callback = "PROCESS_DATA" /\ e.type = "EVENTLOOPSTART" ->
             << RuntimeVariables(e.timestamp, c) >>
      [] e.callback = "RETENTION_DATA" /\ e.type = "ENDLOAD" ->
             ConfigDump("RETAINED", e.timestamp, c)
      [] OTHER -> << >>

\* The messages that idomod sends for an event.
Sent(e, c) ==
    IF Wanted(e) THEN << EventMessage(e) >> \o PostProcessing(e, c)
    ELSE << >>
=============================================================================
