-------------------------- MODULE ObjectDirectives --------------------------
(* The directives an object definition may give, type by type, and how far  *)
(* each one travels through xdata/xodtemplate.c: read from the file, taken  *)
(* from templates, copied to the other hosts of the definition, written to  *)
(* the object cache, handed to the daemon.  Each stage is a hand-written    *)
(* list of fields in the code, several hundred lines per type; a stage that *)
(* forgets a field compiles and runs.  Synonyms (hosts, host_name; gd2_image,*)
(* statusmap_image; ...) are named by the field they fill.  The directives  *)
(* use, name and register are not fields of the object and are not here.    *)
(*                                                                          *)
(* names    : plain text; unset is NULL, and the word null is text like any *)
(* texts    : text with a have flag; null sets the flag and leaves NULL     *)
(* lists    : like texts, and a leading + adds to the inherited value       *)
(* settings : a number or a set of options, with a have flag                *)
(* custom stands for the custom variables, which behave like texts.         *)

Kinds(n, t, l, s) == [names |-> n, texts |-> t, lists |-> l, settings |-> s]

All(kinds) == kinds.names \cup kinds.texts \cup kinds.lists \cup kinds.settings

-----------------------------------------------------------------------------
(* What each type accepts, and the kind of each directive.                  *)

Web == {"notes", "notes_url", "action_url"}
Icons == {"icon_image", "icon_image_alt"}
Retain == {"retain_status_information", "retain_nonstatus_information"}

TimeperiodKinds == Kinds({"timeperiod_name", "alias", "exclude"}, {}, {}, {})

CommandKinds == Kinds({"command_name", "command_line"}, {}, {}, {})

ContactgroupKinds ==
  Kinds({"contactgroup_name", "alias"}, {}, {"members", "contactgroup_members"}, {})

HostgroupKinds ==
  Kinds({"hostgroup_name", "alias"}, Web, {"members", "hostgroup_members"}, {})

ServicegroupKinds ==
  Kinds({"servicegroup_name", "alias"}, Web, {"members", "servicegroup_members"}, {})

DependencySettings ==
  {"inherits_parent", "execution_failure_options", "notification_failure_options"}

ServicedependencyLists ==
  {"servicegroup_name", "hostgroup_name", "host_name", "service_description",
   "dependent_servicegroup_name", "dependent_hostgroup_name",
   "dependent_host_name", "dependent_service_description"}

ServicedependencyKinds ==
  Kinds({}, {"dependency_period"}, ServicedependencyLists, DependencySettings)

EscalationSettings == {"first_notification", "last_notification",
                       "notification_interval", "escalation_options"}

ServiceescalationSettings ==
  EscalationSettings \cup
  {"first_warning_notification", "last_warning_notification",
   "first_critical_notification", "last_critical_notification",
   "first_unknown_notification", "last_unknown_notification"}

ServiceescalationKinds ==
  Kinds({"escalation_condition"}, {"escalation_period"},
        {"servicegroup_name", "hostgroup_name", "host_name",
         "service_description", "contact_groups", "contacts"},
        ServiceescalationSettings)

ContactSettings ==
  Retain \cup
  {"host_notification_options", "service_notification_options",
   "host_notifications_enabled", "service_notifications_enabled",
   "can_submit_commands"}

ContactKinds ==
  Kinds({"contact_name", "alias"},
        {"email", "pager", "address", "host_notification_period",
         "service_notification_period", "custom"},
        {"contact_groups", "host_notification_commands",
         "service_notification_commands"},
        ContactSettings)

HostTexts ==
  Web \cup Icons \cup
  {"display_name", "check_command", "check_period", "event_handler",
   "notification_period", "failure_prediction_options", "vrml_image",
   "statusmap_image", "custom"}

CheckedSettings ==
  Retain \cup
  {"initial_state", "check_interval", "retry_interval", "max_check_attempts",
   "active_checks_enabled", "passive_checks_enabled", "event_handler_enabled",
   "check_freshness", "freshness_threshold", "low_flap_threshold",
   "high_flap_threshold", "flap_detection_enabled", "flap_detection_options",
   "notification_options", "notifications_enabled", "notification_interval",
   "first_notification_delay", "stalking_options", "process_perf_data",
   "failure_prediction_enabled"}

HostSettings ==
  CheckedSettings \cup {"obsess_over_host", "2d_coords", "3d_coords"}

HostKinds ==
  Kinds({"host_name", "alias", "address", "address6"}, HostTexts,
        {"parents", "hostgroups", "contact_groups", "contacts"}, HostSettings)

ServiceTexts ==
  Web \cup Icons \cup
  {"service_description", "display_name", "check_period", "event_handler",
   "notification_period", "failure_prediction_options", "custom"}

ServiceSettings ==
  CheckedSettings \cup {"parallelize_check", "is_volatile", "obsess_over_service"}

ServiceKinds ==
  Kinds({}, ServiceTexts,
        {"host_name", "hostgroup_name", "servicegroups", "contact_groups", "contacts"},
        ServiceSettings)

(* A service's check_command follows a rule of its own: a template whose    *)
(* value is written with a leading ! wins over the service's own.           *)
Important == "check_command"

HostdependencyKinds ==
  Kinds({}, {"dependency_period"},
        {"host_name", "hostgroup_name", "dependent_host_name",
         "dependent_hostgroup_name"},
        DependencySettings)

HostescalationSettings ==
  EscalationSettings \cup
  {"first_down_notification", "last_down_notification",
   "first_unreachable_notification", "last_unreachable_notification"}

HostescalationKinds ==
  Kinds({"escalation_condition"}, {"escalation_period"},
        {"host_name", "hostgroup_name", "contact_groups", "contacts"},
        HostescalationSettings)

HostextinfoKinds ==
  Kinds({}, Web \cup Icons \cup {"host_name", "hostgroup_name", "vrml_image",
                                 "statusmap_image"},
        {}, {"2d_coords", "3d_coords"})

ServiceextinfoKinds ==
  Kinds({}, Web \cup Icons \cup {"host_name", "hostgroup_name",
                                 "service_description"}, {}, {})

ModuleKinds == Kinds({"module_name", "module_type", "path", "args"}, {}, {}, {})

KindsOf ==
  [timeperiod |-> TimeperiodKinds, command |-> CommandKinds,
   contactgroup |-> ContactgroupKinds, hostgroup |-> HostgroupKinds,
   servicegroup |-> ServicegroupKinds, contact |-> ContactKinds,
   host |-> HostKinds, service |-> ServiceKinds, module |-> ModuleKinds,
   servicedependency |-> ServicedependencyKinds,
   serviceescalation |-> ServiceescalationKinds,
   hostdependency |-> HostdependencyKinds, hostescalation |-> HostescalationKinds,
   hostextinfo |-> HostextinfoKinds, serviceextinfo |-> ServiceextinfoKinds]

Types == DOMAIN KindsOf

Given == [type \in Types |-> All(KindsOf[type]) \cup
                             (IF type = "service" THEN {Important} ELSE {})]

-----------------------------------------------------------------------------
(* Which of them are taken from a template (the xodtemplate_resolve         *)
(* functions).                                                              *)

TimeperiodInherited == Given.timeperiod
CommandInherited == Given.command
ContactgroupInherited == Given.contactgroup
HostgroupInherited == Given.hostgroup
ServicegroupInherited == Given.servicegroup
ServicedependencyInherited == Given.servicedependency
ServiceescalationInherited == Given.serviceescalation \ {"escalation_condition"}
ContactInherited == Given.contact
HostInherited == Given.host
ServiceInherited == Given.service
HostdependencyInherited == Given.hostdependency
HostescalationInherited == Given.hostescalation \ {"escalation_condition"}
HostextinfoInherited == Given.hostextinfo
ServiceextinfoInherited == Given.serviceextinfo
ModuleInherited == Given.module

Inherited ==
  [timeperiod |-> TimeperiodInherited, command |-> CommandInherited,
   contactgroup |-> ContactgroupInherited, hostgroup |-> HostgroupInherited,
   servicegroup |-> ServicegroupInherited, contact |-> ContactInherited,
   host |-> HostInherited, service |-> ServiceInherited, module |-> ModuleInherited,
   servicedependency |-> ServicedependencyInherited,
   serviceescalation |-> ServiceescalationInherited,
   hostdependency |-> HostdependencyInherited,
   hostescalation |-> HostescalationInherited,
   hostextinfo |-> HostextinfoInherited, serviceextinfo |-> ServiceextinfoInherited]

-----------------------------------------------------------------------------
(* Which of them a copy of the definition for another host carries (the     *)
(* xodtemplate_duplicate functions).  The group directives are spent then.  *)

ServiceCopied == Given.service \ {"hostgroup_name"}
HostescalationCopied == Given.hostescalation \ {"hostgroup_name"}
ServiceescalationCopied ==
  Given.serviceescalation \ {"hostgroup_name", "servicegroup_name"}
HostdependencyCopied ==
  Given.hostdependency \ {"hostgroup_name", "dependent_hostgroup_name"}
ServicedependencyCopied == Given.servicedependency
HostextinfoCopied == Given.hostextinfo \ {"hostgroup_name"}
ServiceextinfoCopied == Given.serviceextinfo \ {"hostgroup_name"}

Copied ==
  [service |-> ServiceCopied, hostescalation |-> HostescalationCopied,
   serviceescalation |-> ServiceescalationCopied,
   hostdependency |-> HostdependencyCopied,
   servicedependency |-> ServicedependencyCopied,
   hostextinfo |-> HostextinfoCopied, serviceextinfo |-> ServiceextinfoCopied]

(* Which fields of an extended information object go into its host or       *)
(* service when those have none (the xodtemplate_merge functions).          *)
HostMerged == Given.hostextinfo \ {"host_name", "hostgroup_name"}
ServiceMerged ==
  Given.serviceextinfo \ {"host_name", "hostgroup_name", "service_description"}

-----------------------------------------------------------------------------
(* Which of them are handed to the daemon (the xodtemplate_register         *)
(* functions).                                                              *)

TimeperiodRegistered == Given.timeperiod
CommandRegistered == Given.command
ContactgroupRegistered == Given.contactgroup \ {"contactgroup_members"}
HostgroupRegistered == Given.hostgroup \ {"hostgroup_members"}
ServicegroupRegistered == Given.servicegroup \ {"servicegroup_members"}
ServicedependencyRegistered ==
  Given.servicedependency \ {"hostgroup_name", "servicegroup_name",
                             "dependent_hostgroup_name",
                             "dependent_servicegroup_name"}
ServiceescalationRegistered ==
  Given.serviceescalation \ {"hostgroup_name", "servicegroup_name"}
ContactRegistered == Given.contact \ {"contact_groups"}
HostRegistered == Given.host \ {"hostgroups"}
ServiceRegistered == Given.service \ {"hostgroup_name", "servicegroups"}
HostdependencyRegistered ==
  Given.hostdependency \ {"hostgroup_name", "dependent_hostgroup_name"}
HostescalationRegistered == Given.hostescalation \ {"hostgroup_name"}
ModuleRegistered == Given.module

Registered ==
  [timeperiod |-> TimeperiodRegistered, command |-> CommandRegistered,
   contactgroup |-> ContactgroupRegistered, hostgroup |-> HostgroupRegistered,
   servicegroup |-> ServicegroupRegistered, contact |-> ContactRegistered,
   host |-> HostRegistered, service |-> ServiceRegistered,
   module |-> ModuleRegistered,
   servicedependency |-> ServicedependencyRegistered,
   serviceescalation |-> ServiceescalationRegistered,
   hostdependency |-> HostdependencyRegistered,
   hostescalation |-> HostescalationRegistered]

-----------------------------------------------------------------------------
(* Which of them the object cache file holds (xodtemplate_cache_objects),   *)
(* and so what a daemon started from the precached file can know.           *)

TimeperiodCached == Given.timeperiod
CommandCached == Given.command
ContactgroupCached == Given.contactgroup \ {"contactgroup_members"}
HostgroupCached == Given.hostgroup \ {"hostgroup_members"}
ServicegroupCached == Given.servicegroup \ {"servicegroup_members"}
ContactCached == Given.contact \ {"contact_groups"}

\* Mutant: a field of the host was forgotten when the cache is written.
HostCachedForgetful == Given.host \ {"hostgroups", "notes"}

HostCached == Given.host \ {"hostgroups"}
ServiceCached == Given.service \ {"hostgroup_name", "servicegroups"}
ServicedependencyCached ==
  Given.servicedependency \ {"hostgroup_name", "servicegroup_name",
                             "dependent_hostgroup_name",
                             "dependent_servicegroup_name"}
ServiceescalationCached ==
  Given.serviceescalation \ {"hostgroup_name", "servicegroup_name",
                             "escalation_condition"}
HostdependencyCached ==
  Given.hostdependency \ {"hostgroup_name", "dependent_hostgroup_name"}
HostescalationCached ==
  Given.hostescalation \ {"hostgroup_name", "escalation_condition"}
ModuleCached == Given.module

Cached ==
  [timeperiod |-> TimeperiodCached, command |-> CommandCached,
   contactgroup |-> ContactgroupCached, hostgroup |-> HostgroupCached,
   servicegroup |-> ServicegroupCached, contact |-> ContactCached,
   host |-> HostCached, service |-> ServiceCached, module |-> ModuleCached,
   servicedependency |-> ServicedependencyCached,
   serviceescalation |-> ServiceescalationCached,
   hostdependency |-> HostdependencyCached,
   hostescalation |-> HostescalationCached]
=============================================================================
