--------------------------- MODULE MCIdoDatabase ---------------------------
(***************************************************************************)
(* Stories of a core with one host, one service of it and two contacts.      *)
(***************************************************************************)
EXTENDS IdoDatabase

AllCallbacks ==
    {"PROCESS_DATA", "LOG_DATA", "SYSTEM_COMMAND_DATA", "EVENT_HANDLER_DATA",
     "NOTIFICATION_DATA", "SERVICE_CHECK_DATA", "HOST_CHECK_DATA",
     "COMMENT_DATA", "DOWNTIME_DATA", "FLAPPING_DATA", "PROGRAM_STATUS_DATA",
     "HOST_STATUS_DATA", "SERVICE_STATUS_DATA", "CONTACT_STATUS_DATA",
     "ADAPTIVE_HOST_DATA", "EXTERNAL_COMMAND_DATA", "RETENTION_DATA",
     "CONTACT_NOTIFICATION_DATA", "CONTACT_NOTIFICATION_METHOD_DATA",
     "ACKNOWLEDGEMENT_DATA", "STATE_CHANGE_DATA", "OBJECT_CONFIG_DATA"}

-----------------------------------------------------------------------------
(* Configurations.                                                          *)

Nothing == << >>

NoConfig ==
    [config_output_options |-> {"RETAINED"},
     config_file |-> "icinga.cfg", config_file_variables |-> Nothing,
     runtime_variables |-> Nothing, commands |-> Nothing,
     timeperiods |-> Nothing, contacts |-> Nothing, contactgroups |-> Nothing,
     hosts |-> Nothing, hostgroups |-> Nothing, services |-> Nothing,
     servicegroups |-> Nothing, hostescalations |-> Nothing,
     serviceescalations |-> Nothing, hostdependencies |-> Nothing,
     servicedependencies |-> Nothing]

Host(name, parents, contacts, rest) ==
    [name |-> name, host_check_command |-> "check", event_handler |-> "",
     notification_period |-> "always", check_period |-> "",
     parent_hosts |-> parents, contact_groups |-> Nothing,
     contacts |-> contacts, custom_variables |-> Nothing, rest |-> rest]

Service(rest) ==
    [host_name |-> "h", description |-> "s", service_check_command |-> "check",
     event_handler |-> "check", notification_period |-> "",
     check_period |-> "always", contact_groups |-> <<"team">>,
     contacts |-> Nothing, custom_variables |-> << <<"v", "1">> >>,
     rest |-> rest]

Contact_(name, addresses) ==
    [name |-> name, host_notification_period |-> "always",
     service_notification_period |-> "always", address |-> addresses,
     host_notification_commands |-> <<"mail">>,
     service_notification_commands |-> <<"mail">>,
     custom_variables |-> << <<"v", name>> >>, rest |-> ""]

Group(name, members) ==
    [group_name |-> name, members |-> members, rest |-> ""]

Escalation == [escalation_period |-> "", first_notification |-> 2,
               last_notification |-> 0, contact_groups |-> <<"team">>,
               contacts |-> <<"a">>, host_name |-> "h", rest |-> ""]

Dependency == [host_name |-> "h", dependent_host_name |-> "i",
               dependency_type |-> 1, inherits_parent |-> 0,
               dependency_period |-> ""]

\* One object at least of each kind.
Everything ==
    [config_output_options |-> {"RETAINED"}, config_file |-> "icinga.cfg",
     config_file_variables |-> << <<"log_file", "l">>, <<"cfg_dir", "d">> >>,
     runtime_variables |-> << <<"total_hosts", "2">> >>,
     commands |-> << [name |-> "check", rest |-> ""],
                     [name |-> "mail", rest |-> ""] >>,
     timeperiods |-> << [name |-> "always", days |-> <<"mon", "tue">>,
                         rest |-> ""] >>,
     contacts |-> << Contact_("a", <<"", "one">>), Contact_("b", Nothing) >>,
     contactgroups |-> << Group("team", <<"a", "b">>) >>,
     hosts |-> << Host("h", Nothing, <<"a", "b">>, "1"),
                  Host("i", <<"h">>, Nothing, "1") >>,
     hostgroups |-> << Group("all", <<"h", "i">>) >>,
     services |-> << Service("1") >>,
     servicegroups |-> << Group("web", << <<"h", "s">> >>) >>,
     hostescalations |-> << Escalation >>,
     serviceescalations |-> << [description |-> "s"] @@ Escalation >>,
     hostdependencies |-> << [fail_on |-> {"down"}] @@ Dependency >>,
     servicedependencies |->
         << [service_description |-> "s", dependent_service_description |-> "s",
             fail_on |-> {"warning"}] @@ Dependency >>]

\* A small configuration, and what became of it when the core was started again.
Small == [NoConfig EXCEPT !.hosts = << Host("h", Nothing, <<"a">>, "1") >>,
                          !.services = << Service("1") >>,
                          !.hostgroups = << Group("all", <<"h">>) >>]

Changed == [NoConfig EXCEPT !.hosts = << Host("h", <<"i">>, Nothing, "2"),
                                         Host("i", Nothing, Nothing, "2") >>,
                            !.hostgroups = << Group("all", <<"i">>) >>]

-----------------------------------------------------------------------------
(* Events.                                                                  *)

Happens_(callback, type, fields) ==
    [do |-> "event", config |-> NoConfig,
     event |-> [callback |-> callback, type |-> type, rest |-> ""] @@ fields]

Process(type, config) ==
    [Happens_("PROCESS_DATA", type, [rest |-> "pid"]) EXCEPT !.config = config]

EndLoad(config) ==
    [Happens_("RETENTION_DATA", "ENDLOAD", [rest |-> ""])
     EXCEPT !.config = config]

Connect == [do |-> "connect"]
Again(j) == [do |-> "again", of |-> j, config |-> NoConfig]

OnHost == [host_name |-> "h", service_description |-> ""]
OnService == [host_name |-> "h", service_description |-> "s"]

\* What an event says of a notification: of it, of one of its contacts, or of a
\* command for a contact.
Notify(type, began, on, kind) ==
    Happens_("NOTIFICATION_DATA", type,
             [notification_type |-> kind, began |-> began, rest |-> type] @@ on)

NotifyContact(type, began, on, name) ==
    Happens_("CONTACT_NOTIFICATION_DATA", type,
             [contact_name |-> name, began |-> began] @@ on)

NotifyBy(type, began, on, name) ==
    Happens_("CONTACT_NOTIFICATION_METHOD_DATA", type,
             [contact_name |-> name, command_name |-> "mail",
              began |-> began] @@ on)

\* A notification of two contacts, and the start of another one.
Notifications ==
    << Notify("START", 0, OnHost, "HOST"),
       NotifyContact("START", 0, OnHost, "a"), NotifyBy("START", 0, OnHost, "a"),
       NotifyBy("END", 3, OnHost, "a"), NotifyContact("END", 2, OnHost, "a"),
       NotifyContact("START", 0, OnHost, "b"), NotifyContact("END", 6, OnHost, "b"),
       Notify("END", 1, OnHost, "HOST"),
       Notify("START", 0, OnService, "SERVICE"),
       NotifyContact("START", 0, OnService, "a") >>

Comment(type, on, kind, id, entry) ==
    Happens_("COMMENT_DATA", type,
             [comment_type |-> kind, comment_id |-> id, entry_time |-> entry,
              rest |-> "text"] @@ on)

Comments ==
    << Comment("ADD", OnHost, "HOST", 1, 1),
       Comment("ADD", OnService, "SERVICE", 2, 1),
       Comment("DELETE", OnHost, "HOST", 1, 1), Connect,
       Process("PRELAUNCH", NoConfig),
       Comment("LOAD", OnService, "SERVICE", 2, 1),
       Comment("DELETE", OnService, "SERVICE", 2, 1), Connect, Again(1),
       Again(2) >>

Downtime(type, id, attr) ==
    Happens_("DOWNTIME_DATA", type,
             [attr |-> attr, downtime_type |-> "SERVICE", entry_time |-> 1,
              start_time |-> 2, end_time |-> 3, downtime_id |-> id,
              is_in_effect |-> FALSE, trigger_time |-> 0,
              rest |-> "fixed"] @@ OnService)

Downtimes ==
    << Downtime("ADD", 1, ""), Downtime("START", 1, ""), Connect,
       Process("PRELAUNCH", NoConfig), Downtime("LOAD", 1, ""),
       Downtime("START", 1, ""), Downtime("STOP", 1, "STOP_NORMAL"),
       Downtime("DELETE", 1, ""), Again(1) >>

Status_(callback, fields) ==
    Happens_(callback, "UPDATE", [custom_variables |-> Nothing,
                                  check_period |-> ""] @@ fields)

HostStatus(rest) ==
    Status_("HOST_STATUS_DATA",
            [rest |-> rest, custom_variables |-> << <<"v", rest>> >>] @@ OnHost)

Statuses ==
    << Status_("PROGRAM_STATUS_DATA", [rest |-> "1"]), HostStatus("1"),
       Status_("SERVICE_STATUS_DATA", [check_period |-> "always"] @@ OnService),
       Status_("CONTACT_STATUS_DATA", [contact_name |-> "a"]),
       HostStatus("2"), Process("SHUTDOWN", NoConfig), Connect,
       Again(2), Again(1), HostStatus("3") >>

Ran_(callback, type, began, fields) ==
    Happens_(callback, type, [began |-> began, command_name |-> "check"] @@ fields)

Runs ==
    << Ran_("SYSTEM_COMMAND_DATA", "START", 0, OnHost),
       Ran_("SYSTEM_COMMAND_DATA", "END", 1, OnHost),
       Ran_("SERVICE_CHECK_DATA", "INITIATE", 0, OnService),
       Ran_("SERVICE_CHECK_DATA", "PROCESSED", 0, OnService),
       Ran_("HOST_CHECK_DATA", "PROCESSED", 0, OnHost),
       Ran_("EVENT_HANDLER_DATA", "START", 0, OnService),
       Ran_("EVENT_HANDLER_DATA", "END", 6, OnService) >>

Changes ==
    << Happens_("STATE_CHANGE_DATA", "END",
                [statechange_type |-> "SERVICE"] @@ OnService),
       Happens_("FLAPPING_DATA", "START", [flapping_type |-> "HOST"] @@ OnHost),
       Happens_("LOG_DATA", "DATA",
                [entry_time |-> 1, data |-> "line", host_name |-> "",
                 service_description |-> ""]),
       Happens_("ACKNOWLEDGEMENT_DATA", "ADD",
                [acknowledgement_type |-> "SERVICE"] @@ OnService),
       Happens_("EXTERNAL_COMMAND_DATA", "START", [entry_time |-> 1]),
       Happens_("EXTERNAL_COMMAND_DATA", "END", [entry_time |-> 1]),
       Happens_("ADAPTIVE_HOST_DATA", "UPDATE", OnHost) >>

Launch(config) ==
    << Process("PRELAUNCH", config), Process("START", config), EndLoad(config),
       Process("EVENTLOOPSTART", config) >>

Launches(dumps) ==
    Launch([Small EXCEPT !.config_output_options = dumps])
        \o << Process("SHUTDOWN", NoConfig), Connect >>
        \o Launch([Changed EXCEPT !.config_output_options = dumps])

TheStories == << Notifications, Comments, Downtimes, Statuses, Runs,
                 Changes, Launch(Everything), Launches({"RETAINED"}),
                 Launches({"ORIGINAL", "RETAINED"}) >>

\* A launch that follows another one only on servers that tell the id of a row
\* that was updated: on Oracle its members get the id of no row
\* (ido2db_oci_sequence_lastid).
TheServers ==
    [i \in DOMAIN TheStories |->
        IF i > 7 THEN {"mysql", "pgsql"} ELSE {"mysql", "pgsql", "oracle"}]
=============================================================================
