----------------------------- MODULE StatusFile -----------------------------
(***************************************************************************)
(* The status file: what xdata/xsddefault.c writes of the daemon every     *)
(* status_update_interval, and what a CGI reads of it.  Writer and reader  *)
(* are two lists of names in two programs: each is given here as a         *)
(* function from our names to those of the file, so that a block is a      *)
(* function from the names of the file to values.                          *)
(* Left out: outputs, times, statistics, and fields that no CGI reads.     *)
(* The file is written under another name and renamed, so that a reader    *)
(* finds a whole one.                                                      *)
(***************************************************************************)
EXTENDS ExternalCommands

ProgramWritten ==
  [enable_notifications          |-> "enable_notifications",
   execute_service_checks        |-> "active_service_checks_enabled",
   accept_passive_service_checks |-> "passive_service_checks_enabled",
   execute_host_checks           |-> "active_host_checks_enabled",
   accept_passive_host_checks    |-> "passive_host_checks_enabled",
   enable_event_handlers         |-> "enable_event_handlers",
   obsess_over_services          |-> "obsess_over_services",
   obsess_over_hosts             |-> "obsess_over_hosts",
   check_service_freshness       |-> "check_service_freshness",
   check_host_freshness          |-> "check_host_freshness",
   enable_flap_detection         |-> "enable_flap_detection",
   enable_failure_prediction     |-> "enable_failure_prediction",
   process_performance_data      |-> "process_performance_data",
   until                         |-> "disable_notifications_expire_time"]

ProgramRead == ProgramWritten

\* Of a host and of a service alike, but for one name.
ObjectWritten(obsess) ==
  [bits                   |-> "modified_attributes",
   check_period           |-> "check_period",
   notification_period    |-> "notification_period",
   check_interval         |-> "check_interval",
   retry_interval         |-> "retry_interval",
   checked                |-> "has_been_checked",
   should_be_scheduled    |-> "should_be_scheduled",
   bad                    |-> "current_state",
   attempt                |-> "current_attempt",
   max_attempts           |-> "max_attempts",
   hard                   |-> "state_type",
   number                 |-> "current_notification_number",
   notifications_enabled  |-> "notifications_enabled",
   acked                  |-> "problem_has_been_acknowledged",
   ackend                 |-> "acknowledgement_end_time",
   checks_enabled         |-> "active_checks_enabled",
   accept_passive_checks  |-> "passive_checks_enabled",
   event_handler_enabled  |-> "event_handler_enabled",
   flap_detection_enabled |-> "flap_detection_enabled",
   obsess                 |-> obsess,
   flapping               |-> "is_flapping"]

\* The reader passes over the periods and the intervals.
ObjectRead(obsess) ==
  [bits                   |-> "modified_attributes",
   checked                |-> "has_been_checked",
   should_be_scheduled    |-> "should_be_scheduled",
   bad                    |-> "current_state",
   attempt                |-> "current_attempt",
   max_attempts           |-> "max_attempts",
   hard                   |-> "state_type",
   number                 |-> "current_notification_number",
   notifications_enabled  |-> "notifications_enabled",
   acked                  |-> "problem_has_been_acknowledged",
   ackend                 |-> "acknowledgement_end_time",
   checks_enabled         |-> "active_checks_enabled",
   accept_passive_checks  |-> "passive_checks_enabled",
   event_handler_enabled  |-> "event_handler_enabled",
   flap_detection_enabled |-> "flap_detection_enabled",
   obsess                 |-> obsess,
   flapping               |-> "is_flapping"]

HostWritten    == ObjectWritten("obsess_over_host")
HostRead       == ObjectRead("obsess_over_host")
ServiceWritten == ObjectWritten("obsess_over_service")
ServiceRead    == ObjectRead("obsess_over_service")

CommentWritten ==
  [type |-> "block", on |-> "name", entry |-> "entry_type", id |-> "comment_id",
   persistent |-> "persistent", expire |-> "expire_time"]
CommentRead    == CommentWritten

DowntimeWritten ==
  [type |-> "block", on |-> "name", id |-> "downtime_id", start |-> "start_time",
   end |-> "end_time", fixed |-> "fixed", trigger |-> "triggered_by", text |-> "comment"]
DowntimeRead    == DowntimeWritten
-----------------------------------------------------------------------------
(* A block, and what is read of it.                                        *)

Facts(o) ==
  [f \in DOMAIN o.set \cup DOMAIN o.state \cup {"bits", "should_be_scheduled"} |->
     CASE f \in DOMAIN o.set   -> o.set[f]
       [] f \in DOMAIN o.state -> o.state[f]
       [] OTHER                -> o[f]]

ProgramFacts(p) ==
  [f \in DOMAIN p.set \cup {"until"} |-> IF f = "until" THEN p.until ELSE p.set[f]]

Block(facts, written) ==
  [n \in {written[f] : f \in DOMAIN written} |->
     facts[CHOOSE f \in DOMAIN written : written[f] = n]]

Entry(block, read) == [f \in DOMAIN read |-> block[read[f]]]

xsddefault_save_status_data(d) ==
  [program  |-> Block(ProgramFacts(d.prog), ProgramWritten),
   host     |-> [h \in DOMAIN d.host |-> Block(Facts(d.host[h]), HostWritten)],
   service  |-> [s \in DOMAIN d.service |-> Block(Facts(d.service[s]), ServiceWritten)],
   comments |-> {Block(m, CommentWritten) : m \in d.comments.list},
   downtimes |-> [i \in DOMAIN d.downtimes.list |->
                    Block(d.downtimes.list[i], DowntimeWritten)]]

\* What was never checked is pending, whatever state it has.
add_host_status(e)    == [pending |-> ~e.checked, entry |-> e]
add_service_status(e) == [pending |-> ~e.checked, entry |-> e]

\* A CGI lists the downtimes as the daemon does: none before its trigger.
DowntimesRead(blocks) ==
  LET Read(e, m) == add_downtime(e, Entry(m, DowntimeRead), TRUE)
  IN FoldLeft(Read, [downtimes |-> [list |-> <<>>, next |-> 0]], blocks).downtimes.list

xsddefault_read_status_data(file) ==
  [program  |-> Entry(file.program, ProgramRead),
   host     |-> [h \in DOMAIN file.host |-> add_host_status(Entry(file.host[h], HostRead))],
   service  |-> [s \in DOMAIN file.service |->
                   add_service_status(Entry(file.service[s], ServiceRead))],
   comments |-> {Entry(m, CommentRead) : m \in file.comments},
   downtimes |-> sort_downtime(DowntimesRead(file.downtimes))]

\* The pages of a CGI that runs now.
Pages(d) == xsddefault_read_status_data(xsddefault_save_status_data(d))
=============================================================================
