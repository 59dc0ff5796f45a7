----------------------------- MODULE IdoDirect -----------------------------
(***************************************************************************)
(* How ido2db writes the rows of a table.  A statement has the columns that  *)
(* select the row to change, its key, and the columns a changed row keeps.   *)
(* The columns of a table are those that take part in a key, that refer to   *)
(* another row or that a handler changes on their own; everything else a row *)
(* says is its column "rest".                                                *)
(*                                                                         *)
(* The statements of this module are those that the handlers of dbhandlers.c *)
(* write themselves, in the same way for MySQL and PostgreSQL; what belongs  *)
(* to an object is inserted by them on every server.                         *)
(***************************************************************************)
ByKey(columns) == [key |-> columns, keep |-> {}]

ByKeyKeeping(columns, kept) == [key |-> columns, keep |-> kept]

\* Every row has its own id: a statement with this key only inserts.
Append == ByKey({"id"})

processevents == Append
logentries == Append
flappinghistory == Append
externalcommands == Append
acknowledgements == Append
statehistory == Append

programstatus_update == ByKey({"instance_id"})
programstatus_progress == ByKey({"instance_id"})

comment_history_update ==
    ByKey({"instance_id", "comment_time", "internal_comment_id"})
comments_delete ==
    ByKey({"instance_id", "comment_time", "internal_comment_id"})

LOCAL ScheduledAs == {"instance_id", "downtime_type", "object_id", "entry_time",
                      "scheduled_start_time", "scheduled_end_time"}

downtimehistory_update_start == ByKey(ScheduledAs \cup {"was_started"})
downtimehistory_update_stop == ByKey(ScheduledAs)
scheduleddowntime_update_start == ByKey(ScheduledAs \cup {"was_started"})
downtime_delete == ByKey(ScheduledAs)

\* The rows that say what belongs to a row are inserted all at once.
configfilevariables == Append
runtimevariables == Append
hostparenthosts == Append
hostcontactgroups == Append
hostcontacts == Append
hostgroupmembers == Append
servicecontactgroups == Append
servicecontacts == Append
servicegroupmembers == Append
timeperiodtimeranges == Append
contactgroupmembers == Append

Direct ==
    [ processevents |-> processevents, logentries |-> logentries,
      flappinghistory |-> flappinghistory,
      externalcommands |-> externalcommands,
      acknowledgements |-> acknowledgements, statehistory |-> statehistory,
      programstatus_update |-> programstatus_update,
      programstatus_progress |-> programstatus_progress,
      comment_history_update |-> comment_history_update,
      comments_delete |-> comments_delete,
      downtimehistory_update_start |-> downtimehistory_update_start,
      downtimehistory_update_stop |-> downtimehistory_update_stop,
      scheduleddowntime_update_start |-> scheduleddowntime_update_start,
      downtime_delete |-> downtime_delete,
      configfilevariables |-> configfilevariables,
      runtimevariables |-> runtimevariables,
      hostparenthosts |-> hostparenthosts,
      hostcontactgroups |-> hostcontactgroups, hostcontacts |-> hostcontacts,
      hostgroupmembers |-> hostgroupmembers,
      servicecontactgroups |-> servicecontactgroups,
      servicecontacts |-> servicecontacts,
      servicegroupmembers |-> servicegroupmembers,
      timeperiodtimeranges |-> timeperiodtimeranges,
      contactgroupmembers |-> contactgroupmembers ]
=============================================================================
