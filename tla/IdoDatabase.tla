---------------------------- MODULE IdoDatabase ----------------------------
(***************************************************************************)
(* The database of ido2db while a core runs: idomod sends messages for what  *)
(* the core tells it, and a child of ido2db writes them in transactions.     *)
(*                                                                           *)
(* A story is a sequence of steps: an event of the broker, an event that is  *)
(* sent again with the time it had, as log2ido and file2sock do, or the      *)
(* connection of another core.                                               *)
(*                                                                           *)
(*   story, told   the story, and the events of it that were told so far     *)
(*   now           the clock of the core                                     *)
(*   pipe          the messages between idomod and the child                 *)
(*   world         the database as the child sees it, and the child          *)
(*   committed     the database as others see it                             *)
(*   mode          whether the child waits for input, is in a transaction,   *)
(*                 or reads on with every statement committed by itself      *)
(*   losses        the connections that broke                                *)
(***************************************************************************)
EXTENDS IdoSeen

CONSTANTS ProcessOptions,    \* of idomod
          Stories,       \* a sequence of stories
          Servers,       \* for each of them, the kinds of database servers
          LastSecond,    \* bound: where the clock stops
          KeepOn,        \* as many messages in the pipe as the proxy has in 16 kB
          MaxPipe,       \* bound: messages in the pipe when an event is told
          MaxLosses      \* bound: connections that break

VARIABLES story, told, now, pipe, world, committed, mode, losses

vars == <<story, told, now, pipe, world, committed, mode, losses>>

Idomod == INSTANCE IdoMessages

Step == Stories[story][Len(told) + 1]
MoreIsTold == Len(told) < Len(Stories[story])

-----------------------------------------------------------------------------
(* Connections.                                                             *)

Tables ==
    {"processevents", "logentries", "flappinghistory", "externalcommands",
     "acknowledgements", "statehistory", "systemcommands", "eventhandlers",
     "servicechecks", "hostchecks", "notifications", "contactnotifications",
     "contactnotificationmethods", "commenthistory", "downtimehistory",
     "hoststatus", "servicestatus"} \cup StatusTables \cup ConfigTables

Database(w) == [rows |-> w.rows, objects |-> w.objects, active |-> w.active]

Emptied == [rows |-> [t \in Tables |-> {}], objects |-> {}, active |-> {}]

\* The last time of a status, or of a comment, that the database has.
LOCAL Times(rows) ==
    {r.status_update_time : r \in rows["programstatus"] \cup rows["hoststatus"]
                                  \cup rows["servicestatus"]
                                  \cup rows["contactstatus"]}
    \cup {r.entry_time : r \in rows["comments"]}

ido2db_db_get_latest_data_time(rows) ==
    CHOOSE t \in Times(rows) \cup {0} : \A u \in Times(rows) : u <= t

\* A child of ido2db that begins with a connection.
ido2db_idi_init == [put |-> "", given |-> 0, cleared |-> FALSE,
                    config_type |-> 0, activate |-> {}]

ido2db_db_hello(database) ==
    [latest |-> ido2db_db_get_latest_data_time(database.rows),
     last_notification |-> 0, last_contact_notification |-> 0]

Connected(server, next, database) ==
    [server |-> server, next |-> next]
        @@ database @@ ido2db_idi_init @@ ido2db_db_hello(database)

Init ==
    /\ story \in DOMAIN Stories
    /\ told = << >> /\ now = 1 /\ pipe = << >>
    /\ \E server \in Servers[story] : world = Connected(server, 1, Emptied)
    /\ committed = Emptied
    /\ mode = "waiting" /\ losses = 0

-----------------------------------------------------------------------------
(* The core and idomod.                                                     *)

Never == [sec |-> 0, usec |-> 0]

\* What runs for some time is told twice, with the start it had; an event has
\* the time at which it is told.
Stamped(e, time) ==
    IF "began" \notin DOMAIN e THEN [timestamp |-> time] @@ e
    ELSE [timestamp |-> time,
          start_time |-> IF e.began = 0 THEN time
                         ELSE told[e.began].start_time,
          end_time |-> IF e.type = "START" THEN Never ELSE time] @@ e

idomod_broker_data(e, config) ==
    /\ told' = Append(told, e)
    /\ pipe' = pipe \o Idomod!Sent(e, config)
    /\ UNCHANGED <<story, world, committed, mode, losses>>

TellEvent ==
    /\ MoreIsTold /\ Step.do = "event" /\ Len(pipe) <= MaxPipe
    /\ now' \in {now, now + 1} /\ now' <= LastSecond
    /\ idomod_broker_data(Stamped(Step.event,
                                  [sec |-> now', usec |-> Len(told) + 1]),
                          Step.config)

TellAgain ==
    /\ MoreIsTold /\ Step.do = "again" /\ Len(pipe) <= MaxPipe
    /\ idomod_broker_data(told[Step.of], Step.config)
    /\ UNCHANGED now

-----------------------------------------------------------------------------
(* A child of ido2db.                                                       *)

\* On Oracle every statement is committed by itself.
Begin ==
    /\ mode = "waiting" /\ pipe # << >>
    /\ mode' = IF world.server = "oracle" THEN "reading" ELSE "transaction"
    /\ UNCHANGED <<story, told, now, pipe, world, committed, losses>>

\* What the statements of a message left behind is of no use to the next.
Settled(w) == [w EXCEPT !.put = "", !.given = 0]

\* A dump ends the transaction of the messages before it.
Handle(m) ==
    LET x == Settled(handle_client_input(world, m))
    IN IF m.DATA \in {"STARTCONFIGDUMP", "ENDCONFIGDUMP"}
       THEN /\ world' = WriteTxbuf(x)
            /\ committed' = Database(world')
            /\ mode' = "reading"
       ELSE /\ world' = x
            /\ committed' = IF mode = "reading" THEN Database(x) ELSE committed
            /\ UNCHANGED mode

CheckForClientInput ==
    /\ mode # "waiting" /\ pipe # << >>
    /\ Handle(Head(pipe))
    /\ pipe' = Tail(pipe)
    /\ UNCHANGED <<story, told, now, losses>>

\* A transaction goes on while the proxy has much to read.
Commit ==
    /\ mode # "waiting" /\ Len(pipe) <= KeepOn
    /\ world' = WriteTxbuf(world)
    /\ committed' = Database(world')
    /\ mode' = "waiting"
    /\ UNCHANGED <<story, told, now, pipe, losses>>

\* A core ends, and the next one connects, once everything has been read.
NextCore ==
    /\ MoreIsTold /\ Step.do = "connect"
    /\ mode = "waiting" /\ pipe = << >>
    /\ told' = Append(told, Step)
    /\ world' = Connected(world.server, world.next, committed)
    /\ UNCHANGED <<story, now, pipe, committed, mode, losses>>

\* The child dies, or loses the database and with it the client: its transaction
\* is rolled back, and idomod connects to another child.  What was sent already
\* may be lost as well (bound: all of it or nothing).
Lose ==
    /\ losses < MaxLosses
    /\ losses' = losses + 1
    /\ pipe' \in {pipe, << >>}
    /\ world' = Connected(world.server, world.next, committed)
    /\ mode' = "waiting"
    /\ UNCHANGED <<story, told, now, committed>>

Next ==
    \/ TellEvent \/ TellAgain \/ NextCore
    \/ Begin \/ CheckForClientInput \/ Commit
    \/ Lose

Spec == Init /\ [][Next]_vars

-----------------------------------------------------------------------------

\* What the child knows, in the terms of the promise.
Remembered ==
    [facts |-> Seen(world),
     notification |-> KeyAt(world, "notifications", world.last_notification),
     contactnotification |-> KeyAt(world, "contactnotifications",
                                   world.last_contact_notification),
     dump |-> IF world.config_type = 1 THEN "RETAINED" ELSE "ORIGINAL",
     since |-> world.latest]

Record == INSTANCE IdoRecord WITH known <- Remembered, kept <- Seen(committed)

(***************************************************************************)
(* The database, read with its references followed, says what the core told  *)
(* and nothing else, whatever the server, the statements and the order of    *)
(* the commits: each event and each defined object once, related to what it  *)
(* belongs to; what broke off with a connection is gone as a whole, and is   *)
(* not mixed up with what the next connection tells.                         *)
(* (insert_or_update queries of dbqueries.c, the statements of db.c, the     *)
(* handlers of dbhandlers.c, last_notification_id.)                          *)
(***************************************************************************)
KeepsRecord == Record!Spec

\* The objects that the rows of a configuration define.
Defined(rows) ==
    {r.host_object_id : r \in rows["hosts"]}
    \cup {r.service_object_id : r \in rows["services"]}
    \cup {r.contact_object_id : r \in rows["contacts"]}
    \cup {r.hostgroup_object_id : r \in rows["hostgroups"]}
    \cup {r.servicegroup_object_id : r \in rows["servicegroups"]}
    \cup {r.contactgroup_object_id : r \in rows["contactgroups"]}
    \cup {r.object_id : r \in rows["commands"]}
    \cup {r.timeperiod_object_id : r \in rows["timeperiods"]}

(***************************************************************************)
(* An object that the database shows as active is configured; and unless a   *)
(* connection broke, every configured object is active whenever ido2db waits *)
(* for input.  The rows of objects and their marks are written at different  *)
(* times: the marks in one statement before a commit (ido2db_db_txbuf_flush).*)
(***************************************************************************)
ActiveAreDefined ==
    /\ committed.active \subseteq Defined(committed.rows)
    /\ mode = "waiting" /\ losses = 0 =>
           committed.active = Defined(committed.rows)

\* Unique keys of the tables, from mysql.sql.
UniqueKeys ==
    [commands |-> {"object_id", "config_type"},
     comments |-> {"object_id", "comment_time", "internal_comment_id"},
     commenthistory |-> {"object_id", "comment_time", "internal_comment_id"},
     configfiles |-> {"configfile_type", "configfile_path"},
     contactgroups |-> {"config_type", "contactgroup_object_id"},
     contactnotificationmethods |->
         {"contactnotification_id", "start_time", "start_time_usec"},
     contactnotifications |->
         {"contact_object_id", "start_time", "start_time_usec"},
     contacts |-> {"config_type", "contact_object_id"},
     contactstatus |-> {"contact_object_id"},
     contactaddresses |-> {"contact_id", "address_number"},
     customvariablestatus |-> {"object_id", "varname"},
     downtimehistory |-> {"object_id", "entry_time", "internal_downtime_id"},
     eventhandlers |-> {"object_id", "start_time", "start_time_usec"},
     hostgroups |-> {"hostgroup_object_id"},
     hosts |-> {"config_type", "host_object_id"},
     hoststatus |-> {"host_object_id"},
     notifications |-> {"object_id", "start_time", "start_time_usec"},
     programstatus |-> {"instance_id"},
     scheduleddowntime |-> {"object_id", "entry_time", "internal_downtime_id"},
     servicegroups |-> {"config_type", "servicegroup_object_id"},
     services |-> {"config_type", "service_object_id"},
     servicestatus |-> {"service_object_id"},
     systemcommands |-> {"start_time", "start_time_usec"},
     timeperiods |-> {"config_type", "timeperiod_object_id"}]

(***************************************************************************)
(* No statement would be refused for a unique key of its table.  On a MySQL  *)
(* server the hosts and services of a dump are inserted without looking for  *)
(* a row when the tables were cleared on the same connection; another dump,  *)
(* another core or another connection must not find them there.              *)
(***************************************************************************)
RowsAreUnique ==
    \A t \in DOMAIN UniqueKeys :
        \A r, s \in world.rows[t] :
            (\A c \in UniqueKeys[t] : r[c] = s[c]) => r = s
=============================================================================
