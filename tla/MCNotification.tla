----------------------------- MODULE MCNotification ------------------------------
(* TLC instances of Notification.  A configuration is given the commands that   *)
(* can matter to what it is there for.                                          *)
EXTENDS Notification

Everything == {"WARNING", "CRITICAL", "DOWN", "UNREACHABLE", "RECOVERY", "FLAPPING", "DOWNTIME"}
Active == [active |-> TRUE, soft |-> FALSE, translate |-> FALSE]
Passive == [active |-> FALSE, soft |-> FALSE, translate |-> FALSE]

\* A service that is notified of once, after a while.
Plain ==
    [kind |-> "service", interval |-> 0, delay |-> 1, notify_on |-> Everything,
     is_volatile |-> 0, flap_on |-> {}, escalations |-> {}, contacts |-> {"operator"},
     listens |-> [c \in {"operator"} |-> Everything],
     outcomes |-> {"OK", "CRITICAL"}, max_attempts |-> 2, check |-> Active,
     closing |-> 1, delays |-> 2,
     commands |-> {"restart", "acknowledge", "period", "switch", "host", "downtime",
                   "dependency", "veto", "mute"}]

\* A manager is told from the second notification on, a director of the third and
\* later; the manager's escalation shortens the interval.
Managed == [first |-> 2, last |-> 0, interval |-> 1, on |-> ServiceState \cup HostState,
            contacts |-> {"manager"}]
Directed == [first |-> 3, last |-> 3, interval |-> -1, on |-> ServiceState \cup HostState,
             contacts |-> {"director", "operator"}]
Escalated ==
    [Plain EXCEPT !.interval = 2, !.delay = 0, !.escalations = {Managed, Directed},
                  !.listens = [c \in {"operator", "manager", "director"} |-> Everything],
                  !.outcomes = {"OK", "WARNING", "CRITICAL"},
                  !.commands = {"restart", "delay", "number", "custom", "period", "rest"}]

EscalatedHost ==
    [Escalated EXCEPT !.kind = "host", !.outcomes = HostState,
                      !.commands = {"restart", "acknowledge", "number", "downtime", "mute"}]

\* A volatile service, and one that keeps to the interval.
Volatile == [Plain EXCEPT !.is_volatile = 1, !.commands = {"restart", "period"}]
Renotifying == [Volatile EXCEPT !.is_volatile = 2, !.interval = 1]

\* Flapping is looked for.
FlappingService ==
    [Plain EXCEPT !.interval = 1, !.delay = 0, !.flap_on = {"OK", "CRITICAL"},
                  !.max_attempts = 1, !.commands = {"flapping", "restart"}]
FlappingRetried == [FlappingService EXCEPT !.max_attempts = 2, !.commands = {"restart"}]
FlappingHost ==
    [FlappingService EXCEPT !.kind = "host", !.flap_on = {"UP", "DOWN"},
                            !.outcomes = {"UP", "DOWN"}, !.max_attempts = 2]
PassiveHost == [FlappingHost EXCEPT !.check = Passive]

AllConfigs == {Plain, Escalated, EscalatedHost, Volatile, Renotifying, FlappingService,
               FlappingRetried, FlappingHost, PassiveHost}

\* Flapping sets in while a problem is told of.
Flappers == {[FlappingService EXCEPT !.outcomes = ServiceState, !.flap_on = ServiceState]}
=================================================================================
