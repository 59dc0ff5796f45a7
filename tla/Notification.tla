------------------------------ MODULE Notification -------------------------------
(***************************************************************************)
(* base/notifications.c and base/flapping.c for one object, a service or a *)
(* host: who is told of a problem and of its end, when a problem is told   *)
(* again, and what flapping does to both.                                  *)
(*                                                                         *)
(* Time is relative: since is the time since the last notification, wait   *)
(* the time until next_notification, age the time since the problem is a   *)
(* hard one (or was last not there), each counted in ticks and no further  *)
(* than anything compares it to.  The broker may cancel a notification, an *)
(* escalation may be outside its period or its condition (resting), and a  *)
(* contact may be muted: by a command, or outside its period.              *)
(*                                                                         *)
(* Not here: escalation ranges by state, notification ids, macros, and the *)
(* commands read in the middle of a result (in ServiceCheck).              *)
(***************************************************************************)
EXTENDS Integers, ServiceRules, HostRules, Sequences, FiniteSetsExt

CONSTANTS
    Configs,                    \* the objects, each with the commands it is given
    MAX_STATE_HISTORY_ENTRIES,  \* 21 in the code
    LowThreshold,               \* flap thresholds, in percent
    HighThreshold,
    NumberCap,                  \* bound: notification numbers are counted up to this
    MaxCommands                 \* bound: commands and mishaps in a behaviour

ASSUME HistoryAssumption == MAX_STATE_HISTORY_ENTRIES \in Nat /\ MAX_STATE_HISTORY_ENTRIES > 2
ASSUME ThresholdAssumption ==
    /\ LowThreshold \in Nat /\ HighThreshold \in Nat /\ LowThreshold < HighThreshold
ASSUME StateAssumption == Problems \cap HostState = {}
ASSUME BoundAssumption == NumberCap \in Nat \ {0} /\ MaxCommands \in Nat
ASSUME ConfigAssumption ==
    \A c \in Configs :
        /\ c.kind \in {"service", "host"}
        /\ {c.interval, c.delay, c.closing, c.delays} \subseteq Nat
        /\ c.max_attempts \in Nat \ {0}
        /\ c.contacts \subseteq DOMAIN c.listens
        /\ IsFiniteSet(c.escalations)
        /\ \A e \in c.escalations :
              {e.first, e.last} \subseteq Nat /\ e.interval \in Nat \cup {-1}
              /\ e.contacts \subseteq DOMAIN c.listens

VARIABLES
    config,  \* the object's configuration, never changed
    o,       \* the object
    env,     \* what else a notification depends on
    checked, \* the present state has been reported again since the last tick
    spent    \* commands and mishaps so far

vars == <<config, o, env, checked, spent>>

Fine == {"OK", "UP"}
IsOk(x) == x.current_state \in Fine
IsService == config.kind = "service"
State == IF IsService THEN ServiceState ELSE HostState

Never == -1   \* last_notification is 0

Flapping == {"FLAPPINGSTART", "FLAPPINGSTOP", "FLAPPINGDISABLED"}
InDowntime == {"DOWNTIMESTART", "DOWNTIMEEND", "DOWNTIMECANCELLED"}
None == {}   \* NOTIFICATION_OPTION_NONE

\* The bounds of the clocks: nothing compares them to more.
LongestInterval(c) == Max({c.interval} \cup {e.interval : e \in c.escalations})
LongestWait(c) == Max({LongestInterval(c), c.closing, c.delays})

TypeOK ==
    /\ config \in Configs
    /\ o.current_state \in State /\ o.last_state = o.current_state
    /\ o.last_hard_state \in State /\ o.state_type \in StateType
    /\ o.current_attempt \in 1 .. o.max_attempts
    /\ o.acknowledged \in BOOLEAN /\ o.acknowledgement_type \in AckType
    /\ o.number \in 0 .. NumberCap
    /\ o.notified_on \subseteq State \ Fine
    /\ o.since \in {Never} \cup (0 .. LongestInterval(config))
    /\ o.wait \in 0 .. LongestWait(config)
    /\ o.age \in 0 .. config.delay
    /\ o.state_history \in [1 .. MAX_STATE_HISTORY_ENTRIES -> State]
    /\ o.comments \in 0 .. 1 + MaxCommands
    /\ o.due \subseteq DOMAIN config.listens
    /\ o.phase \in {"none", "problem", "recovered", "again"}
    /\ env.closed \in 0 .. config.closing
    /\ env.muted \subseteq DOMAIN config.listens
    /\ env.resting \subseteq config.escalations
    /\ checked \in BOOLEAN /\ spent \in 0 .. MaxCommands

\* The object has been checked once, and is fine.
Init ==
    /\ config \in Configs
    /\ LET ok == IF IsService THEN "OK" ELSE "UP"
       IN o = [current_state |-> ok, last_state |-> ok, last_hard_state |-> ok,
               state_type |-> "HARD", current_attempt |-> 1,
               max_attempts |-> config.max_attempts,
               host_problem_at_last_check |-> FALSE,
               acknowledged |-> FALSE, acknowledgement_type |-> "NONE",
               notifications_enabled |-> TRUE, downtime |-> FALSE,
               number |-> 0, notified_on |-> {},
               since |-> Never, wait |-> 0, no_more |-> FALSE, age |-> 0,
               state_history |-> [i \in 1 .. MAX_STATE_HISTORY_ENTRIES |-> ok],
               enable_flap_detection |-> TRUE,   \* for the whole program
               flap_detection_enabled |-> TRUE, is_flapping |-> FALSE,
               check_flapping_recovery |-> FALSE,
               linked |-> FALSE,    \* flapping_comment_id # 0
               comments |-> 0,      \* comments of flapping there are
               \* history: who is to hear of the recovery, what was told, whether
               \* no command or flapping has come since the last problem
               \* notification, whether the number is not the number of
               \* notifications, and whether a comment was left behind
               due |-> {}, phase |-> "none", calm |-> TRUE, tampered |-> FALSE,
               abandoned |-> FALSE]
    /\ env = [enabled |-> TRUE, host_up |-> TRUE, host_downtime |-> FALSE,
              dependencies |-> TRUE, veto |-> FALSE, closed |-> 0,
              muted |-> {}, resting |-> {}]
    /\ checked = FALSE
    /\ spent = 0

---------------------------------------------------------------------------------
(* Escalations and contacts *)

\* Mutant: a recovery is escalated by its own number.
EscalationsNow(x, options) ==
    {e \in config.escalations :
        \/ "BROADCAST" \in options
        \/ /\ e.first <= x.number /\ (e.last = 0 \/ x.number <= e.last)
           /\ e \notin env.resting
           /\ x.current_state \in e.on}

\* is_valid_escalation_for_service_notification(): "if this is a recovery, really
\* we check for who got notified about a previous problem".
ServiceEscalations(x, options) ==
    LET number == IF IsOk(x) THEN x.number - 1 ELSE x.number
    IN {e \in config.escalations :
          \/ "BROADCAST" \in options
          \/ /\ e.first <= number /\ (e.last = 0 \/ number <= e.last)
             /\ e \notin env.resting
             /\ x.current_state \in e.on}

\* The same for a host.
HostEscalations(x, options) == ServiceEscalations(x, options)

Escalations(x, options) ==
    IF IsService THEN ServiceEscalations(x, options) ELSE HostEscalations(x, options)

\* What a contact of a service is told of.
ServiceContactHears(c, x, type, options) ==
    \/ "FORCED" \in options
    \/ /\ c \notin env.muted
       /\ \/ type \in {"CUSTOM", "STALKING"}
          \/ type \in Flapping /\ "FLAPPING" \in config.listens[c]
          \/ type \in InDowntime /\ "DOWNTIME" \in config.listens[c]
          \/ /\ type \in {"NORMAL", "ACKNOWLEDGEMENT"}
             /\ IF IsOk(x) THEN /\ "RECOVERY" \in config.listens[c]
                                /\ x.notified_on \cap config.listens[c] # {}
                ELSE x.current_state \in config.listens[c]

\* Of a host: a stalking notification is treated like a normal one.
HostContactHears(c, x, type, options) ==
    \/ "FORCED" \in options
    \/ /\ c \notin env.muted
       /\ \/ type = "CUSTOM"
          \/ type \in Flapping /\ "FLAPPING" \in config.listens[c]
          \/ type \in InDowntime /\ "DOWNTIME" \in config.listens[c]
          \/ /\ type \in {"NORMAL", "ACKNOWLEDGEMENT", "STALKING"}
             /\ IF IsOk(x) THEN /\ "RECOVERY" \in config.listens[c]
                                /\ x.notified_on \cap config.listens[c] # {}
                ELSE x.current_state \in config.listens[c]

Hears(c, x, type, options) ==
    IF IsService THEN ServiceContactHears(c, x, type, options)
                 ELSE HostContactHears(c, x, type, options)

\* create_notification_list_from_service(): the contacts of the escalations that
\* are valid, or the object's own if there is none; a broadcast goes to both.
ServiceRecipients(x, type, options) ==
    LET escalated == Escalations(x, None) # {}
        broadcast == "BROADCAST" \in options
    IN {c \in (IF escalated \/ broadcast
               THEN UNION {e.contacts : e \in Escalations(x, options)} ELSE {})
              \cup (IF ~escalated \/ broadcast THEN config.contacts ELSE {}) :
          Hears(c, x, type, options)}

\* The same for a host.
HostRecipients(x, type, options) == ServiceRecipients(x, type, options)

Recipients(x, type, options) ==
    IF IsService THEN ServiceRecipients(x, type, options) ELSE HostRecipients(x, type, options)

---------------------------------------------------------------------------------
(* Whether a notification goes out *)

\* "see if enough time has elapsed for first notification"
Ripe(x) == x.number = 0 /\ ~IsOk(x) => x.age >= config.delay

\* The filters a problem and its end have in common.
NormalFilters(x, type) ==
    /\ x.state_type = "HARD" /\ ~x.acknowledged
    /\ env.dependencies
    /\ IF IsOk(x) THEN "RECOVERY" \in config.notify_on /\ x.notified_on # {}
       ELSE x.current_state \in config.notify_on
    /\ type = "NORMAL" => Ripe(x)
    /\ ~x.is_flapping

\* check_service_notification_viability() after the general filters.  A volatile
\* service does not wait, unless it is to keep to the interval (2).
ServiceFilters(x, type) ==
    CASE type = "CUSTOM" -> ~x.downtime /\ ~env.host_downtime
      [] type = "STALKING" -> TRUE
      [] type = "ACKNOWLEDGEMENT" -> ~IsOk(x)
      [] type \in Flapping ->
           "FLAPPING" \in config.notify_on /\ ~x.downtime /\ ~env.host_downtime
      [] type \in InDowntime -> "DOWNTIME" \in config.notify_on /\ ~x.downtime
      [] OTHER ->
           /\ NormalFilters(x, type)
           /\ \/ IsOk(x)
              \/ /\ ~x.no_more /\ env.host_up
                 /\ x.wait = 0 \/ config.is_volatile = 1
                 /\ ~x.downtime /\ ~env.host_downtime

\* check_host_notification_viability() after the general filters.
HostFilters(x, type) ==
    CASE type = "CUSTOM" -> TRUE
      [] type = "ACKNOWLEDGEMENT" -> ~IsOk(x)
      [] type \in Flapping -> "FLAPPING" \in config.notify_on /\ ~x.downtime
      [] type \in InDowntime -> "DOWNTIME" \in config.notify_on /\ ~x.downtime
      [] OTHER ->
           /\ NormalFilters(x, type)
           /\ IsOk(x) \/ (~x.downtime /\ ~x.no_more /\ x.wait = 0)

Viable(x, type, options) ==
    \/ "FORCED" \in options
    \/ /\ env.enabled /\ env.closed = 0 /\ x.notifications_enabled
       /\ IF IsService THEN ServiceFilters(x, type) ELSE HostFilters(x, type)

\* Outside the notification period a problem is put off until it opens.
Deferred(x, type) ==
    IF type = "NORMAL" /\ env.enabled /\ env.closed > 0
    THEN [x EXCEPT !.wait = env.closed]
    ELSE x

---------------------------------------------------------------------------------
(* Sending it *)

\* The interval now: the shortest of the valid escalations that have one, or the
\* object's own.  -1 stands for no interval.
ServiceInterval(x) ==
    LET escalated == {e.interval : e \in {f \in Escalations(x, None) : f.interval >= 0}}
    IN IF escalated = {} THEN config.interval ELSE Min(escalated)

\* The same for a host.
HostInterval(x) == ServiceInterval(x)

Interval(x) == IF IsService THEN ServiceInterval(x) ELSE HostInterval(x)

\* Mutant: once there are no more notifications, there are none ever after.
ArmedOnce(x, elapsed) ==
    [x EXCEPT !.wait = IF Interval(x) > elapsed THEN Interval(x) - elapsed ELSE 0,
              !.no_more = @ \/ Interval(x) <= elapsed]

\* get_next_service_notification_time(), elapsed ticks after the notification.
\* With interval 0 there are no more notifications, unless it is a volatile service.
Rearmed(x, elapsed) ==
    [x EXCEPT !.wait = IF Interval(x) > elapsed THEN Interval(x) - elapsed ELSE 0,
              !.no_more = Interval(x) = 0 /\ ~(IsService /\ config.is_volatile > 0)]

CountedUp(x) == [x EXCEPT !.number = IF @ < NumberCap THEN @ + 1 ELSE @]

\* History of a notification of a problem or of its end that reached these contacts.
Chronicle(x, to) ==
    IF IsOk(x)
    THEN [x EXCEPT !.due = @ \ to,
                   !.phase = IF @ = "problem" THEN "recovered" ELSE "again"]
    ELSE [x EXCEPT !.due = {c \in to : "RECOVERY" \in config.listens[c]},
                   !.phase = "problem", !.calm = TRUE]

\* A notification of a problem or of its end has gone out.
Delivered(x, to) ==
    LET r == [Rearmed(x, 0) EXCEPT !.since = 0]
    IN Chronicle([r EXCEPT !.notified_on = IF IsOk(x) THEN @ ELSE @ \cup {x.current_state}], to)

\* service_notification() and host_notification().  The number is counted up
\* first and taken back if nobody is reached, except that a notification the
\* broker cancels is never taken back.
Notify(x, type, options) ==
    LET counts == type = "NORMAL" \/ "INCREMENT" \in options
        p == IF counts THEN CountedUp(x) ELSE x
        to == Recipients(p, type, options)
    IN CASE ~Viable(x, type, options) -> Deferred(x, type)
         [] Viable(x, type, options) /\ env.veto -> [p EXCEPT !.tampered = TRUE]
         [] Viable(x, type, options) /\ ~env.veto /\ to = {} -> x
         [] Viable(x, type, options) /\ ~env.veto /\ to # {} ->
              IF type = "NORMAL" THEN Delivered(p, to)
              ELSE [p EXCEPT !.tampered = @ \/ counts, !.calm = @ /\ ~counts]

\* Mutant: a recovery keeps what contacts have been notified of.
KeptNotified(x) ==
    [x EXCEPT !.number = 0, !.tampered = FALSE]

\* The end of a problem: "reset the current notification number and state flags
\* (after the recovery notification has gone out)".
Forgotten(x) ==
    [x EXCEPT !.number = 0, !.notified_on = {}, !.tampered = FALSE]

\* A change of state: "reset notification times and suppression option".
TimesReset(x) == [x EXCEPT !.since = Never, !.wait = 0, !.no_more = FALSE]

---------------------------------------------------------------------------------
(* Flapping *)

\* The changes in the history, oldest first, each weighing between 0.75 and 1.25
\* by its age, as a part of all there could be: scaled by 100 (N - 2) (N - 1).  The
\* one at x weighs 75 (N - 2), and 50 more for each of the x - 1 places before it.
Changed(history) ==
    {x \in 1 .. MAX_STATE_HISTORY_ENTRIES - 1 : history[x] # history[x + 1]}
Before(changed) ==
    {p \in changed \X (1 .. MAX_STATE_HISTORY_ENTRIES - 1) : p[2] < p[1]}
Curved(history) ==
    LET changed == Changed(history)
    IN 100 * (50 * Cardinality(Before(changed))
                + 75 * (MAX_STATE_HISTORY_ENTRIES - 2) * Cardinality(changed))

\* Every history, evaluated once.
PercentStateChange ==
    [h \in [1 .. MAX_STATE_HISTORY_ENTRIES -> ServiceState]
           \cup [1 .. MAX_STATE_HISTORY_ENTRIES -> HostState] |-> Curved(h)]

Scaled(threshold) ==
    threshold * 100 * (MAX_STATE_HISTORY_ENTRIES - 2) * (MAX_STATE_HISTORY_ENTRIES - 1)

\* set_service_flap(), set_host_flap()
SetFlap(x, announce) ==
    LET f == [x EXCEPT !.is_flapping = TRUE, !.linked = TRUE, !.comments = @ + 1,
                       !.check_flapping_recovery = ~IsOk(x) /\ x.number > 0, !.calm = FALSE]
    IN IF announce THEN Notify(f, "FLAPPINGSTART", None) ELSE f

\* Mutant: the comment stays.
Commented(x) == [x EXCEPT !.linked = FALSE]

\* The comment of flapping is deleted.
Uncommented(x) ==
    [x EXCEPT !.comments = IF x.linked THEN @ - 1 ELSE @, !.linked = FALSE]

\* "should we send a recovery notification?"
FlapRecovery(x) ==
    LET r == IF x.check_flapping_recovery /\ IsOk(x) THEN Notify(x, "NORMAL", None) ELSE x
    IN [r EXCEPT !.check_flapping_recovery = FALSE]

\* clear_service_flap(), clear_host_flap()
ClearFlap(x) ==
    LET c == [Uncommented(x) EXCEPT !.is_flapping = FALSE]
    IN FlapRecovery(Notify(c, "FLAPPINGSTOP", None))

Recorded(x) ==
    [x EXCEPT !.state_history = Append(Tail(@), x.current_state)]

\* The decision about flapping: between the thresholds nothing changes.
JudgeFlapping(x, announce) ==
    LET percent == PercentStateChange[x.state_history]
    IN CASE ~x.enable_flap_detection \/ ~x.flap_detection_enabled -> x
         [] x.enable_flap_detection /\ x.flap_detection_enabled /\ percent >= Scaled(HighThreshold)
              /\ ~x.is_flapping -> SetFlap(x, announce)
         [] x.enable_flap_detection /\ x.flap_detection_enabled /\ percent <= Scaled(LowThreshold)
              /\ x.is_flapping -> ClearFlap(x)
         [] OTHER -> x

\* check_for_service_flapping(): a soft problem is not looked at.
CheckServiceFlapping(x, update, announce) ==
    IF x.state_type = "SOFT" /\ ~IsOk(x) THEN x
    ELSE JudgeFlapping(IF update /\ x.current_state \in config.flap_on THEN Recorded(x) ELSE x,
                       announce)

\* check_for_host_flapping(): update is FALSE too when it is not an actual check,
\* and the last record is recent.
CheckHostFlapping(x, update, announce) ==
    JudgeFlapping(IF update /\ x.current_state \in config.flap_on THEN Recorded(x) ELSE x,
                  announce)

CheckFlapping(x, update, announce) ==
    IF IsService THEN CheckServiceFlapping(x, update, announce)
                 ELSE CheckHostFlapping(x, update, announce)

\* handle_service_flap_detection_disabled(), handle_host_flap_detection_disabled():
\* "if the service was flapping, remove the flapping indicator".
FlapDetectionDisabled(x) ==
    IF ~x.is_flapping THEN x
    ELSE LET c == [Uncommented(x) EXCEPT !.is_flapping = FALSE]
         IN FlapRecovery(Notify(c, "FLAPPINGDISABLED", None))

---------------------------------------------------------------------------------
(* A result of a service: what handle_async_service_check_result() does about    *)
(* notifications and flapping, around the rules of ServiceRules.                 *)

\* last_time_ok and last_hard_state_change
Dated(x, hard) == [x EXCEPT !.age = IF hard \/ IsOk(x) THEN 0 ELSE @]

\* At the end last_state is only waiting to be overwritten.
AtRest(x) == [x EXCEPT !.last_state = x.current_state]

ServiceRecovers(x, hard) ==
    LET told == Notify(CheckServiceFlapping([x EXCEPT !.state_type = "HARD"], TRUE, TRUE),
                       "NORMAL", None)
        reset(y) == Forgotten(TimesReset(Reset(y)))
    IN IF hard THEN reset(told)
       ELSE CheckServiceFlapping(reset(x), TRUE, TRUE)

ServiceFails(x, hardbefore) ==
    LET hard == hardbefore \/ (~env.host_up /\ x.last_hard_state # x.current_state)
        d == Dated(x, hard)
        f == IF env.host_up THEN HostUp(d) ELSE HostDown(d, hard)
        h == CheckServiceFlapping([f EXCEPT !.state_type = "HARD"], TRUE, TRUE)
    IN IF f.current_attempt < f.max_attempts
       THEN CheckServiceFlapping(IF env.host_up THEN [f EXCEPT !.state_type = "SOFT"] ELSE f,
                                 TRUE, TRUE)
       ELSE [Notify(h, "NORMAL", None) EXCEPT !.last_hard_state = h.current_state]

ServiceResult(x, outcome) ==
    LET c == Counted(Received(x, outcome))
        changed == StateChange(c) \/ HardStateChange(c)
        a == ClearedAck(IF changed THEN TimesReset(c) ELSE c)
        d == Dated(a, HardStateChange(c))
    IN IF IsOk(d) THEN ServiceRecovers(Unacknowledged(d), HardStateChange(c))
       ELSE ServiceFails(d, HardStateChange(c))

---------------------------------------------------------------------------------
(* A result of a host *)

\* handle_host_state(): a change is told if it is hard, a hard problem that stays
\* may be told again.
HandleHostState(x) ==
    LET hard == x.current_attempt >= x.max_attempts /\ HostHardChange(x)
        a == HostClearedAck(IF HostStateChange(x) \/ hard THEN TimesReset(x) ELSE x)
        changed == HostStateChange(x) \/ HostHardChange(x)
        d == Dated(a, changed /\ x.state_type = "HARD")
        told == IF x.state_type = "HARD" THEN Notify(d, "NORMAL", None) ELSE d
    IN CASE changed /\ IsOk(x) -> Forgotten([told EXCEPT !.current_attempt = 1])
         [] changed /\ ~IsOk(x) -> told
         [] ~changed /\ IsOk(x) -> d
         [] ~changed /\ ~IsOk(x) -> told

\* outcome is the state the parents make of it.
HostResult(x, outcome) ==
    LET new == IF outcome = "UP" THEN "UP" ELSE "DOWN"
        h == Processed(Saved(IF config.check.active THEN Adjusted(x, TRUE) ELSE x),
                       new, outcome, config.check)
    IN CheckHostFlapping(HandleHostState(h), TRUE, TRUE)

---------------------------------------------------------------------------------
(* Actions *)

Result(outcome) ==
    /\ outcome \in config.outcomes
    /\ o' = AtRest(IF IsService THEN ServiceResult(o, outcome) ELSE HostResult(o, outcome))
    /\ checked' = (checked \/ outcome = o.current_state)
    /\ UNCHANGED <<config, env, spent>>

\* A result of a service of this host: it looks for flapping of the host, and if
\* the host is not up "fake the host check, but (possibly) resend host
\* notifications to contacts".
ServiceOfHost(update) ==
    /\ ~IsService
    /\ LET told == IF IsOk(o) THEN o ELSE Notify(o, "NORMAL", None)
       IN o' = CheckHostFlapping(told, update, TRUE)
    /\ UNCHANGED <<config, env, checked, spent>>

\* A tick of the clock.
Tick ==
    /\ o' = [o EXCEPT !.since = IF @ = Never THEN Never ELSE Min({@ + 1, LongestInterval(config)}),
                      !.wait = IF @ = 0 THEN 0 ELSE @ - 1,
                      !.age = Min({@ + 1, config.delay})]
    /\ env' = [env EXCEPT !.closed = IF @ = 0 THEN 0 ELSE @ - 1]
    /\ checked' = FALSE
    /\ UNCHANGED <<config, spent>>

\* Mutant: the restart does not look at the last notification.
RestartedAtOnce(x) ==
    LET p == [x EXCEPT !.is_flapping = FALSE, !.linked = FALSE, !.comments = 0,
                       !.abandoned = FALSE, !.host_problem_at_last_check = FALSE,
                       !.wait = 0, !.no_more = FALSE]
        s == CheckFlapping(p, FALSE, ~x.is_flapping)
    IN [s EXCEPT !.check_flapping_recovery = @ /\ ~(x.is_flapping /\ ~s.is_flapping)]

\* A restart: the retention file has neither next_notification nor
\* no_more_notifications, nor comments of flapping.  The next notification is
\* calculated from the last one, and flapping is found again.
Restarted(x) ==
    LET p == [x EXCEPT !.is_flapping = FALSE, !.linked = FALSE, !.comments = 0,
                       !.abandoned = FALSE, !.host_problem_at_last_check = FALSE,
                       !.wait = 0, !.no_more = FALSE]
        n == IF IsOk(p) \/ p.since = Never THEN p ELSE Rearmed(p, p.since)
        m == IF ~IsOk(n) /\ n.state_type = "HARD"
             THEN [n EXCEPT !.current_attempt = n.max_attempts] ELSE n
        s == CheckFlapping(m, FALSE, ~x.is_flapping)
    IN [s EXCEPT !.check_flapping_recovery = @ /\ ~(x.is_flapping /\ ~s.is_flapping)]

Restart ==
    /\ o' = Restarted(o)
    /\ UNCHANGED <<config, env, checked>>

\* A command changes the object.
Change(x) == o' = [x EXCEPT !.calm = FALSE] /\ UNCHANGED <<config, env, checked>>

\* A command, or an event elsewhere, changes what notifications depend on.
Surround(e) ==
    /\ env' = e /\ o' = [o EXCEPT !.calm = FALSE]
    /\ UNCHANGED <<config, checked>>

\* ACKNOWLEDGE_SVC_PROBLEM, ACKNOWLEDGE_HOST_PROBLEM: contacts are told first.
Acknowledge(type) ==
    /\ ~IsOk(o)
    /\ Change([Notify(o, "ACKNOWLEDGEMENT", None) EXCEPT
                 !.acknowledged = TRUE, !.acknowledgement_type = type])

\* REMOVE_SVC_ACKNOWLEDGEMENT, REMOVE_HOST_ACKNOWLEDGEMENT
RemoveAcknowledgement == o.acknowledged /\ Change([o EXCEPT !.acknowledged = FALSE])

\* SEND_CUSTOM_SVC_NOTIFICATION, SEND_CUSTOM_HOST_NOTIFICATION
SendCustom(options) == Change(Notify(o, "CUSTOM", options))

\* SET_SVC_NOTIFICATION_NUMBER, SET_HOST_NOTIFICATION_NUMBER
SetNumber(number) == Change([o EXCEPT !.number = number, !.tampered = TRUE])

\* DELAY_SVC_NOTIFICATION, DELAY_HOST_NOTIFICATION
Delay(ticks) == Change([o EXCEPT !.wait = ticks])

\* ENABLE_SVC_NOTIFICATIONS, DISABLE_SVC_NOTIFICATIONS and those of a host
SwitchNotifications == Change([o EXCEPT !.notifications_enabled = ~@])

\* A downtime of the object starts, or it ends; contacts are told while the
\* object is not in it.
StartDowntime ==
    ~o.downtime /\ Change([Notify(o, "DOWNTIMESTART", None) EXCEPT !.downtime = TRUE])
EndDowntime ==
    o.downtime /\ Change(Notify([o EXCEPT !.downtime = FALSE], "DOWNTIMEEND", None))

\* ENABLE_SVC_FLAP_DETECTION, ENABLE_HOST_FLAP_DETECTION
EnableFlapDetection ==
    /\ ~o.flap_detection_enabled
    /\ Change(CheckFlapping([o EXCEPT !.flap_detection_enabled = TRUE], FALSE, TRUE))

\* DISABLE_SVC_FLAP_DETECTION, DISABLE_HOST_FLAP_DETECTION: the object is no
\* longer flapping by the time handle_service_flap_detection_disabled() asks.
DisableFlapDetection ==
    /\ o.flap_detection_enabled
    /\ Change(FlapDetectionDisabled([o EXCEPT !.flap_detection_enabled = FALSE,
                                              !.is_flapping = FALSE,
                                              !.abandoned = @ \/ o.is_flapping]))

\* ENABLE_FLAP_DETECTION, DISABLE_FLAP_DETECTION: every object is judged again.
EnableFlapping ==
    /\ ~o.enable_flap_detection
    /\ Change(CheckFlapping([o EXCEPT !.enable_flap_detection = TRUE], FALSE, TRUE))
DisableFlapping ==
    /\ o.enable_flap_detection
    /\ Change(FlapDetectionDisabled([o EXCEPT !.enable_flap_detection = FALSE]))

\* ENABLE_NOTIFICATIONS, DISABLE_NOTIFICATIONS
SwitchAllNotifications == Surround([env EXCEPT !.enabled = ~@])

\* The notification period is over, to begin again after some ticks.
PeriodCloses == env.closed = 0 /\ Surround([env EXCEPT !.closed = config.closing])

\* The host of the service goes down or comes back, or its downtime starts or ends.
HostChanges == IsService /\ Surround([env EXCEPT !.host_up = ~@])
HostDowntimeChanges == IsService /\ Surround([env EXCEPT !.host_downtime = ~@])

\* A notification dependency fails or holds again.
DependencyChanges == Surround([env EXCEPT !.dependencies = ~@])

\* A module begins or ends to cancel notifications.
VetoChanges == Surround([env EXCEPT !.veto = ~@])

\* A contact leaves or enters its period, or its notifications are switched.
ContactChanges(c) == Surround([env EXCEPT !.muted = SymDiff(@, {c})])

\* An escalation leaves or enters its period, or its condition changes.
EscalationChanges(e) == Surround([env EXCEPT !.resting = SymDiff(@, {e})])

Given(command) == command \in config.commands

Command ==
    /\ spent < MaxCommands /\ spent' = spent + 1
    /\ \/ Given("restart") /\ Restart
       \/ Given("acknowledge") /\ \E type \in {"NORMAL", "STICKY"} : Acknowledge(type)
       \/ Given("acknowledge") /\ RemoveAcknowledgement
       \/ Given("custom") /\ \E options \in SUBSET {"FORCED", "BROADCAST", "INCREMENT"} :
                               SendCustom(options)
       \/ Given("number") /\ \E number \in {0, NumberCap} : SetNumber(number)
       \/ Given("delay") /\ Delay(config.delays)
       \/ Given("switch") /\ (SwitchNotifications \/ SwitchAllNotifications)
       \/ Given("downtime") /\ (StartDowntime \/ EndDowntime \/ HostDowntimeChanges)
       \/ Given("flapping") /\ (EnableFlapDetection \/ DisableFlapDetection)
       \/ Given("flapping") /\ (EnableFlapping \/ DisableFlapping)
       \/ Given("period") /\ PeriodCloses
       \/ Given("host") /\ HostChanges
       \/ Given("dependency") /\ DependencyChanges
       \/ Given("veto") /\ VetoChanges
       \/ Given("mute") /\ \E c \in DOMAIN config.listens : ContactChanges(c)
       \/ Given("rest") /\ \E e \in config.escalations : EscalationChanges(e)

Next ==
    \/ \E outcome \in State : Result(outcome)
    \/ \E update \in BOOLEAN : ServiceOfHost(update)
    \/ Tick
    \/ Command

Spec == Init /\ [][Next]_vars

\* Time passes, and checks go on: after every tick a state that lasts is reported
\* again, which is what makes checked true.
Rechecked == ~checked /\ checked' = TRUE
FairSpec == Spec /\ WF_vars(Tick) /\ WF_checked(Rechecked)

---------------------------------------------------------------------------------
(* Properties *)

\* A problem that was told of is followed by at most one notification of its end,
\* and no end is told of a problem that was not: the flags reset at the recovery
\* keep the second attempts, when flapping stops, from telling it again.
OneRecovery == o.phase # "again"

\* Whoever got the last notification of a hard problem, and wants to know, gets
\* the one of its end, whatever escalations took part, unless a command or
\* flapping came between: "only those people who were notified about the problem
\* on the third notification should be notified about the recovery".
RecoveryReachesNotified ==
    [][~IsOk(o) /\ o.state_type = "HARD" /\ IsOk(o') /\ o.phase = "problem" /\ o.calm
       /\ ~o.is_flapping /\ ~o'.is_flapping /\ "RECOVERY" \in config.notify_on
        => o'.due = {}]_vars

\* The number of notifications and the states notified of agree, so that a
\* recovery is told exactly if a problem was, unless the number was set by hand or
\* counted for something that did not go out.
NumberMatches == ~o.tampered => (o.number = 0 <=> o.notified_on = {})

\* A flapping object has its comment, and the comment goes with the flapping,
\* unless flap detection was disabled for the object itself.
FlappingIsAnnotated ==
    /\ o.is_flapping => o.linked /\ o.comments > 0
    /\ ~o.abandoned => o.comments = IF o.is_flapping THEN 1 ELSE 0

\* What is remembered of a problem agrees with what was told and written of it.
Consistent == TypeOK /\ NumberMatches /\ FlappingIsAnnotated

\* As long as a problem stays as it is, the next notification is one interval
\* after the last one, over restarts too, and there is none if the interval is 0.
Armed ==
    ~IsOk(o) /\ o.since # Never /\ o.calm =>
        /\ o.wait = IF Interval(o) > o.since THEN Interval(o) - o.since ELSE 0
        /\ o.no_more = (Interval(o) = 0 /\ ~(IsService /\ config.is_volatile > 0))

\* A hard problem that nothing keeps from being told.
Lasting ==
    /\ ~IsOk(o) /\ o.state_type = "HARD" /\ o.current_state \in config.notify_on
    /\ ~o.acknowledged /\ ~o.is_flapping /\ ~o.downtime /\ o.notifications_enabled
    /\ env.enabled /\ env.host_up /\ ~env.host_downtime /\ env.dependencies /\ ~env.veto
    /\ \A c \in DOMAIN config.listens :
          c \notin env.muted /\ o.current_state \in config.listens[c]

\* It is told, the delay of the first notification and the period notwithstanding,
\* and told again and again if there is an interval.
LastingProblemIsTold ==
    /\ <>[]Lasting => <>[](o.number > 0 /\ o.notified_on # {})
    /\ <>[](Lasting /\ Interval(o) > 0) => []<>(o.since = 0)

\* "see if we should check to send a recovery notification out when flapping
\* stops": the recovery that was not told because of flapping is told then.
FlappingRecoveryIsTold ==
    [][o.is_flapping /\ ~o'.is_flapping /\ o.check_flapping_recovery /\ spent = 0
       /\ IsOk(o') /\ "RECOVERY" \in config.notify_on
        => o'.phase = "recovered"]_vars
=================================================================================
