------------------------------ MODULE ServiceCheck -------------------------------
(***************************************************************************)
(* handle_async_service_check_result() of base/checks.c for one service:   *)
(* soft and hard states, retries, problem ids, acknowledgements, and the   *)
(* effect of the host's state.                                             *)
(*                                                                         *)
(* The handler is not atomic.  Whenever it runs an event handler it calls, *)
(* through handle_service_event(), check_for_external_commands(), and with *)
(* aggressive host checking it runs a host check, whose event handlers do  *)
(* the same: external commands are processed in the middle of a result.    *)
(* pc is the place where the handler is interrupted, and local holds the   *)
(* local variables it uses afterwards.                                     *)
(*                                                                         *)
(* What a result does to the fields of the service is in ServiceRules.     *)
(* Not here: whether a result is accepted, when the next check is run, and *)
(* stalking.  UNKNOWN is a problem state like any other.                   *)
(***************************************************************************)
EXTENDS ServiceRules

CONSTANTS
    MaxAttempts,  \* max_check_attempts in the configuration: any of these
    NewAttempts,  \* values given by CHANGE_MAX_SVC_CHECK_ATTEMPTS commands
    MaxProblems   \* bound: problem ids handed out

ASSUME AttemptsAssumption ==
    MaxAttempts \subseteq Nat \ {0} /\ MaxAttempts # {} /\ NewAttempts \subseteq Nat
ASSUME BoundAssumption == MaxProblems \in Nat

HostState == {"UP", "DOWN"}   \* UNREACHABLE is handled like DOWN

\* What a plugin may report: a state, or something that is not one (a return
\* code out of bounds, a plugin that did not exit properly).
Outcome == ServiceState \cup {"INVALID"}

VARIABLES
    svc,              \* the service
    host,             \* current_state of its host
    pc,               \* where handle_async_service_check_result() is
    local,            \* its state_change and hard_state_change
    next_problem_id,
    config,           \* is_volatile, use_aggressive_host_checking: never changed here
    acked_in,         \* the state in which the problem was acknowledged (history)
    adjusted          \* max_attempts has been changed by a command (history)

vars == <<svc, host, pc, local, next_problem_id, config, acked_in, adjusted>>

Service == [current_state : ServiceState, last_state : ServiceState,
            last_hard_state : ServiceState, state_type : StateType,
            current_attempt : Nat, max_attempts : Nat,
            host_problem_at_last_check : BOOLEAN, has_been_checked : BOOLEAN,
            acknowledged : BOOLEAN, acknowledgement_type : AckType,
            current_problem_id : Nat]

Pc == {"idle", "verify", "first", "hostcheck", "recovered", "down", "retry", "problem"}

TypeOK ==
    /\ svc \in Service
    /\ host \in HostState
    /\ pc \in Pc
    /\ local \in [state_change : BOOLEAN, hard_state_change : BOOLEAN]
    /\ next_problem_id \in Nat
    /\ config \in [is_volatile : BOOLEAN, aggressive : BOOLEAN]
    /\ acked_in \in ServiceState
    /\ adjusted \in BOOLEAN

NoChange == [state_change |-> FALSE, hard_state_change |-> FALSE]

\* add_service(): initial_state is a configuration directive.
Init ==
    /\ \E initial \in ServiceState, max \in MaxAttempts :
        /\ svc = [current_state |-> initial, last_state |-> initial,
                  last_hard_state |-> initial, state_type |-> "HARD",
                  current_attempt |-> IF initial = "OK" THEN 1 ELSE max,
                  max_attempts |-> max,
                  host_problem_at_last_check |-> FALSE, has_been_checked |-> FALSE,
                  acknowledged |-> FALSE, acknowledgement_type |-> "NONE",
                  current_problem_id |-> 0]
        /\ acked_in = initial
    /\ host \in HostState
    /\ pc = "idle" /\ local = NoChange
    /\ next_problem_id = 1
    /\ config \in [is_volatile : BOOLEAN, aggressive : BOOLEAN]
    /\ adjusted = FALSE

---------------------------------------------------------------------------------
(* What the stretches of the handler do to the service. *)

NewProblem(s) == StateChange(s) /\ s.last_state = "OK"

\* Mutant: a recovery keeps the id.
KeptId(s) ==
    IF StateChange(s) /\ NewProblem(s)
    THEN [s EXCEPT !.current_problem_id = next_problem_id]
    ELSE s

\* A new problem gets the next id, a recovery gives the id up.
Identified(s) ==
    IF ~StateChange(s) THEN s
    ELSE [s EXCEPT !.current_problem_id =
            CASE s.current_state = "OK" -> 0
              [] NewProblem(s) -> next_problem_id
              [] OTHER -> @]

---------------------------------------------------------------------------------
(* The steps of the handler *)

\* handle_service_event() with s, to go on at next.
HandleServiceEvent(s, next) ==
    /\ svc' = s
    /\ pc' = next

\* The end of the handler: the service has been checked.
Finish(s) ==
    /\ svc' = [s EXCEPT !.has_been_checked = TRUE]
    /\ pc' = "idle"

\* The service is OK.
Recover(s, change) ==
    \/ /\ change.hard_state_change
       /\ HandleServiceEvent([s EXCEPT !.state_type = "HARD"], "recovered")
    \/ /\ ~change.hard_state_change /\ change.state_change
       /\ HandleServiceEvent([s EXCEPT !.state_type = "SOFT"], "recovered")
    \/ /\ ~change.hard_state_change /\ ~change.state_change
       /\ Finish(Reset(s))

\* All attempts are used up: a hard state.  The event handler is only run if
\* the hard state is new or the service is volatile.
Exhausted(s, hard) ==
    LET h == [s EXCEPT !.state_type = "HARD"]
    IN \/ /\ hard \/ config.is_volatile
          /\ HandleServiceEvent(h, "problem")
       \/ /\ ~hard /\ ~config.is_volatile
          /\ Finish([h EXCEPT !.last_hard_state = h.current_state])

\* There is a problem; route is the state of the host (route_result).
Fail(s, change, route) ==
    LET hard == \/ change.hard_state_change
                \/ route # "UP" /\ s.last_hard_state # s.current_state
        f == IF route = "UP" THEN HostUp(s) ELSE HostDown(s, hard)
        retries == f.current_attempt < f.max_attempts
    IN \/ retries /\ route = "UP"
          /\ HandleServiceEvent([f EXCEPT !.state_type = "SOFT"], "retry")
       \/ retries /\ route # "UP" /\ hard /\ HandleServiceEvent(f, "down")
       \/ retries /\ route # "UP" /\ ~hard /\ Finish(f)
       \/ ~retries /\ Exhausted(f, hard)

Decide(s, change, route) ==
    \/ s.current_state = "OK" /\ Recover(s, change)
    \/ s.current_state # "OK" /\ Fail(s, change, route)

\* Aggressive host checking runs a host check on a problem, and on an OK if the
\* host is not up.
ChecksHost(s) == config.aggressive /\ (s.current_state # "OK" \/ host # "UP")

\* "reset the acknowledgement flag (this should already have been done, but
\* just in case...)"
AckReset(s) == IF s.current_state = "OK" THEN Unacknowledged(s) ELSE s

\* From the counting of the attempt to the decision.
Evaluate(s0) ==
    LET c == Counted(s0)
        change == [state_change |-> StateChange(c), hard_state_change |-> HardStateChange(c)]
        s == AckReset(Identified(ClearedAck(c)))
    IN /\ next_problem_id' = IF NewProblem(c) THEN next_problem_id + 1 ELSE next_problem_id
       /\ \/ /\ ChecksHost(s)
             /\ svc' = s /\ pc' = "hostcheck" /\ local' = change
          \/ /\ ~ChecksHost(s)
             /\ Decide(s, change, host)
             /\ local' = NoChange

---------------------------------------------------------------------------------
(* Actions *)

\* The first OK of a service is an event of its own.
Begin(s) ==
    \/ /\ s.current_state = "OK" /\ ~s.has_been_checked
       /\ HandleServiceEvent(s, "first")
       /\ UNCHANGED <<local, next_problem_id>>
    \/ /\ s.current_state # "OK" \/ s.has_been_checked
       /\ Evaluate(s)

\* A result is taken from the list of check results.  Aggressive host checking
\* begins an OK with a host check if the host has never been checked, which is
\* not kept here: it may happen at any OK.
Result(outcome) ==
    /\ pc = "idle"
    /\ next_problem_id > MaxProblems => (svc.current_state = "OK" <=> outcome = "OK")
    /\ LET s == Received(svc, outcome)
       IN \/ Begin(s)
          \/ /\ config.aggressive /\ s.current_state = "OK"
             /\ svc' = s /\ pc' = "verify"
             /\ UNCHANGED <<local, next_problem_id>>
    /\ UNCHANGED <<host, config, acked_in, adjusted>>

\* Back from the first check of the host.
AfterVerify ==
    /\ pc = "verify"
    /\ Begin(svc)
    /\ UNCHANGED <<host, config, acked_in, adjusted>>

\* Back from the event handler of the first OK.
AfterFirst ==
    /\ pc = "first"
    /\ Evaluate(svc)
    /\ UNCHANGED <<host, config, acked_in, adjusted>>

\* Back from perform_on_demand_host_check().  A cached state is handed back as it
\* is; a real check may find the host changed, and leaves route_result at UP.
AfterHostCheck ==
    /\ pc = "hostcheck"
    /\ \/ host' = host /\ Decide(svc, local, host)
       \/ host' \in HostState /\ Decide(svc, local, "UP")
    /\ local' = NoChange
    /\ UNCHANGED <<next_problem_id, config, acked_in, adjusted>>

\* Back from the event handler of a recovery.
AfterRecovery ==
    /\ pc = "recovered"
    /\ Finish(Reset(svc))
    /\ UNCHANGED <<host, local, next_problem_id, config, acked_in, adjusted>>

\* Back from the event handler of a soft problem, or of a hard one the host
\* is to blame for.
AfterRetry ==
    /\ pc \in {"down", "retry"}
    /\ Finish(svc)
    /\ UNCHANGED <<host, local, next_problem_id, config, acked_in, adjusted>>

\* Back from the event handler of a hard problem.
AfterProblem ==
    /\ pc = "problem"
    /\ Finish([svc EXCEPT !.last_hard_state = svc.current_state])
    /\ UNCHANGED <<host, local, next_problem_id, config, acked_in, adjusted>>

\* The result of a host check is handled between two results of the service, or
\* in the first check of the host.
HostChanges ==
    /\ pc \in {"idle", "verify"}
    /\ host' \in HostState \ {host}
    /\ UNCHANGED <<svc, pc, local, next_problem_id, config, acked_in, adjusted>>

\* ACKNOWLEDGE_SVC_PROBLEM: "cannot acknowledge a non-existent problem".
Acknowledge(type) ==
    /\ svc.current_state # "OK"
    /\ svc' = [svc EXCEPT !.acknowledged = TRUE, !.acknowledgement_type = type]
    /\ acked_in' = svc.current_state
    /\ UNCHANGED <<host, pc, local, next_problem_id, config, adjusted>>

\* REMOVE_SVC_ACKNOWLEDGEMENT: the type of the acknowledgement stays.
RemoveAcknowledgement ==
    /\ svc' = [svc EXCEPT !.acknowledged = FALSE]
    /\ UNCHANGED <<host, pc, local, next_problem_id, config, acked_in, adjusted>>

\* CHANGE_MAX_SVC_CHECK_ATTEMPTS: "adjust current attempt number if in a hard
\* state".
ChangeMaxAttempts(max) ==
    /\ svc' = [svc EXCEPT
         !.max_attempts = max,
         !.current_attempt =
            IF svc.state_type = "HARD" /\ svc.current_state # "OK" /\ @ > 1 THEN max ELSE @]
    /\ adjusted' = (adjusted \/ max # svc.max_attempts)
    /\ UNCHANGED <<host, pc, local, next_problem_id, config, acked_in>>

Handler ==
    \/ AfterVerify \/ AfterFirst \/ AfterHostCheck \/ AfterRecovery \/ AfterRetry \/ AfterProblem

Command ==
    \/ \E type \in {"NORMAL", "STICKY"} : Acknowledge(type)
    \/ RemoveAcknowledgement
    \/ \E max \in NewAttempts : ChangeMaxAttempts(max)

Next ==
    \/ \E outcome \in Outcome : Result(outcome)
    \/ Handler
    \/ HostChanges
    \/ Command

Spec == Init /\ [][Next]_vars

\* Results keep coming in, and the handler ends.  Nothing makes the host change
\* or anybody give a command.
FairSpec ==
    /\ Spec
    /\ WF_vars(\E outcome \in Outcome : Result(outcome))
    /\ WF_vars(Handler)

---------------------------------------------------------------------------------
(* Properties *)

AtRest == pc = "idle"

\* A normal acknowledgement does not outlive the state it was given in, also if
\* it was given while a result was being handled.
NormalAckKeepsToState ==
    svc.acknowledged /\ svc.acknowledgement_type = "NORMAL" => svc.current_state = acked_in

\* Unless the number of attempts is changed, a hard problem has used up its
\* attempts, or the host is to blame; a soft one has attempts left.
HardHasReason ==
    AtRest /\ svc.current_state # "OK" /\ ~adjusted =>
        \/ /\ svc.state_type = "SOFT"
           /\ svc.current_attempt <= svc.max_attempts
        \/ /\ svc.state_type = "HARD"
           /\ \/ svc.current_attempt = svc.max_attempts
              \/ svc.host_problem_at_last_check

\* Between two results an OK service carries nothing of its last problem, a normal
\* acknowledgement is of the state the service is in, and a problem is soft only
\* before it is hard: last_hard_state is what the service was last known to be for
\* good, whatever commands came in between, and a hard problem has earned it.
RestIsConsistent ==
    /\ TypeOK
    /\ AtRest =>
        /\ svc.current_state = "OK" =>
              /\ svc.state_type = "HARD" /\ svc.current_attempt = 1
              /\ ~svc.acknowledged /\ ~svc.host_problem_at_last_check
        /\ NormalAckKeepsToState
        /\ svc.state_type = "HARD" => svc.last_hard_state = svc.current_state
    /\ HardHasReason

\* A recovery from a hard problem is a hard recovery, the one contacts hear of:
\* "When a host or service recovers from a hard error state. This is considered
\* to be a hard recovery."  Raising the number of attempts during the problem takes
\* it for a soft one.
HardRecoveryIfLeftAlone ==
    [][~adjusted /\ pc' = "recovered" /\ svc'.last_state # "OK" /\ svc.state_type = "HARD"
        => svc'.state_type = "HARD"]_vars

\* Nothing but an OK, a command or another acknowledgement ends a sticky one.
StickyAckStays ==
    [][svc.acknowledged /\ svc.acknowledgement_type = "STICKY" /\ ~svc'.acknowledged
        => svc'.current_state = "OK" \/ RemoveAcknowledgement]_vars

\* A problem has one id for as long as it lasts, and no other problem gets it:
\* once a result has been looked at, only a problem has an id, and it is the one
\* given last; a problem without one is the initial state, the only problem so far.
ProblemKeepsId ==
    pc \notin {"verify", "first"} =>
    /\ svc.current_problem_id # 0 =>
          svc.current_state # "OK" /\ svc.current_problem_id = next_problem_id - 1
    /\ svc.current_problem_id = 0 /\ svc.current_state # "OK" /\ AtRest =>
          next_problem_id = 1

\* A problem that stays, on a host that stays up, becomes a hard problem for good,
\* unless somebody keeps changing the number of attempts.
ProblemBecomesHard ==
    /\ <>[](svc.current_state # "OK" /\ host = "UP")
    /\ <>[][UNCHANGED svc.max_attempts]_vars
    => <>[](svc.state_type = "HARD")
=================================================================================
