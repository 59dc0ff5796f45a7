------------------------------ MODULE ServiceRules -------------------------------
(***************************************************************************)
(* What a check result does to the fields of a service, without the steps  *)
(* of the handler around it.  A service is a record with (at least) the    *)
(* fields these operators name.                                            *)
(***************************************************************************)
EXTENDS Naturals

CONSTANT Problems   \* the non-OK states of a service

ASSUME ProblemsAssumption == "CRITICAL" \in Problems /\ "OK" \notin Problems

ServiceState == Problems \cup {"OK"}
StateType == {"SOFT", "HARD"}
AckType == {"NONE", "NORMAL", "STICKY"}

\* Save the old state and take over the new one.
Received(s, outcome) ==
    [s EXCEPT !.last_state = s.current_state,
              !.current_state = IF outcome \in ServiceState THEN outcome ELSE "CRITICAL"]

\* Mutant: the last attempt is never reached.
CountedShort(s) ==
    IF s.state_type = "SOFT" /\ s.current_attempt + 1 < s.max_attempts
    THEN [s EXCEPT !.current_attempt = @ + 1]
    ELSE s

\* "increment the current attempt number if this is a soft state"
Counted(s) ==
    IF s.state_type = "SOFT" /\ s.current_attempt < s.max_attempts
    THEN [s EXCEPT !.current_attempt = @ + 1]
    ELSE s

StateChange(s) == s.current_state # s.last_state

\* Mutant: the trouble the host had does not make the recovery a hard one.
HardByAttempts(s) ==
    s.current_attempt >= s.max_attempts /\ s.current_state # s.last_hard_state

HardStateChange(s) ==
    \/ s.host_problem_at_last_check /\ s.current_state = "OK"
    \/ s.current_attempt >= s.max_attempts /\ s.current_state # s.last_hard_state

Unacknowledged(s) ==
    [s EXCEPT !.acknowledged = FALSE, !.acknowledgement_type = "NONE"]

\* Mutant: every change of state ends a sticky acknowledgement too.
LostAck(s) == IF StateChange(s) THEN Unacknowledged(s) ELSE s

\* A change of state ends a normal acknowledgement, an OK ends a sticky one.
ClearedAck(s) ==
    LET changed == StateChange(s) \/ HardStateChange(s)
        normal == /\ s.acknowledgement_type = "NORMAL"
                  /\ StateChange(s) \/ ~HardStateChange(s)
        sticky == s.acknowledgement_type = "STICKY" /\ s.current_state = "OK"
    IN IF changed /\ (normal \/ sticky) THEN Unacknowledged(s) ELSE s

\* Mutant: the service is left in the soft state of its recovery.
ResetSoft(s) ==
    [Unacknowledged(s) EXCEPT !.host_problem_at_last_check = FALSE,
                              !.current_attempt = 1,
                              !.last_hard_state = "OK"]

\* "reset all service variables because its okay now..."
Reset(s) ==
    [Unacknowledged(s) EXCEPT !.host_problem_at_last_check = FALSE,
                              !.current_attempt = 1,
                              !.state_type = "HARD",
                              !.last_hard_state = "OK"]

\* The host is not up: the state is hard as soon as it differs from the last
\* hard state.  The attempts are left alone.
HostDown(s, hard) ==
    [s EXCEPT !.host_problem_at_last_check = TRUE,
              !.state_type = IF hard THEN "HARD" ELSE @,
              !.last_hard_state = IF hard THEN s.current_state ELSE @]

\* The host is up.  If it was not at the last check, "give the service a
\* chance": start counting again, unless the problem was hard already.
HostUp(s) ==
    [s EXCEPT !.host_problem_at_last_check = FALSE,
              !.current_attempt =
                 IF s.host_problem_at_last_check /\ s.state_type = "SOFT" THEN 1 ELSE @]
=================================================================================
