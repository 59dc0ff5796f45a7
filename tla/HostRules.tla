-------------------------------- MODULE HostRules --------------------------------
(***************************************************************************)
(* What a check result does to the fields of a host, without the checks of *)
(* other hosts it asks for.  A host is a record with (at least) the fields *)
(* these operators name; a check is a record [active, soft, translate]:    *)
(* whether it was active, and the options passive_host_checks_are_soft and *)
(* translate_passive_host_checks.                                          *)
(***************************************************************************)
EXTENDS Naturals

HostState == {"UP", "DOWN", "UNREACHABLE"}

\* A passive result is hard at once unless passive_host_checks_are_soft.
HardAtOnce(check) == ~check.active /\ ~check.soft

\* The attempt a check is: counted up in a soft problem, 1 otherwise.
Adjusted(h, active) ==
    [h EXCEPT !.current_attempt =
       IF h.state_type = "HARD" \/ (active /\ h.current_state = "UP") THEN 1
       ELSE IF @ < h.max_attempts THEN @ + 1 ELSE @]

\* Save the old state: the one before, and the last hard one.
Saved(h) ==
    [h EXCEPT !.last_state = h.current_state,
              !.last_hard_state = IF h.state_type = "HARD" THEN h.current_state ELSE @]

\* "the host just recovered!"  A soft problem ends with a soft recovery.
Recovered(h, check) ==
    [h EXCEPT !.current_state = "UP",
              !.state_type = IF HardAtOnce(check) THEN "HARD" ELSE @]

\* Mutant: a problem that was hard is soft again.
StillDownSoft(h, new, route, check) ==
    [h EXCEPT !.current_state = IF check.active \/ check.translate THEN route ELSE new,
              !.state_type = IF HardAtOnce(check) \/ h.current_attempt = h.max_attempts
                             THEN "HARD" ELSE "SOFT",
              !.current_attempt = IF HardAtOnce(check) THEN 1 ELSE @]

\* Mutant: one attempt too early.
StillDownEarly(h, new, route, check) ==
    [h EXCEPT !.current_state = IF check.active \/ check.translate THEN route ELSE new,
              !.state_type = IF HardAtOnce(check) \/ h.current_attempt + 1 >= h.max_attempts
                             THEN "HARD" ELSE "SOFT",
              !.current_attempt = IF HardAtOnce(check) THEN 1 ELSE @]

\* Still a problem: hard when the attempts are used up, and at attempt 1, where
\* only a hard problem starts again.  route is DOWN or UNREACHABLE, as the
\* parents have it.
StillDown(h, new, route, check) ==
    [h EXCEPT !.current_state = IF check.active \/ check.translate THEN route ELSE new,
              !.state_type = IF \/ HardAtOnce(check)
                                \/ h.current_attempt \in {1, h.max_attempts}
                             THEN "HARD" ELSE "SOFT",
              !.current_attempt = IF HardAtOnce(check) THEN 1 ELSE @]

StillUp(h) == [h EXCEPT !.current_state = "UP", !.state_type = "HARD"]

\* A new problem is hard at once if there is only one attempt.
WentDown(h, new, route, check) ==
    [h EXCEPT !.current_state = IF check.active \/ check.translate THEN route ELSE new,
              !.state_type = IF h.max_attempts = 1 \/ HardAtOnce(check)
                             THEN "HARD" ELSE "SOFT",
              !.current_attempt = IF h.max_attempts > 1 /\ HardAtOnce(check) THEN 1 ELSE @]

\* process_host_check_result_3x(), up to the handling of the new state.
Processed(h, new, route, check) ==
    CASE h.current_state # "UP" /\ new = "UP" -> Recovered(h, check)
      [] h.current_state # "UP" /\ new # "UP" -> StillDown(h, new, route, check)
      [] h.current_state = "UP" /\ new = "UP" -> StillUp(h)
      [] h.current_state = "UP" /\ new # "UP" -> WentDown(h, new, route, check)

\* The host changed, or its soft recovery is over.
HostStateChange(h) ==
    \/ h.last_state # h.current_state
    \/ h.current_state = "UP" /\ h.state_type = "SOFT"

HostHardChange(h) == h.last_hard_state # h.current_state

HostUnacknowledged(h) ==
    [h EXCEPT !.acknowledged = FALSE, !.acknowledgement_type = "NONE"]

\* handle_host_state(): a change of state ends a normal acknowledgement, UP a
\* sticky one.
HostClearedAck(h) ==
    LET hard == h.current_attempt >= h.max_attempts /\ HostHardChange(h)
        normal == /\ h.acknowledgement_type = "NORMAL"
                  /\ HostStateChange(h) \/ ~hard
        sticky == h.acknowledgement_type = "STICKY" /\ h.current_state = "UP"
    IN IF (HostStateChange(h) \/ hard) /\ (normal \/ sticky)
       THEN HostUnacknowledged(h) ELSE h
=================================================================================
