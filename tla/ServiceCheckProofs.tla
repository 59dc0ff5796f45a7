----------------------------- MODULE ServiceCheckProofs ------------------------------
(***************************************************************************)
(* ServiceCheck: its invariants and two of its action properties, for all  *)
(* problem states, numbers of attempts and bounds.                         *)
(*                                                                         *)
(* RestIsConsistent and ProblemKeepsId speak of the service between two    *)
(* results.  What makes them inductive is said for every place where the   *)
(* handler may be interrupted: before a result has been looked at, what is *)
(* true at rest is true of the state before it (last_state); afterwards    *)
(* each place knows as much as the rest of the handler needs.              *)
(***************************************************************************)
EXTENDS ServiceCheck, TLAPS

Change == [state_change : BOOLEAN, hard_state_change : BOOLEAN]

\* The attempts of s, unless their number was changed (adj).
Bounded(s, adj) ==
    ~adj => s.max_attempts >= 1 /\ s.current_attempt <= s.max_attempts

\* A hard state has used up the attempts, or the host is to blame.
Earned(s, adj) ==
    ~adj /\ s.state_type = "HARD" =>
        s.current_attempt = s.max_attempts \/ s.host_problem_at_last_check

\* The acknowledgement and the id that s has are those of the state st: acked is
\* the state acknowledged, n the next id.
Labelled(s, st, acked, n) ==
    /\ s.acknowledged /\ s.acknowledgement_type = "NORMAL" => st = acked
    /\ s.current_problem_id # 0 => st # "OK" /\ s.current_problem_id = n - 1
    /\ s.current_problem_id = 0 /\ st # "OK" => n = 1

\* s at rest in the state st.
Settled(s, st, adj) ==
    /\ st = "OK" =>
          /\ s.state_type = "HARD" /\ s.current_attempt = 1
          /\ ~s.acknowledged /\ ~s.host_problem_at_last_check
    /\ s.state_type = "HARD" => s.last_hard_state = st
    /\ st # "OK" => Earned(s, adj)

\* What the place p where the handler is interrupted knows of s; change is what
\* it keeps in its local variables.
Known(s, p, change, adj) ==
    /\ p = "idle" => Settled(s, s.current_state, adj)
    /\ p \in {"verify", "first"} =>
          s.current_state = "OK" /\ Settled(s, s.last_state, adj)
    /\ p = "hostcheck" /\ ~adj /\ s.current_state = "OK" /\ s.last_state # "OK"
          /\ s.state_type = "HARD" => change.hard_state_change
    /\ p = "recovered" => s.current_state = "OK"
    /\ p \in {"retry", "down", "problem"} => s.current_state # "OK"
    /\ p = "retry" => s.state_type = "SOFT"
    /\ p = "down" =>
          s.state_type = "HARD" /\ s.last_hard_state = s.current_state
          /\ s.host_problem_at_last_check
    /\ p = "problem" => s.state_type = "HARD" /\ Earned(s, adj)

\* The state that the acknowledgement and the id belong to.
LabelState(s, p) == IF p \in {"verify", "first"} THEN s.last_state ELSE s.current_state

IInv ==
    /\ TypeOK
    /\ Bounded(svc, adjusted)
    /\ Known(svc, pc, local, adjusted)
    /\ Labelled(svc, LabelState(svc, pc), acked_in, next_problem_id)

LEMMA InitInv == Init => IInv
<1> SUFFICES ASSUME Init PROVE IInv
  OBVIOUS
<1>1. PICK initial \in ServiceState, max \in Nat \ {0} :
        /\ svc = [current_state |-> initial, last_state |-> initial,
                  last_hard_state |-> initial, state_type |-> "HARD",
                  current_attempt |-> IF initial = "OK" THEN 1 ELSE max,
                  max_attempts |-> max,
                  host_problem_at_last_check |-> FALSE, has_been_checked |-> FALSE,
                  acknowledged |-> FALSE, acknowledgement_type |-> "NONE",
                  current_problem_id |-> 0]
        /\ acked_in = initial
  BY AttemptsAssumption DEF Init
<1>2. svc \in Service
  BY <1>1 DEF Service, StateType, AckType
<1>3. TypeOK
  BY <1>1, <1>2 DEF Init, TypeOK, NoChange, Pc
<1>4. /\ Bounded(svc, adjusted) /\ Settled(svc, svc.current_state, adjusted)
      /\ Labelled(svc, svc.current_state, acked_in, 1)
  BY <1>1 DEF Bounded, Settled, Earned, Labelled
<1> QED
  BY <1>3, <1>4 DEF Init, IInv, Known, LabelState

---------------------------------------------------------------------------------
(* The operators on a service. *)

LEMMA ReceivedService ==
    ASSUME NEW s \in Service, NEW outcome \in Outcome
    PROVE  /\ Received(s, outcome) \in Service
           /\ Received(s, outcome).last_state = s.current_state
           /\ \A f \in {"last_hard_state", "state_type", "current_attempt", "max_attempts",
                        "host_problem_at_last_check", "has_been_checked", "acknowledged",
                        "acknowledgement_type", "current_problem_id"} :
                 Received(s, outcome)[f] = s[f]
BY ProblemsAssumption DEF Received, Service, ServiceState

LEMMA ResetService ==
    ASSUME NEW s \in Service
    PROVE  /\ Reset(s) \in Service
           /\ Reset(s) = [s EXCEPT !.acknowledged = FALSE, !.acknowledgement_type = "NONE",
                            !.host_problem_at_last_check = FALSE, !.current_attempt = 1,
                            !.state_type = "HARD", !.last_hard_state = "OK"]
BY DEF Reset, Unacknowledged, Service, ServiceState, StateType, AckType

\* From the counting of the attempt to the decision: what becomes of s0.
LEMMA Judged ==
    ASSUME NEW s0 \in Service, NEW adj \in BOOLEAN, NEW acked \in ServiceState,
           Bounded(s0, adj), Settled(s0, s0.last_state, adj),
           Labelled(s0, s0.last_state, acked, next_problem_id), next_problem_id \in Nat,
           NEW c, c = Counted(s0), NEW s, s = AckReset(Identified(ClearedAck(c))),
           NEW n, n = IF NewProblem(c) THEN next_problem_id + 1 ELSE next_problem_id
    PROVE  /\ s \in Service /\ n \in Nat
           /\ Bounded(s, adj)
           /\ Labelled(s, s.current_state, acked, n)
           /\ s.current_state = s0.current_state /\ s.last_state = s0.last_state
           /\ ~adj /\ s.current_state = "OK" /\ s.last_state # "OK" /\ s.state_type = "HARD"
                => HardStateChange(c)
           /\ s.state_type = s0.state_type
           /\ s0.acknowledged /\ s0.acknowledgement_type = "STICKY" /\ ~s.acknowledged
                => s.current_state = "OK"
<1>1. /\ c \in Service
      /\ c = [s0 EXCEPT !.current_attempt = c.current_attempt]
      /\ Bounded(c, adj)
      /\ s0.state_type = "HARD" => c = s0
  BY DEF Counted, Service, Bounded
<1> DEFINE k == ClearedAck(c)
           i == Identified(k)
<1>2. \/ k = c
      \/ /\ k = [c EXCEPT !.acknowledged = FALSE, !.acknowledgement_type = "NONE"]
         /\ \/ c.acknowledgement_type = "NORMAL"
            \/ c.acknowledgement_type = "STICKY" /\ c.current_state = "OK"
  BY DEF ClearedAck, Unacknowledged
<1>3. StateChange(c) /\ c.acknowledgement_type = "NORMAL" => ~k.acknowledged
  BY <1>1 DEF ClearedAck, Unacknowledged, Service
<1>4. /\ k \in Service
      /\ k = [c EXCEPT !.acknowledged = k.acknowledged,
                       !.acknowledgement_type = k.acknowledgement_type]
      /\ k.acknowledged => c.acknowledged /\ k.acknowledgement_type = c.acknowledgement_type
  BY ZenonT(60), <1>1, <1>2 DEF Service, AckType
<1>5. /\ i \in Service
      /\ i = [k EXCEPT !.current_problem_id = i.current_problem_id]
      /\ StateChange(k) = StateChange(c) /\ NewProblem(k) = NewProblem(c)
      /\ i.current_problem_id = IF ~StateChange(c) THEN c.current_problem_id
                                ELSE IF c.current_state = "OK" THEN 0
                                ELSE IF NewProblem(c) THEN next_problem_id
                                ELSE c.current_problem_id
  BY <1>1, <1>4 DEF Identified, StateChange, NewProblem, Service
<1>6. /\ s \in Service
      /\ s = [i EXCEPT !.acknowledged = s.acknowledged,
                       !.acknowledgement_type = s.acknowledgement_type]
      /\ s.acknowledged => /\ i.acknowledged /\ s.acknowledgement_type = i.acknowledgement_type
                           /\ s.current_state # "OK"
      /\ s.current_state # "OK" => s.acknowledged = i.acknowledged
  BY <1>5 DEF AckReset, Unacknowledged, Service, AckType
<1> HIDE DEF k, i
<1>7. /\ s.current_state = s0.current_state /\ s.last_state = s0.last_state
      /\ s.state_type = s0.state_type
      /\ s.current_attempt = c.current_attempt /\ s.max_attempts = c.max_attempts
      /\ c.current_state = s0.current_state /\ c.last_state = s0.last_state
      /\ c.acknowledged = s0.acknowledged
      /\ c.acknowledgement_type = s0.acknowledgement_type
      /\ c.current_problem_id = s0.current_problem_id
      /\ s.current_problem_id = i.current_problem_id
  <2>1. /\ \A f \in {"current_state", "last_state", "state_type", "current_attempt",
                   "max_attempts", "current_problem_id"} : s[f] = i[f]
        /\ \A f \in {"current_state", "last_state", "state_type", "current_attempt",
                   "max_attempts"} : i[f] = k[f]
    BY <1>5, <1>6 DEF Service
  <2>2. /\ \A f \in {"current_state", "last_state", "state_type", "current_attempt",
                   "max_attempts"} : k[f] = c[f]
        /\ \A f \in {"current_state", "last_state", "state_type", "acknowledged",
                   "acknowledgement_type", "current_problem_id"} : c[f] = s0[f]
    BY <1>1, <1>4 DEF Service
  <2> QED BY <2>1, <2>2
<1>8. Bounded(s, adj)
  BY <1>1, <1>7 DEF Bounded
<1>9. s.acknowledged /\ s.acknowledgement_type = "NORMAL" => s.current_state = acked
  <2> SUFFICES ASSUME s.acknowledged, s.acknowledgement_type = "NORMAL"
               PROVE  s.current_state = acked
    OBVIOUS
  <2>1. k.acknowledged /\ k.acknowledgement_type = "NORMAL"
    BY <1>5, <1>6 DEF Service
  <2>2. s0.acknowledged /\ s0.acknowledgement_type = "NORMAL"
    BY <2>1, <1>4, <1>7
  <2>3. ~StateChange(c)
    BY <2>1, <2>2, <1>3, <1>7
  <2> QED BY <2>2, <2>3, <1>7 DEF StateChange, Labelled
<1>10. Labelled(s, s.current_state, acked, n)
  BY <1>5, <1>7, <1>9 DEF Labelled, StateChange, NewProblem, Service
<1>11. ~adj /\ s.current_state = "OK" /\ s.last_state # "OK" /\ s.state_type = "HARD"
         => HardStateChange(c)
  <2> SUFFICES ASSUME ~adj, s.current_state = "OK", s.last_state # "OK", s.state_type = "HARD"
               PROVE  HardStateChange(c)
    OBVIOUS
  <2>1. c = s0
    BY <1>1, <1>7
  <2>2. /\ c.last_hard_state # "OK"
        /\ c.current_attempt = c.max_attempts \/ c.host_problem_at_last_check
        /\ c.current_state = "OK"
    BY <2>1, <1>7 DEF Settled, Earned
  <2> QED BY <2>2, <1>1 DEF HardStateChange, Service
<1>12. s0.acknowledged /\ s0.acknowledgement_type = "STICKY" /\ ~s.acknowledged
         => s.current_state = "OK"
  <2> SUFFICES ASSUME s0.acknowledged, s0.acknowledgement_type = "STICKY", ~s.acknowledged,
                      s.current_state # "OK"
               PROVE  FALSE
    OBVIOUS
  <2>1. ~k.acknowledged
    BY <1>5, <1>6 DEF Service
  <2> QED BY <2>1, <1>2, <1>7
<1> QED
  BY <1>6, <1>7, <1>8, <1>10, <1>11, <1>12

---------------------------------------------------------------------------------
(* The stretches of the handler. *)

\* The end of a stretch that decided on s: what is known of the service afterwards.
Decided(s, change, adj, acked, n) ==
    /\ svc' \in Service
    /\ pc' \in {"idle", "recovered", "down", "retry", "problem"}
    /\ Bounded(svc', adj)
    /\ Known(svc', pc', NoChange, adj)
    /\ Labelled(svc', svc'.current_state, acked, n)
    /\ svc'.current_state = s.current_state /\ svc'.last_state = s.last_state
    /\ s.acknowledged /\ ~svc'.acknowledged => s.current_state = "OK"
    /\ pc' = "recovered" /\ change.hard_state_change => svc'.state_type = "HARD"

LEMMA RecoverKeeps ==
    ASSUME NEW s \in Service, NEW change \in Change, NEW adj \in BOOLEAN,
           NEW acked \in ServiceState, NEW n \in Nat,
           Bounded(s, adj), Labelled(s, s.current_state, acked, n),
           s.current_state = "OK", Recover(s, change)
    PROVE  Decided(s, change, adj, acked, n)
<1>1. CASE \/ change.hard_state_change /\ svc' = [s EXCEPT !.state_type = "HARD"]
           \/ ~change.hard_state_change /\ svc' = [s EXCEPT !.state_type = "SOFT"]
  <2>1. pc' = "recovered"
    BY <1>1 DEF Recover, HandleServiceEvent, Finish, Reset, Unacknowledged, Service
  <2>2. /\ svc' \in Service
        /\ \A f \in {"current_state", "last_state", "current_attempt", "max_attempts",
                     "acknowledged", "acknowledgement_type", "current_problem_id"} :
              svc'[f] = s[f]
        /\ change.hard_state_change => svc'.state_type = "HARD"
    BY <1>1 DEF Service, StateType
  <2> QED
    BY <2>1, <2>2 DEF Decided, Bounded, Known, Labelled
<1>2. CASE Finish(Reset(s))
  <2>1. svc' = [s EXCEPT !.acknowledged = FALSE, !.acknowledgement_type = "NONE",
                         !.host_problem_at_last_check = FALSE, !.current_attempt = 1,
                         !.state_type = "HARD", !.last_hard_state = "OK",
                         !.has_been_checked = TRUE]
    BY <1>2, ResetService DEF Finish, Service
  <2>2. pc' = "idle"
    BY <1>2 DEF Finish
  <2> QED
    BY <2>1, <2>2, ProblemsAssumption
       DEF Decided, Bounded, Known, Settled, Labelled, Service, ServiceState, StateType, AckType
<1> QED
  BY <1>1, <1>2 DEF Recover, HandleServiceEvent

LEMMA FailKeeps ==
    ASSUME NEW s \in Service, NEW change \in Change, NEW route \in HostState,
           NEW adj \in BOOLEAN, NEW acked \in ServiceState, NEW n \in Nat,
           Bounded(s, adj), Labelled(s, s.current_state, acked, n),
           s.current_state # "OK", Fail(s, change, route)
    PROVE  Decided(s, change, adj, acked, n)
<1> DEFINE hard == \/ change.hard_state_change
                   \/ route # "UP" /\ s.last_hard_state # s.current_state
           f == IF route = "UP" THEN HostUp(s) ELSE HostDown(s, hard)
           Same(t) == \A x \in {"current_state", "last_state", "max_attempts",
                     "acknowledged", "acknowledgement_type", "current_problem_id"} :
              t[x] = s[x]
<1>1. /\ f \in Service /\ Same(f)
      /\ Bounded(f, adj)
      /\ route # "UP" => f.host_problem_at_last_check
      /\ route # "UP" /\ hard => f.state_type = "HARD" /\ f.last_hard_state = f.current_state
      /\ route # "UP" /\ ~hard => f.last_hard_state = f.current_state
  BY DEF HostUp, HostDown, Service, StateType, Bounded
<1>2. ASSUME svc' \in Service, Same(svc'), Bounded(svc', adj),
             pc' \in {"idle", "down", "retry", "problem"}, Known(svc', pc', NoChange, adj)
      PROVE  Decided(s, change, adj, acked, n)
  BY <1>2 DEF Decided, Labelled
<1>3. CASE f.current_attempt < f.max_attempts
  <2>1. CASE route = "UP" /\ HandleServiceEvent([f EXCEPT !.state_type = "SOFT"], "retry")
    <3>1. svc' = [f EXCEPT !.state_type = "SOFT"] /\ pc' = "retry"
      BY <2>1 DEF HandleServiceEvent
    <3> HIDE DEF f
    <3>2. /\ svc' \in Service /\ Same(svc') /\ Bounded(svc', adj)
          /\ Known(svc', pc', NoChange, adj)
      BY <3>1, <1>1 DEF Service, StateType, Bounded, Known
    <3> QED BY <1>2, <3>1, <3>2
  <2>2. CASE route # "UP" /\ hard /\ HandleServiceEvent(f, "down")
    <3>1. svc' = f /\ pc' = "down"
      BY <2>2 DEF HandleServiceEvent
    <3> HIDE DEF f, hard
    <3>2. Known(svc', pc', NoChange, adj)
      BY <3>1, <2>2, <1>1 DEF Known
    <3> QED BY <1>1, <1>2, <3>1, <3>2
  <2>3. CASE route # "UP" /\ ~hard /\ Finish(f)
    <3>1. svc' = [f EXCEPT !.has_been_checked = TRUE] /\ pc' = "idle"
      BY <2>3 DEF Finish
    <3> HIDE DEF f, hard
    <3>2. /\ svc' \in Service /\ Same(svc') /\ Bounded(svc', adj)
          /\ Known(svc', pc', NoChange, adj)
      BY <3>1, <2>3, <1>1 DEF Service, Bounded, Known, Settled, Earned
    <3> QED BY <1>2, <3>1, <3>2
  <2> QED
    BY <1>3, <2>1, <2>2, <2>3 DEF Fail
<1>4. CASE ~(f.current_attempt < f.max_attempts)
  <2>1. Exhausted(f, hard)
    BY <1>4 DEF Fail
  <2>2. ~adj => f.current_attempt = f.max_attempts
    <3> HIDE DEF f
    <3> QED BY <1>1, <1>4 DEF Bounded, Service
  <2> HIDE DEF f, hard
  <2>3. CASE HandleServiceEvent([f EXCEPT !.state_type = "HARD"], "problem")
    <3>1. svc' = [f EXCEPT !.state_type = "HARD"] /\ pc' = "problem"
      BY <2>3 DEF HandleServiceEvent
    <3>2. /\ svc' \in Service /\ Same(svc') /\ Bounded(svc', adj)
          /\ Known(svc', pc', NoChange, adj)
      BY <3>1, <2>2, <1>1 DEF Service, StateType, Bounded, Known, Earned
    <3> QED BY <1>2, <3>1, <3>2
  <2>4. CASE Finish([f EXCEPT !.state_type = "HARD", !.last_hard_state = f.current_state])
    <3>1. /\ svc' = [f EXCEPT !.state_type = "HARD", !.last_hard_state = f.current_state,
                              !.has_been_checked = TRUE]
          /\ pc' = "idle"
      BY <2>4, <1>1 DEF Finish, Service
    <3>2. /\ svc' \in Service /\ Same(svc') /\ Bounded(svc', adj)
          /\ Known(svc', pc', NoChange, adj)
      BY <3>1, <2>2, <1>1 DEF Service, StateType, Bounded, Known, Settled, Earned
    <3> QED BY <1>2, <3>1, <3>2
  <2> QED
    BY <2>1, <2>3, <2>4, <1>1 DEF Exhausted, Service
<1> QED BY <1>3, <1>4

LEMMA DecideKeeps ==
    ASSUME NEW s \in Service, NEW change \in Change, NEW route \in HostState,
           NEW adj \in BOOLEAN, NEW acked \in ServiceState, NEW n \in Nat,
           Bounded(s, adj), Labelled(s, s.current_state, acked, n),
           Decide(s, change, route)
    PROVE  Decided(s, change, adj, acked, n)
BY RecoverKeeps, FailKeeps DEF Decide

\* What the action properties say of a step from s0, for the steps of the handler.
Careful(s0) ==
    /\ s0.acknowledged /\ s0.acknowledgement_type = "STICKY" /\ ~svc'.acknowledged
         => svc'.current_state = "OK"
    /\ ~adjusted /\ pc' = "recovered" /\ svc'.last_state # "OK" /\ s0.state_type = "HARD"
         => svc'.state_type = "HARD"

\* What is left unchanged while a result is handled.
Undisturbed == UNCHANGED <<config, acked_in, adjusted>>

LEMMA EvaluateKeeps ==
    ASSUME TypeOK, NEW s0 \in Service, Bounded(s0, adjusted),
           Settled(s0, s0.last_state, adjusted),
           Labelled(s0, s0.last_state, acked_in, next_problem_id),
           Evaluate(s0), Undisturbed, host' = host
    PROVE  IInv' /\ Careful(s0)
<1> DEFINE c == Counted(s0)
           change == [state_change |-> StateChange(c), hard_state_change |-> HardStateChange(c)]
           s == AckReset(Identified(ClearedAck(c)))
           n == IF NewProblem(c) THEN next_problem_id + 1 ELSE next_problem_id
<1>1. /\ s \in Service /\ n \in Nat
      /\ Bounded(s, adjusted)
      /\ Labelled(s, s.current_state, acked_in, n)
      /\ ~adjusted /\ s.current_state = "OK" /\ s.last_state # "OK" /\ s.state_type = "HARD"
           => HardStateChange(c)
      /\ s.state_type = s0.state_type
      /\ s0.acknowledged /\ s0.acknowledgement_type = "STICKY" /\ ~s.acknowledged
           => s.current_state = "OK"
  BY Judged DEF TypeOK
<1>2. change \in Change /\ change.hard_state_change = HardStateChange(c)
  BY DEF Change, StateChange, HardStateChange
<1>3. /\ next_problem_id' = n
      /\ \/ svc' = s /\ pc' = "hostcheck" /\ local' = change
         \/ Decide(s, change, host) /\ local' = NoChange
  BY DEF Evaluate
<1> HIDE DEF s, n, change, c
<1>4. CASE svc' = s /\ pc' = "hostcheck" /\ local' = change
  <2>1. TypeOK'
    BY <1>1, <1>2, <1>3, <1>4 DEF TypeOK, Undisturbed, Pc, Change
  <2>2. Known(svc, pc, local, adjusted)'
    BY <1>1, <1>2, <1>4 DEF Known, Undisturbed
  <2> QED
    BY <2>1, <2>2, <1>1, <1>3, <1>4 DEF IInv, LabelState, Undisturbed, Careful
<1>5. CASE Decide(s, change, host) /\ local' = NoChange
  <2>1. Decided(s, change, adjusted, acked_in, n)
    BY <1>1, <1>2, <1>5, DecideKeeps DEF TypeOK
  <2>2. TypeOK'
    BY <2>1, <1>1, <1>3, <1>5 DEF TypeOK, Decided, Undisturbed, Pc, NoChange
  <2>3. IInv'
    BY <2>1, <2>2, <1>3, <1>5 DEF IInv, Decided, LabelState, Undisturbed
  <2>4. Careful(s0)
    <3>1. ASSUME s0.acknowledged, s0.acknowledgement_type = "STICKY", ~svc'.acknowledged
          PROVE  svc'.current_state = "OK"
      BY <3>1, <1>1, <2>1 DEF Decided
    <3>2. ASSUME ~adjusted, pc' = "recovered", svc'.last_state # "OK", s0.state_type = "HARD"
          PROVE  svc'.state_type = "HARD"
      <4>1. svc'.current_state = "OK"
        BY <3>2, <2>1 DEF Decided, Known
      <4>2. change.hard_state_change
        BY <3>2, <4>1, <2>1, <1>1, <1>2 DEF Decided
      <4> QED BY <3>2, <4>2, <2>1 DEF Decided
    <3> QED BY <3>1, <3>2 DEF Careful
  <2> QED BY <2>3, <2>4
<1> QED BY <1>3, <1>4, <1>5

LEMMA BeginKeeps ==
    ASSUME TypeOK, NEW s \in Service, Bounded(s, adjusted),
           Settled(s, s.last_state, adjusted),
           Labelled(s, s.last_state, acked_in, next_problem_id),
           Begin(s), Undisturbed, host' = host
    PROVE  IInv' /\ Careful(s)
<1>1. CASE Evaluate(s)
  BY <1>1, EvaluateKeeps
<1>2. CASE /\ s.current_state = "OK" /\ HandleServiceEvent(s, "first")
           /\ UNCHANGED <<local, next_problem_id>>
  <2>1. svc' = s /\ pc' = "first"
    BY <1>2 DEF HandleServiceEvent
  <2>2. TypeOK'
    BY <1>2, <2>1 DEF TypeOK, Undisturbed, Pc
  <2>3. Known(svc, pc, local, adjusted)'
    BY <1>2, <2>1 DEF Known, Undisturbed
  <2> QED
    BY <1>2, <2>1, <2>2, <2>3 DEF IInv, LabelState, Undisturbed, Careful
<1> QED BY <1>1, <1>2 DEF Begin

---------------------------------------------------------------------------------
(* The actions. *)

\* The two action properties of a step.
CarefulStep ==
    /\ svc.acknowledged /\ svc.acknowledgement_type = "STICKY" /\ ~svc'.acknowledged
         => svc'.current_state = "OK" \/ RemoveAcknowledgement
    /\ ~adjusted /\ pc' = "recovered" /\ svc'.last_state # "OK" /\ svc.state_type = "HARD"
         => svc'.state_type = "HARD"

LEMMA ResultKeepsInv ==
    ASSUME IInv, NEW outcome \in Outcome, Result(outcome)
    PROVE  IInv' /\ CarefulStep
<1> DEFINE s == Received(svc, outcome)
<1>1. /\ TypeOK /\ svc \in Service /\ pc = "idle"
      /\ Bounded(svc, adjusted) /\ Settled(svc, svc.current_state, adjusted)
      /\ Labelled(svc, svc.current_state, acked_in, next_problem_id)
  BY DEF IInv, TypeOK, Result, Known, LabelState
<1>2. /\ s \in Service
      /\ s.last_state = svc.current_state
      /\ s.last_hard_state = svc.last_hard_state /\ s.state_type = svc.state_type
      /\ s.current_attempt = svc.current_attempt /\ s.max_attempts = svc.max_attempts
      /\ s.host_problem_at_last_check = svc.host_problem_at_last_check
      /\ s.acknowledged = svc.acknowledged
      /\ s.acknowledgement_type = svc.acknowledgement_type
      /\ s.current_problem_id = svc.current_problem_id
  BY <1>1, ReceivedService
<1>3. /\ Undisturbed /\ host' = host
      /\ \/ Begin(s)
         \/ /\ s.current_state = "OK" /\ svc' = s /\ pc' = "verify"
            /\ UNCHANGED <<local, next_problem_id>>
  BY DEF Result, Undisturbed
<1> HIDE DEF s
<1>4. /\ Bounded(s, adjusted) /\ Settled(s, s.last_state, adjusted)
      /\ Labelled(s, s.last_state, acked_in, next_problem_id)
  BY <1>1, <1>2 DEF Bounded, Settled, Earned, Labelled
<1>5. IInv' /\ Careful(s)
  <2>1. CASE Begin(s)
    BY <2>1, <1>1, <1>2, <1>3, <1>4, BeginKeeps
  <2>2. CASE /\ s.current_state = "OK" /\ svc' = s /\ pc' = "verify"
             /\ UNCHANGED <<local, next_problem_id>>
    <3>1. TypeOK'
      BY <2>2, <1>1, <1>2, <1>3 DEF TypeOK, Undisturbed, Pc
    <3>2. Known(svc, pc, local, adjusted)'
      BY <2>2, <1>3, <1>4 DEF Known, Undisturbed
    <3> QED
      BY <2>2, <3>1, <3>2, <1>3, <1>4 DEF IInv, LabelState, Undisturbed, Careful
  <2> QED BY <1>3, <2>1, <2>2
<1> QED BY <1>2, <1>5 DEF Careful, CarefulStep

\* Back from a call before the result has been looked at.
LEMMA AfterEarlyKeepsInv ==
    ASSUME IInv, AfterVerify \/ AfterFirst
    PROVE  IInv' /\ CarefulStep
<1>1. /\ TypeOK /\ svc \in Service /\ pc \in {"verify", "first"}
      /\ Bounded(svc, adjusted) /\ Settled(svc, svc.last_state, adjusted)
      /\ Labelled(svc, svc.last_state, acked_in, next_problem_id)
      /\ Begin(svc) \/ Evaluate(svc)
      /\ Undisturbed /\ host' = host
  BY DEF IInv, TypeOK, AfterVerify, AfterFirst, Known, LabelState, Undisturbed
<1>2. IInv' /\ Careful(svc)
  BY <1>1, BeginKeeps, EvaluateKeeps
<1> QED BY <1>2 DEF Careful, CarefulStep

LEMMA AfterHostCheckKeepsInv ==
    ASSUME IInv, AfterHostCheck
    PROVE  IInv' /\ CarefulStep
<1>1. /\ TypeOK /\ svc \in Service /\ pc = "hostcheck" /\ local \in Change
      /\ Bounded(svc, adjusted) /\ Known(svc, "hostcheck", local, adjusted)
      /\ Labelled(svc, svc.current_state, acked_in, next_problem_id)
  BY DEF IInv, TypeOK, AfterHostCheck, Change, LabelState
<1>2. PICK route \in HostState : Decide(svc, local, route)
  BY <1>1 DEF AfterHostCheck, TypeOK, HostState
<1>3. Decided(svc, local, adjusted, acked_in, next_problem_id)
  BY <1>1, <1>2, DecideKeeps DEF TypeOK
<1>4. TypeOK'
  BY <1>1, <1>3 DEF AfterHostCheck, TypeOK, Decided, Pc, NoChange
<1>5. IInv'
  BY <1>3, <1>4 DEF AfterHostCheck, IInv, Decided, LabelState
<1>6. ASSUME ~adjusted, pc' = "recovered", svc'.last_state # "OK", svc.state_type = "HARD"
      PROVE  svc'.state_type = "HARD"
  <2>1. svc.current_state = "OK" /\ svc.last_state # "OK"
    BY <1>6, <1>3 DEF Decided, Known
  <2>2. local.hard_state_change
    BY <1>6, <2>1, <1>1 DEF Known
  <2> QED BY <1>6, <2>2, <1>3 DEF Decided
<1> QED BY <1>3, <1>5, <1>6 DEF CarefulStep, Decided

LEMMA AfterEventKeepsInv ==
    ASSUME IInv, AfterRecovery \/ AfterRetry \/ AfterProblem
    PROVE  IInv' /\ CarefulStep
<1>1. /\ TypeOK /\ svc \in Service
      /\ Bounded(svc, adjusted) /\ Known(svc, pc, local, adjusted)
      /\ pc \in {"recovered", "down", "retry", "problem"}
      /\ Labelled(svc, svc.current_state, acked_in, next_problem_id)
      /\ pc' = "idle"
      /\ UNCHANGED <<host, local, next_problem_id, config, acked_in, adjusted>>
  BY DEF IInv, TypeOK, AfterRecovery, AfterRetry, AfterProblem, LabelState, Finish
<1>2. ASSUME svc' \in Service, Bounded(svc', adjusted),
             Settled(svc', svc'.current_state, adjusted),
             Labelled(svc', svc'.current_state, acked_in, next_problem_id),
             svc.acknowledged /\ ~svc'.acknowledged => svc'.current_state = "OK"
      PROVE  IInv' /\ CarefulStep
  <2>1. TypeOK'
    BY <1>1, <1>2 DEF TypeOK, Pc
  <2> QED
    BY <1>1, <1>2, <2>1 DEF IInv, Known, LabelState, CarefulStep
<1>3. CASE AfterRecovery
  <2>1. svc' = [svc EXCEPT !.acknowledged = FALSE, !.acknowledgement_type = "NONE",
                  !.host_problem_at_last_check = FALSE, !.current_attempt = 1,
                  !.state_type = "HARD", !.last_hard_state = "OK", !.has_been_checked = TRUE]
    BY <1>1, <1>3, ResetService DEF AfterRecovery, Finish, Service
  <2>2. svc.current_state = "OK"
    BY <1>1, <1>3 DEF AfterRecovery, Known
  <2>3. /\ svc' \in Service /\ Bounded(svc', adjusted)
        /\ Settled(svc', svc'.current_state, adjusted)
        /\ Labelled(svc', svc'.current_state, acked_in, next_problem_id)
        /\ svc'.current_state = "OK"
    BY <2>1, <2>2, <1>1, ProblemsAssumption
       DEF Service, ServiceState, StateType, AckType, Bounded, Settled, Labelled
  <2> QED BY <1>2, <2>3
<1>4. CASE AfterRetry
  <2>1. svc' = [svc EXCEPT !.has_been_checked = TRUE] /\ pc \in {"down", "retry"}
    BY <1>4 DEF AfterRetry, Finish
  <2>2. /\ svc' \in Service /\ Bounded(svc', adjusted)
        /\ Settled(svc', svc'.current_state, adjusted)
        /\ Labelled(svc', svc'.current_state, acked_in, next_problem_id)
        /\ svc'.acknowledged = svc.acknowledged
    BY <2>1, <1>1 DEF Service, Bounded, Settled, Earned, Labelled, Known
  <2> QED BY <1>2, <2>2
<1>5. CASE AfterProblem
  <2>1. /\ svc' = [svc EXCEPT !.last_hard_state = svc.current_state,
                              !.has_been_checked = TRUE]
        /\ pc = "problem"
    BY <1>5, <1>1 DEF AfterProblem, Finish, Service
  <2>2. /\ svc' \in Service /\ Bounded(svc', adjusted)
        /\ Settled(svc', svc'.current_state, adjusted)
        /\ Labelled(svc', svc'.current_state, acked_in, next_problem_id)
        /\ svc'.acknowledged = svc.acknowledged
    BY <2>1, <1>1 DEF Service, Bounded, Settled, Earned, Labelled, Known
  <2> QED BY <1>2, <2>2
<1> QED BY <1>3, <1>4, <1>5

LEMMA HostChangesKeepsInv ==
    ASSUME IInv, HostChanges
    PROVE  IInv' /\ CarefulStep
<1>1. TypeOK'
  BY DEF IInv, TypeOK, HostChanges
<1> QED
  BY <1>1 DEF IInv, TypeOK, HostChanges, Known, LabelState, CarefulStep

LEMMA AcknowledgeKeepsInv ==
    ASSUME IInv, NEW type \in {"NORMAL", "STICKY"}, Acknowledge(type)
    PROVE  IInv' /\ CarefulStep
<1>1. /\ svc \in Service /\ svc.current_state # "OK" /\ acked_in' = svc.current_state
      /\ svc' = [svc EXCEPT !.acknowledged = TRUE, !.acknowledgement_type = type]
      /\ UNCHANGED <<host, pc, local, next_problem_id, config, adjusted>>
  BY DEF IInv, TypeOK, Acknowledge
<1>2. svc' \in Service /\ acked_in' \in ServiceState
  BY <1>1 DEF Service, AckType
<1>3. TypeOK'
  BY <1>1, <1>2 DEF IInv, TypeOK
<1>4. pc \notin {"verify", "first"}
  BY <1>1 DEF IInv, Known
<1>5. /\ Bounded(svc, adjusted)' /\ Known(svc, pc, local, adjusted)'
      /\ Labelled(svc', svc'.current_state, acked_in', next_problem_id')
      /\ svc'.acknowledged /\ svc'.state_type = svc.state_type
  BY <1>1, <1>4 DEF IInv, LabelState, Bounded, Known, Settled, Earned, Labelled, Service
<1> QED
  BY <1>1, <1>3, <1>4, <1>5 DEF IInv, LabelState, CarefulStep

LEMMA RemoveKeepsInv ==
    ASSUME IInv, RemoveAcknowledgement
    PROVE  IInv' /\ CarefulStep
<1>1. /\ svc \in Service
      /\ svc' = [svc EXCEPT !.acknowledged = FALSE]
      /\ UNCHANGED <<host, pc, local, next_problem_id, config, acked_in, adjusted>>
  BY DEF IInv, TypeOK, RemoveAcknowledgement
<1>2. TypeOK'
  BY <1>1 DEF IInv, TypeOK, Service
<1>3. /\ Bounded(svc, adjusted)' /\ Known(svc, pc, local, adjusted)'
      /\ Labelled(svc, LabelState(svc, pc), acked_in, next_problem_id)'
      /\ svc'.state_type = svc.state_type
  BY <1>1 DEF IInv, LabelState, Bounded, Known, Settled, Earned, Labelled, Service
<1> QED
  BY <1>2, <1>3 DEF IInv, CarefulStep

LEMMA ChangeMaxKeepsInv ==
    ASSUME IInv, NEW max \in NewAttempts, ChangeMaxAttempts(max)
    PROVE  IInv' /\ CarefulStep
<1>1. /\ svc \in Service /\ max \in Nat
      /\ UNCHANGED <<host, pc, local, next_problem_id, config, acked_in>>
      /\ adjusted' \in BOOLEAN
      /\ ~adjusted' => ~adjusted /\ max = svc.max_attempts
  BY AttemptsAssumption DEF IInv, TypeOK, ChangeMaxAttempts
<1>2. /\ svc' \in Service
      /\ svc' = [svc EXCEPT !.max_attempts = max, !.current_attempt = svc'.current_attempt]
      /\ svc.current_state = "OK" => svc'.current_attempt = svc.current_attempt
      /\ svc'.current_attempt \in {svc.current_attempt, max}
  BY <1>1 DEF ChangeMaxAttempts, Service
<1>3. TypeOK'
  BY <1>1, <1>2 DEF IInv, TypeOK
<1>4. /\ svc'.max_attempts = max
      /\ \A f \in {"current_state", "last_state", "last_hard_state", "state_type",
                   "host_problem_at_last_check", "has_been_checked", "acknowledged",
                   "acknowledgement_type", "current_problem_id"} : svc'[f] = svc[f]
  BY <1>1, <1>2 DEF Service
<1>5. Bounded(svc, adjusted)'
  BY <1>1, <1>2, <1>4 DEF IInv, Bounded, Service
<1>6. /\ Known(svc, pc, local, adjusted)'
      /\ Labelled(svc, LabelState(svc, pc), acked_in, next_problem_id)'
  BY <1>1, <1>2, <1>4 DEF IInv, LabelState, Known, Settled, Earned, Labelled
<1> QED
  BY <1>3, <1>4, <1>5, <1>6 DEF IInv, CarefulStep

LEMMA StepInv == IInv /\ [Next]_vars => IInv' /\ (CarefulStep \/ UNCHANGED vars)
<1> SUFFICES ASSUME IInv, [Next]_vars
             PROVE  IInv' /\ (CarefulStep \/ UNCHANGED vars)
  OBVIOUS
<1>1. ASSUME NEW outcome \in Outcome, Result(outcome)
      PROVE  IInv' /\ CarefulStep
  BY <1>1, ResultKeepsInv
<1>2. CASE Handler
  BY <1>2, AfterEarlyKeepsInv, AfterHostCheckKeepsInv, AfterEventKeepsInv DEF Handler
<1>3. CASE HostChanges
  BY <1>3, HostChangesKeepsInv
<1>4. CASE Command
  BY <1>4, AcknowledgeKeepsInv, RemoveKeepsInv, ChangeMaxKeepsInv DEF Command
<1>5. CASE UNCHANGED vars
  BY <1>5 DEF vars, IInv, TypeOK, Bounded, Known, Settled, Earned, Labelled, LabelState
<1> QED
  BY <1>1, <1>2, <1>3, <1>4, <1>5 DEF Next

LEMMA AlwaysIInv == Spec => []IInv
BY InitInv, StepInv, PTL DEF Spec

---------------------------------------------------------------------------------

\* Between two results an OK service has nothing left of its last problem, a normal
\* acknowledgement is of the state the service is in, a hard state is the last hard
\* state, and a hard problem has used up its attempts or the host is to blame -
\* wherever in handle_async_service_check_result() commands came in.
THEOREM RestAlwaysConsistent == Spec => []RestIsConsistent
<1>1. IInv => RestIsConsistent
  BY DEF IInv, RestIsConsistent, AtRest, NormalAckKeepsToState, HardHasReason, TypeOK, Service,
         StateType, Bounded, Known, Settled, Earned, Labelled, LabelState
<1> QED BY <1>1, AlwaysIInv, PTL

\* A problem has one id for as long as it lasts, and no other problem gets it,
\* however many problems there are.
THEOREM ProblemAlwaysKeepsId == Spec => []ProblemKeepsId
<1>1. IInv => ProblemKeepsId
  BY DEF IInv, ProblemKeepsId, AtRest, Labelled, LabelState
<1> QED BY <1>1, AlwaysIInv, PTL

\* Nothing but an OK, a command or another acknowledgement ends a sticky one: no
\* change from one problem to another, and no step of the handler that goes on
\* after commands were processed in the middle of it.
THEOREM StickyAckAlwaysStays == Spec => StickyAckStays
<1>1. IInv /\ [Next]_vars =>
        [svc.acknowledged /\ svc.acknowledgement_type = "STICKY" /\ ~svc'.acknowledged
           => svc'.current_state = "OK" \/ RemoveAcknowledgement]_vars
  BY StepInv DEF CarefulStep
<1> QED BY <1>1, AlwaysIInv, PTL DEF Spec, StickyAckStays

\* A recovery from a hard problem is a hard one, whatever the host did and
\* whatever commands came in, as long as the number of attempts is left alone.
THEOREM HardRecovery == Spec => HardRecoveryIfLeftAlone
<1>1. IInv /\ [Next]_vars =>
        [~adjusted /\ pc' = "recovered" /\ svc'.last_state # "OK" /\ svc.state_type = "HARD"
           => svc'.state_type = "HARD"]_vars
  BY StepInv DEF CarefulStep
<1> QED BY <1>1, AlwaysIInv, PTL DEF Spec, HardRecoveryIfLeftAlone
=================================================================================
