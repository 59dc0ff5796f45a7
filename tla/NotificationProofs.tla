---------------------------- MODULE NotificationProofs ----------------------------
(***************************************************************************)
(* What is remembered of a problem, for every configuration of an object,  *)
(* every length of the state history and every bound of Notification: what *)
(* is kept of the notifications agrees with what was sent, the next one is *)
(* in time, and the end of a problem reaches whoever heard of it last, and *)
(* is told once.  The invariant of the first two is about groups of        *)
(* fields, each with a predicate that says they are sound and one that     *)
(* says they are kept; the third and the fourth each have one of their own *)
(* on top of it.                                                           *)
(***************************************************************************)
EXTENDS Notification, FiniteSetTheorems, SequenceTheorems, WellFoundedInduction, TLAPS

---------------------------------------------------------------------------------
(* The bounds of the clocks *)

LEMMA LeastOf ==
    ASSUME NEW S \in SUBSET Nat, S # {}
    PROVE  \E n \in S : \A m \in S : n <= m
<1> DEFINE R == OpToRel(<, Nat)
<1>1. IsWellFoundedOn(R, Nat)
  BY Zenon, NatLessThanWellFounded
<1>2. \A x, y \in Nat : <<y, x>> \in R <=> y < x
  BY Zenon DEF OpToRel
<1> HIDE DEF R
<1>3. PICK x \in S : \A y \in S : ~(<<y, x>> \in R)
  BY <1>1, WFMin
<1>4. \A y \in S : ~(y < x)
  BY <1>2, <1>3
<1> QED BY <1>4

\* A finite set of integers has a bound: the least number of elements of a set
\* without one cannot be.
LEMMA BoundOf ==
    ASSUME NEW S \in SUBSET Int, IsFiniteSet(S)
    PROVE  \E b \in Nat : \A m \in S : m <= b
<1> DEFINE Unbounded(n) ==
             \E T \in SUBSET Int : /\ IsFiniteSet(T) /\ Cardinality(T) = n
                                   /\ ~(\E b \in Nat : \A m \in T : m <= b)
           W == {n \in Nat : Unbounded(n)}
<1> SUFFICES ASSUME ~(\E b \in Nat : \A m \in S : m <= b) PROVE FALSE
  OBVIOUS
<1>1. Cardinality(S) \in W
  <2>1. Cardinality(S) \in Nat
    BY FS_CardinalityType
  <2> QED BY <2>1
<1>2. PICK n \in W : \A k \in W : n <= k
  <2>1. W \in SUBSET Nat /\ W # {}
    BY <1>1
  <2> HIDE DEF W
  <2> QED BY <2>1, LeastOf
<1>3. n \in Nat
  OBVIOUS
<1>4. PICK T \in SUBSET Int : /\ IsFiniteSet(T) /\ Cardinality(T) = n
                              /\ ~(\E b \in Nat : \A m \in T : m <= b)
  OBVIOUS
<1>5. PICK x \in T : TRUE
  BY <1>4
<1>6. IsFiniteSet(T \ {x}) /\ Cardinality(T \ {x}) = n - 1
  BY <1>4, <1>5, FS_RemoveElement
<1>7. n - 1 \in Nat
  BY <1>6, FS_CardinalityType
<1>8. \E b \in Nat : \A m \in T \ {x} : m <= b
  <2>1. n - 1 \notin W
    BY <1>2, <1>3, <1>7
  <2>2. T \ {x} \in SUBSET Int
    OBVIOUS
  <2> QED BY <1>6, <1>7, <2>1, <2>2
<1>9. PICK b \in Nat : \A m \in T \ {x} : m <= b
  BY <1>8
<1>10. PICK c \in Nat : b <= c /\ x <= c
  <2>1. x \in Int
    BY <1>5
  <2>2. CASE x <= b
    BY <2>2
  <2>3. CASE ~(x <= b)
    BY <2>1, <2>3
  <2> QED BY <2>2, <2>3
<1>11. \A m \in T : m <= c
  BY <1>9, <1>10
<1> QED BY <1>4, <1>11

LEMMA MaxIs ==
    ASSUME NEW S \in SUBSET Int, IsFiniteSet(S), S # {}
    PROVE  Max(S) \in S /\ \A m \in S : m <= Max(S)
<1>1. PICK b \in Nat : \A m \in S : m <= b
  BY BoundOf
<1> DEFINE T == {n \in Nat : \E m \in S : n = b - m}
<1>2. T \in SUBSET Nat /\ T # {}
  <2>1. PICK m \in S : TRUE
    OBVIOUS
  <2>2. m \in Int /\ b - m \in Nat
    BY <1>1
  <2> QED BY <2>1, <2>2
<1>3. PICK n \in T : \A k \in T : n <= k
  <2> HIDE DEF T
  <2> QED BY <1>2, LeastOf
<1>4. PICK m \in S : n = b - m
  OBVIOUS
<1>5. \A k \in S : k \in Int /\ b - k \in T
  BY <1>1
<1> HIDE DEF T
<1>6. \A k \in S : m >= k
  <2> TAKE k \in S
  <2>1. k \in Int /\ n <= b - k /\ m \in Int
    BY <1>3, <1>5
  <2> QED BY <1>4, <2>1
<1>7. \E x \in S : \A k \in S : x >= k
  BY <1>6
<1>8. Max(S) \in S /\ \A k \in S : Max(S) >= k
  BY <1>7 DEF Max
<1>9. Max(S) \in Int /\ \A k \in S : k \in Int
  BY <1>8
<1> QED BY <1>8, <1>9

LEMMA MinIs ==
    ASSUME NEW S \in SUBSET Nat, S # {}
    PROVE  Min(S) \in S /\ \A m \in S : Min(S) <= m
BY LeastOf DEF Min

\* The longest interval there is, and the longest time until a notification.
LEMMA LongestIs ==
    ASSUME NEW c \in Configs
    PROVE  /\ LongestInterval(c) \in Nat
           /\ c.interval \in Nat /\ c.interval <= LongestInterval(c)
           /\ \A e \in c.escalations : e.interval \in Int /\ e.interval <= LongestInterval(c)
           /\ LongestWait(c) \in Nat /\ LongestInterval(c) <= LongestWait(c)
           /\ c.closing \in Nat /\ c.closing <= LongestWait(c)
           /\ c.delays \in Nat /\ c.delays <= LongestWait(c)
           /\ c.delay \in Nat
<1> DEFINE I == {e.interval : e \in c.escalations}
           S == {c.interval} \cup I
           L == LongestInterval(c)
           T == {L, c.closing, c.delays}
<1>1. /\ c.interval \in Nat /\ c.closing \in Nat /\ c.delays \in Nat /\ c.delay \in Nat
      /\ IsFiniteSet(c.escalations) /\ \A e \in c.escalations : e.interval \in Int
  BY ConfigAssumption
<1>2. IsFiniteSet(I)
  <2> DEFINE f == [e \in c.escalations |-> e.interval]
  <2>1. f \in Surjection(c.escalations, I)
    BY DEF Surjection
  <2> HIDE DEF f, I
  <2> QED BY ONLY <1>1, <2>1, FS_Surjection
<1>3. S \in SUBSET Int /\ S # {} /\ c.interval \in S /\ \A e \in c.escalations : e.interval \in S
  BY <1>1
<1>4. IsFiniteSet(S)
  <2> HIDE DEF I
  <2>1. IsFiniteSet(I \cup {c.interval})
    BY ONLY <1>2, FS_AddElement
  <2>2. S = I \cup {c.interval}
    OBVIOUS
  <2> QED BY ONLY <2>1, <2>2
<1>5. L = Max(S)
  BY DEF LongestInterval
<1> HIDE DEF S, L
<1>6. L \in S /\ \A m \in S : m <= L
  BY ONLY <1>3, <1>4, <1>5, MaxIs
<1>7. /\ L \in Nat /\ c.interval <= L
      /\ \A e \in c.escalations : e.interval \in Int /\ e.interval <= L
  BY <1>1, <1>3, <1>6
<1>8. T \in SUBSET Int /\ T # {} /\ L \in T /\ c.closing \in T /\ c.delays \in T
  BY <1>1, <1>7
<1>9. IsFiniteSet(T)
  <2>1. IsFiniteSet({L})
    BY FS_Singleton
  <2>2. IsFiniteSet({L} \cup {c.closing})
    BY ONLY <2>1, FS_AddElement
  <2>3. IsFiniteSet(({L} \cup {c.closing}) \cup {c.delays})
    BY ONLY <2>2, FS_AddElement
  <2>4. T = ({L} \cup {c.closing}) \cup {c.delays}
    OBVIOUS
  <2> QED BY ONLY <2>3, <2>4
<1>10. LongestWait(c) = Max(T)
  BY DEF LongestWait, L
<1> HIDE DEF T
<1>11. Max(T) \in T /\ \A m \in T : m <= Max(T)
  BY ONLY <1>8, <1>9, MaxIs
<1>12. Max(T) \in Nat
  BY <1>1, <1>7, <1>8, <1>11 DEF T
<1> QED BY <1>1, <1>7, <1>8, <1>10, <1>11, <1>12 DEF L

LEMMA IntervalIs ==
    ASSUME config \in Configs, NEW x
    PROVE  Interval(x) \in Nat /\ Interval(x) <= LongestInterval(config)
<1> DEFINE F == {f \in Escalations(x, None) : f.interval >= 0}
           I == {e.interval : e \in F}
<1>1. \A e \in F : e \in config.escalations
  BY DEF Escalations, ServiceEscalations, HostEscalations
<1>2. \A e \in F : e.interval \in Nat /\ e.interval <= LongestInterval(config)
  <2> TAKE e \in F
  <2>1. e.interval \in Int /\ e.interval >= 0 /\ e.interval <= LongestInterval(config)
    BY <1>1, LongestIs
  <2> QED BY <2>1
<1>3. Interval(x) = IF I = {} THEN config.interval ELSE Min(I)
  BY DEF Interval, HostInterval, ServiceInterval
<1>4. CASE I = {}
  BY <1>3, <1>4, LongestIs
<1>5. CASE I # {}
  <2>1. I \in SUBSET Nat
    BY <1>2
  <2>2. \A i \in I : i <= LongestInterval(config)
    BY <1>2
  <2> HIDE DEF I
  <2>3. Min(I) \in I
    BY <1>5, <2>1, MinIs
  <2> QED BY <1>3, <1>5, <2>1, <2>2, <2>3
<1> QED BY <1>4, <1>5

---------------------------------------------------------------------------------
(* The object, in groups of fields *)

Names == {"current_state", "last_state", "last_hard_state", "state_type",
          "current_attempt", "max_attempts", "host_problem_at_last_check",
          "acknowledged", "acknowledgement_type", "notifications_enabled", "downtime",
          "number", "notified_on", "since", "wait", "no_more", "age", "state_history",
          "enable_flap_detection", "flap_detection_enabled", "is_flapping",
          "check_flapping_recovery", "linked", "comments", "due", "phase", "calm",
          "tampered", "abandoned"}

Shaped(x) == Names \subseteq DOMAIN x

SameState(y, x) ==
    /\ y.current_state = x.current_state /\ y.last_state = x.last_state
    /\ y.last_hard_state = x.last_hard_state /\ y.state_type = x.state_type
    /\ y.current_attempt = x.current_attempt /\ y.max_attempts = x.max_attempts
    /\ y.host_problem_at_last_check = x.host_problem_at_last_check
SameAck(y, x) ==
    y.acknowledged = x.acknowledged /\ y.acknowledgement_type = x.acknowledgement_type
SameSwitch(y, x) ==
    /\ y.notifications_enabled = x.notifications_enabled /\ y.downtime = x.downtime
    /\ y.enable_flap_detection = x.enable_flap_detection
    /\ y.flap_detection_enabled = x.flap_detection_enabled
SameHistory(y, x) == y.state_history = x.state_history /\ y.age = x.age
SameTold(y, x) ==
    y.number = x.number /\ y.notified_on = x.notified_on /\ y.tampered = x.tampered
SameTimes(y, x) == y.since = x.since /\ y.wait = x.wait /\ y.no_more = x.no_more
SameFlap(y, x) ==
    /\ y.is_flapping = x.is_flapping /\ y.linked = x.linked /\ y.comments = x.comments
    /\ y.abandoned = x.abandoned
SameSeen(y, x) == y.check_flapping_recovery = x.check_flapping_recovery
SamePhase(y, x) == y.due = x.due /\ y.phase = x.phase /\ y.calm = x.calm

\* Nothing but what is told of a problem.
Steady(y, x) ==
    /\ Shaped(y) /\ SameState(y, x) /\ SameAck(y, x) /\ SameSwitch(y, x) /\ SameHistory(y, x)

LEMMA TimesResetIs ==
    ASSUME NEW x, Shaped(x), NEW y, y = TimesReset(x)
    PROVE  /\ Steady(y, x) /\ SameTold(y, x) /\ SameFlap(y, x) /\ SameSeen(y, x) /\ SamePhase(y, x)
           /\ y.since = Never /\ y.wait = 0 /\ y.no_more = FALSE
BY DEF TimesReset, Shaped, Names, Steady, SameState, SameAck, SameSwitch, SameHistory,
       SameTold, SameFlap, SameSeen, SamePhase

LEMMA ForgottenIs ==
    ASSUME NEW x, Shaped(x), NEW y, y = Forgotten(x)
    PROVE  /\ Steady(y, x) /\ SameTimes(y, x) /\ SameFlap(y, x) /\ SameSeen(y, x) /\ SamePhase(y, x)
           /\ y.number = 0 /\ y.notified_on = {} /\ y.tampered = FALSE
BY DEF Forgotten, Shaped, Names, Steady, SameState, SameAck, SameSwitch, SameHistory,
       SameTimes, SameFlap, SameSeen, SamePhase

LEMMA RearmedIs ==
    ASSUME NEW x, Shaped(x), NEW elapsed, NEW y, y = Rearmed(x, elapsed)
    PROVE  /\ Steady(y, x) /\ SameTold(y, x) /\ SameFlap(y, x) /\ SameSeen(y, x) /\ SamePhase(y, x)
           /\ y.since = x.since
           /\ y.wait = IF Interval(x) > elapsed THEN Interval(x) - elapsed ELSE 0
           /\ y.no_more = (Interval(x) = 0 /\ ~(IsService /\ config.is_volatile > 0))
<1> DEFINE w == IF Interval(x) > elapsed THEN Interval(x) - elapsed ELSE 0
           m == Interval(x) = 0 /\ ~(IsService /\ config.is_volatile > 0)
<1>1. y = [x EXCEPT !.wait = w, !.no_more = m]
  BY DEF Rearmed
<1> HIDE DEF w, m
<1>2. /\ Steady(y, x) /\ SameTold(y, x) /\ SameFlap(y, x) /\ SameSeen(y, x) /\ SamePhase(y, x)
      /\ y.since = x.since /\ y.wait = w /\ y.no_more = m
  BY <1>1 DEF Shaped, Names, Steady, SameState, SameAck, SameSwitch, SameHistory,
              SameTold, SameFlap, SameSeen, SamePhase
<1> QED BY <1>2 DEF w, m

LEMMA CountedUpIs ==
    ASSUME NEW x, Shaped(x), NEW y, y = CountedUp(x)
    PROVE  /\ Steady(y, x) /\ SameTimes(y, x) /\ SameFlap(y, x) /\ SameSeen(y, x) /\ SamePhase(y, x)
           /\ y.number = (IF x.number < NumberCap THEN x.number + 1 ELSE x.number)
           /\ y.notified_on = x.notified_on /\ y.tampered = x.tampered
BY DEF CountedUp, Shaped, Names, Steady, SameState, SameAck, SameSwitch, SameHistory,
       SameTimes, SameFlap, SameSeen, SamePhase

\* Those of the contacts that want to hear of the end.
Wanting(to) == {c \in to : "RECOVERY" \in config.listens[c]}

LEMMA ChronicleIs ==
    ASSUME NEW x, Shaped(x), NEW to, NEW y, y = Chronicle(x, to)
    PROVE  /\ Steady(y, x) /\ SameTold(y, x) /\ SameTimes(y, x) /\ SameFlap(y, x) /\ SameSeen(y, x)
           /\ IsOk(x) => /\ y.due = x.due \ to /\ y.calm = x.calm
                         /\ y.phase = IF x.phase = "problem" THEN "recovered" ELSE "again"
           /\ ~IsOk(x) => /\ y.due = Wanting(to)
                          /\ y.phase = "problem" /\ y.calm = TRUE
<1> DEFINE A == x.due \ to
           B == Wanting(to)
           q == IF x.phase = "problem" THEN "recovered" ELSE "again"
<1>1. y = IF IsOk(x) THEN [x EXCEPT !.due = A, !.phase = q]
          ELSE [x EXCEPT !.due = B, !.phase = "problem", !.calm = TRUE]
  BY DEF Chronicle, Wanting
<1> HIDE DEF A, B, q
<1>2. CASE IsOk(x)
  <2>1. /\ Steady(y, x) /\ SameTold(y, x) /\ SameTimes(y, x) /\ SameFlap(y, x) /\ SameSeen(y, x)
        /\ y.due = A /\ y.phase = q /\ y.calm = x.calm
    BY <1>1, <1>2 DEF Shaped, Names, Steady, SameState, SameAck, SameSwitch, SameHistory,
                      SameTold, SameTimes, SameFlap, SameSeen
  <2> QED BY <1>2, <2>1 DEF A, q
<1>3. CASE ~IsOk(x)
  <2>1. /\ Steady(y, x) /\ SameTold(y, x) /\ SameTimes(y, x) /\ SameFlap(y, x) /\ SameSeen(y, x)
        /\ y.due = B /\ y.phase = "problem" /\ y.calm = TRUE
    BY <1>1, <1>3 DEF Shaped, Names, Steady, SameState, SameAck, SameSwitch, SameHistory,
                      SameTold, SameTimes, SameFlap, SameSeen
  <2> QED BY <1>3, <2>1 DEF B
<1> QED BY <1>2, <1>3

DeliveredAs(y, x, to) ==
    /\ Steady(y, x) /\ SameFlap(y, x) /\ SameSeen(y, x)
    /\ y.number = x.number /\ y.tampered = x.tampered
    /\ y.notified_on = (IF IsOk(x) THEN x.notified_on ELSE x.notified_on \cup {x.current_state})
    /\ y.since = 0
    /\ y.wait = IF Interval(x) > 0 THEN Interval(x) - 0 ELSE 0
    /\ y.no_more = (Interval(x) = 0 /\ ~(IsService /\ config.is_volatile > 0))
    /\ IsOk(x) => /\ y.due = x.due \ to /\ y.calm = x.calm
                  /\ y.phase = IF x.phase = "problem" THEN "recovered" ELSE "again"
    /\ ~IsOk(x) => /\ y.due = Wanting(to)
                   /\ y.phase = "problem" /\ y.calm = TRUE

LEMMA DeliveredIs ==
    ASSUME NEW x, Shaped(x), NEW to, NEW y, y = Delivered(x, to)
    PROVE  DeliveredAs(y, x, to)
<1> DEFINE a == Rearmed(x, 0)
           w == IF Interval(x) > 0 THEN Interval(x) - 0 ELSE 0
           m == Interval(x) = 0 /\ ~(IsService /\ config.is_volatile > 0)
           on == IF IsOk(x) THEN x.notified_on ELSE x.notified_on \cup {x.current_state}
           r == [a EXCEPT !.since = 0]
           b == [r EXCEPT !.notified_on = on]
<1>1. /\ Steady(a, x) /\ SameTold(a, x) /\ SameFlap(a, x) /\ SameSeen(a, x) /\ SamePhase(a, x)
      /\ a.wait = w /\ a.no_more = m
  BY RearmedIs
<1> HIDE DEF a, w, m
<1>2. /\ Steady(r, x) /\ SameTold(r, x) /\ SameFlap(r, x) /\ SameSeen(r, x) /\ SamePhase(r, x)
      /\ r.since = 0 /\ r.wait = w /\ r.no_more = m
  BY <1>1 DEF Shaped, Names, Steady, SameState, SameAck, SameSwitch, SameHistory,
              SameTold, SameFlap, SameSeen, SamePhase
<1>3. [r EXCEPT !.notified_on = IF IsOk(x) THEN @ ELSE @ \cup {x.current_state}] = b
  BY <1>2 DEF SameTold
<1>4. y = Chronicle(b, to)
  BY <1>3 DEF Delivered, a
<1> HIDE DEF r, on
<1>5. /\ Steady(b, x) /\ SameFlap(b, x) /\ SameSeen(b, x) /\ SamePhase(b, x)
      /\ b.number = x.number /\ b.tampered = x.tampered /\ b.notified_on = on
      /\ b.since = 0 /\ b.wait = w /\ b.no_more = m
  BY <1>2 DEF Shaped, Names, Steady, SameState, SameAck, SameSwitch, SameHistory,
              SameTold, SameFlap, SameSeen, SamePhase
<1> HIDE DEF b
<1>6. Shaped(b) /\ (IsOk(b) <=> IsOk(x))
  BY <1>5 DEF Steady, SameState, IsOk
<1>7. /\ Steady(y, b) /\ SameTold(y, b) /\ SameTimes(y, b) /\ SameFlap(y, b) /\ SameSeen(y, b)
      /\ IsOk(x) => /\ y.due = b.due \ to /\ y.calm = b.calm
                    /\ y.phase = IF b.phase = "problem" THEN "recovered" ELSE "again"
      /\ ~IsOk(x) => /\ y.due = Wanting(to)
                     /\ y.phase = "problem" /\ y.calm = TRUE
  <2>1. /\ Steady(y, b) /\ SameTold(y, b) /\ SameTimes(y, b) /\ SameFlap(y, b) /\ SameSeen(y, b)
        /\ IsOk(b) => /\ y.due = b.due \ to /\ y.calm = b.calm
                      /\ y.phase = IF b.phase = "problem" THEN "recovered" ELSE "again"
        /\ ~IsOk(b) => /\ y.due = Wanting(to)
                       /\ y.phase = "problem" /\ y.calm = TRUE
    BY <1>4, <1>6, ChronicleIs
  <2> QED BY Zenon, <1>6, <2>1
<1>8. /\ Steady(y, x) /\ SameFlap(y, x) /\ SameSeen(y, x)
      /\ y.number = x.number /\ y.tampered = x.tampered /\ y.notified_on = on
      /\ y.since = 0 /\ y.wait = w /\ y.no_more = m
  BY <1>5, <1>7 DEF Steady, SameState, SameAck, SameSwitch, SameHistory,
                    SameTold, SameTimes, SameFlap, SameSeen
<1>9. b.due = x.due /\ b.phase = x.phase /\ b.calm = x.calm
  BY <1>5 DEF SamePhase
<1>10. /\ IsOk(x) => /\ y.due = x.due \ to /\ y.calm = x.calm
                     /\ y.phase = IF x.phase = "problem" THEN "recovered" ELSE "again"
       /\ ~IsOk(x) => /\ y.due = Wanting(to)
                      /\ y.phase = "problem" /\ y.calm = TRUE
  BY <1>7, <1>9
<1> QED BY <1>8, <1>10 DEF w, m, on, DeliveredAs

---------------------------------------------------------------------------------
(* What is true of the object *)

StateOk(x) ==
    /\ x.current_state \in State /\ x.last_state \in State /\ x.last_hard_state \in State
    /\ x.state_type \in StateType
    /\ x.max_attempts = config.max_attempts /\ x.current_attempt \in 1 .. config.max_attempts
AckOk(x) == x.acknowledged \in BOOLEAN /\ x.acknowledgement_type \in AckType
HistoryOk(x) ==
    /\ x.state_history \in [1 .. MAX_STATE_HISTORY_ENTRIES -> State]
    /\ x.age \in 0 .. config.delay

\* The number and the states that were notified of agree.
ToldOk(x) ==
    /\ x.number \in 0 .. NumberCap /\ x.notified_on \subseteq State \ Fine
    /\ ~x.tampered => (x.number = 0 <=> x.notified_on = {})
TimesOk(x) ==
    /\ x.since \in {Never} \cup (0 .. LongestInterval(config))
    /\ x.wait \in 0 .. LongestWait(config)
PhaseOk(x) ==
    /\ x.due \subseteq DOMAIN config.listens
    /\ x.phase \in {"none", "problem", "recovered", "again"}

\* Every comment that was left behind was left by a command; n is their number.
FlapOk(x, n) ==
    /\ x.is_flapping \in BOOLEAN /\ x.comments \in Nat
    /\ x.is_flapping => x.linked /\ x.comments > 0
    /\ ~x.abandoned => x.comments = IF x.is_flapping THEN 1 ELSE 0
    /\ x.comments <= (IF x.is_flapping THEN 1 ELSE 0) + n

\* While nothing has come between, the clock says when the next notification is due.
ArmedOk(x) ==
    ~IsOk(x) /\ x.since # Never /\ x.calm =>
        /\ x.wait = IF Interval(x) > x.since THEN Interval(x) - x.since ELSE 0
        /\ x.no_more = (Interval(x) = 0 /\ ~(IsService /\ config.is_volatile > 0))
CalmOk(x) == x.calm => ~env.veto /\ env.closed = 0

\* What a notification changes, and what it looks at.
NoteOk(x) == ToldOk(x) /\ TimesOk(x) /\ PhaseOk(x) /\ ArmedOk(x) /\ CalmOk(x)
Good(x) == Shaped(x) /\ StateOk(x) /\ AckOk(x) /\ HistoryOk(x) /\ NoteOk(x)

Given0 == config \in Configs /\ env.closed \in 0 .. config.closing

LEMMA IntervalSame ==
    ASSUME NEW x, NEW y, y.number = x.number, y.current_state = x.current_state
    PROVE  Interval(y) = Interval(x)
<1>1. IsOk(y) <=> IsOk(x)
  BY DEF IsOk
<1>2. Escalations(y, None) = Escalations(x, None)
  BY <1>1 DEF Escalations, ServiceEscalations, HostEscalations
<1> QED BY <1>2 DEF Interval, ServiceInterval, HostInterval

\* What stays as it is stays right.
LEMMA SteadyOk ==
    ASSUME NEW x, NEW y, Steady(y, x), Good(x), NoteOk(y)
    PROVE  Good(y)
BY DEF Good, Steady, StateOk, AckOk, HistoryOk, SameState, SameAck, SameHistory

LEMMA FlapSame ==
    ASSUME NEW x, NEW y, NEW n, SameFlap(y, x), FlapOk(x, n)
    PROVE  FlapOk(y, n)
BY DEF SameFlap, FlapOk

LEMMA NoteSame ==
    ASSUME NEW x, NEW y, y.current_state = x.current_state, SameTold(y, x), SameTimes(y, x),
           SamePhase(y, x), NoteOk(x)
    PROVE  NoteOk(y)
<1>1. Interval(y) = Interval(x)
  BY IntervalSame DEF SameTold
<1>2. ToldOk(y)
  BY DEF NoteOk, SameTold, ToldOk
<1>3. TimesOk(y)
  BY DEF NoteOk, SameTimes, TimesOk
<1>4. PhaseOk(y) /\ CalmOk(y)
  BY DEF NoteOk, SamePhase, PhaseOk, CalmOk
<1>5. ArmedOk(y)
  BY <1>1 DEF NoteOk, SameTimes, SamePhase, ArmedOk, IsOk
<1> QED BY <1>2, <1>3, <1>4, <1>5 DEF NoteOk

\* Contacts that a notification may reach.
LEMMA RecipientsAre ==
    ASSUME config \in Configs, NEW x, NEW type, NEW options
    PROVE  Recipients(x, type, options) \subseteq DOMAIN config.listens
<1>1. \A e \in config.escalations : e.contacts \subseteq DOMAIN config.listens
  BY ConfigAssumption
<1>2. config.contacts \subseteq DOMAIN config.listens
  BY ConfigAssumption
<1>3. Escalations(x, options) \subseteq config.escalations
  BY DEF Escalations, ServiceEscalations, HostEscalations
<1> QED BY <1>1, <1>2, <1>3 DEF Recipients, ServiceRecipients, HostRecipients

LEMMA DeliveredOk ==
    ASSUME Given0, NEW x, Good(x), NEW p, p = CountedUp(x), NEW to,
           to \subseteq DOMAIN config.listens, IsOk(x) => x.notified_on # {}, ~env.veto, env.closed = 0,
           NEW y, y = Delivered(p, to)
    PROVE  Steady(y, x) /\ SameFlap(y, x) /\ SameSeen(y, x) /\ NoteOk(y)
<1>1. Shaped(x)
  BY DEF Good
<1>2. /\ Steady(p, x) /\ SameTimes(p, x) /\ SameFlap(p, x) /\ SameSeen(p, x) /\ SamePhase(p, x)
      /\ p.number = (IF x.number < NumberCap THEN x.number + 1 ELSE x.number)
      /\ p.notified_on = x.notified_on /\ p.tampered = x.tampered
  BY <1>1, CountedUpIs
<1>3. Shaped(p) /\ (IsOk(p) <=> IsOk(x)) /\ p.current_state = x.current_state
  BY <1>2 DEF Steady, SameState, IsOk
<1>4. DeliveredAs(y, p, to)
  BY <1>3, DeliveredIs
<1>40. /\ Steady(y, p) /\ SameFlap(y, p) /\ SameSeen(y, p)
       /\ y.number = p.number /\ y.tampered = p.tampered
       /\ y.notified_on = (IF IsOk(p) THEN p.notified_on ELSE p.notified_on \cup {p.current_state})
       /\ y.since = 0
       /\ y.wait = IF Interval(p) > 0 THEN Interval(p) - 0 ELSE 0
       /\ y.no_more = (Interval(p) = 0 /\ ~(IsService /\ config.is_volatile > 0))
  BY <1>4 DEF DeliveredAs
<1>5. /\ IsOk(p) => /\ y.due = p.due \ to /\ y.calm = p.calm
                    /\ y.phase = IF p.phase = "problem" THEN "recovered" ELSE "again"
      /\ ~IsOk(p) => /\ y.due = Wanting(to)
                     /\ y.phase = "problem" /\ y.calm = TRUE
  BY <1>4 DEF DeliveredAs
<1>6. Steady(y, x) /\ SameFlap(y, x) /\ SameSeen(y, x) /\ y.current_state = x.current_state
  BY <1>2, <1>40 DEF Steady, SameState, SameAck, SameSwitch, SameHistory, SameFlap, SameSeen
<1>7. ToldOk(x) /\ TimesOk(x) /\ PhaseOk(x) /\ x.current_state \in State
  BY DEF Good, NoteOk, StateOk
<1>8. ToldOk(y)
  <2>1. p.number \in 1 .. NumberCap
    BY <1>2, <1>7, BoundAssumption DEF ToldOk
  <2>2. y.notified_on \subseteq State \ Fine /\ y.notified_on # {}
    BY <1>2, <1>3, <1>40, <1>7 DEF ToldOk, IsOk
  <2> QED BY <1>40, <2>1, <2>2, BoundAssumption DEF ToldOk
<1>9. Interval(p) \in Nat /\ Interval(p) <= LongestInterval(config)
  BY IntervalIs DEF Given0
<1>10. LongestInterval(config) \in Nat /\ LongestWait(config) \in Nat
       /\ LongestInterval(config) <= LongestWait(config)
  BY LongestIs DEF Given0
<1>11. TimesOk(y) /\ y.wait = Interval(p)
  BY <1>40, <1>9, <1>10 DEF TimesOk
<1>12. PhaseOk(y)
  <2>1. p.due = x.due /\ p.phase = x.phase
    BY <1>2 DEF SamePhase
  <2>2. CASE IsOk(p)
    BY <1>5, <1>7, <2>1, <2>2 DEF PhaseOk
  <2>3. CASE ~IsOk(p)
    BY <1>5, <2>3 DEF PhaseOk, Wanting
  <2> QED BY <2>2, <2>3
<1>13. CalmOk(y)
  BY DEF CalmOk
<1>14. Interval(y) = Interval(p)
  BY <1>3, <1>40, <1>6, IntervalSame
<1>15. ArmedOk(y)
  BY <1>40, <1>9, <1>11, <1>14 DEF ArmedOk
<1> QED BY <1>6, <1>8, <1>11, <1>12, <1>13, <1>15 DEF NoteOk

\* A notification that goes out of order, or that the broker cancels.
LEMMA SentIs ==
    ASSUME NEW x, Shaped(x), NEW counts \in BOOLEAN, NEW p, p = IF counts THEN CountedUp(x) ELSE x
    PROVE  /\ Steady(p, x) /\ SameTimes(p, x) /\ SameFlap(p, x) /\ SameSeen(p, x) /\ SamePhase(p, x)
           /\ p.notified_on = x.notified_on /\ p.tampered = x.tampered
           /\ x.number \in 0 .. NumberCap => p.number \in 0 .. NumberCap
           /\ ~counts => p = x
<1>1. CASE counts
  <2>1. p = CountedUp(x)
    BY <1>1
  <2> QED BY <1>1, <2>1, CountedUpIs, BoundAssumption
<1>2. CASE ~counts
  <2>1. p = x
    BY <1>2
  <2> QED BY <1>2, <2>1 DEF Steady, SameState, SameAck, SameSwitch, SameHistory,
                            SameTimes, SameFlap, SameSeen, SamePhase
<1> QED BY <1>1, <1>2

\* A notification keeps what is true of the object.
LEMMA NotifyOk ==
    ASSUME Given0, NEW x, Good(x), NEW type, NEW options, type = "NORMAL" => options = None,
           NEW y, y = Notify(x, type, options)
    PROVE  Steady(y, x) /\ SameFlap(y, x) /\ SameSeen(y, x) /\ NoteOk(y)
<1> DEFINE counts == type = "NORMAL" \/ "INCREMENT" \in options
           p == IF counts THEN CountedUp(x) ELSE x
           to == Recipients(p, type, options)
<1>1. Shaped(x) /\ counts \in BOOLEAN /\ x.current_state \in State /\ NoteOk(x)
  BY DEF Good, StateOk
<1>2. /\ Steady(p, x) /\ SameTimes(p, x) /\ SameFlap(p, x) /\ SameSeen(p, x) /\ SamePhase(p, x)
      /\ p.notified_on = x.notified_on /\ p.tampered = x.tampered
      /\ x.number \in 0 .. NumberCap => p.number \in 0 .. NumberCap
      /\ ~counts => p = x
  <2> HIDE DEF counts
  <2> QED BY <1>1, SentIs
<1>3. ToldOk(x) /\ TimesOk(x) /\ PhaseOk(x) /\ ArmedOk(x) /\ CalmOk(x)
  BY <1>1 DEF NoteOk
<1>4. CASE ~Viable(x, type, options)
  <2>1. y = Deferred(x, type)
    BY <1>4 DEF Notify
  <2>2. CASE type = "NORMAL" /\ env.enabled /\ env.closed > 0
    <3>1. y = [x EXCEPT !.wait = env.closed]
      BY <2>1, <2>2 DEF Deferred
    <3>2. /\ Steady(y, x) /\ SameTold(y, x) /\ SameFlap(y, x) /\ SameSeen(y, x) /\ SamePhase(y, x)
          /\ y.since = x.since /\ y.wait = env.closed
      BY <1>1, <3>1 DEF Shaped, Names, Steady, SameState, SameAck, SameSwitch, SameHistory,
                        SameTold, SameFlap, SameSeen, SamePhase
    <3>3. y.calm = x.calm /\ ~x.calm
      BY <1>3, <2>2, <3>2 DEF CalmOk, SamePhase, Given0
    <3>4. env.closed \in 0 .. LongestWait(config)
      BY LongestIs DEF Given0
    <3>5. ToldOk(y) /\ TimesOk(y)
      BY <1>3, <3>2, <3>4 DEF ToldOk, TimesOk, SameTold
    <3>6. PhaseOk(y)
      BY <1>3, <3>2 DEF PhaseOk, SamePhase
    <3>7. ArmedOk(y) /\ CalmOk(y)
      BY <3>3 DEF ArmedOk, CalmOk
    <3> QED BY <3>2, <3>5, <3>6, <3>7 DEF NoteOk
  <2>3. CASE ~(type = "NORMAL" /\ env.enabled /\ env.closed > 0)
    <3>1. y = x
      BY <2>1, <2>3 DEF Deferred
    <3> QED BY <1>1, <3>1 DEF Steady, SameState, SameAck, SameSwitch, SameHistory, SameFlap, SameSeen
  <2> QED BY <2>2, <2>3
<1>5. CASE Viable(x, type, options) /\ env.veto
  <2>1. y = [p EXCEPT !.tampered = TRUE]
    BY <1>5 DEF Notify
  <2> HIDE DEF p, counts
  <2>2. /\ Steady(y, x) /\ SameTimes(y, x) /\ SameFlap(y, x) /\ SameSeen(y, x) /\ SamePhase(y, x)
        /\ y.number = p.number /\ y.notified_on = x.notified_on /\ y.tampered = TRUE
    BY <1>2, <2>1 DEF Shaped, Names, Steady, SameState, SameAck, SameSwitch, SameHistory,
                      SameTimes, SameFlap, SameSeen, SamePhase
  <2>3. y.calm = x.calm /\ ~x.calm
    BY <1>3, <1>5, <2>2 DEF CalmOk, SamePhase
  <2>4. ToldOk(y) /\ TimesOk(y)
    BY <1>2, <1>3, <2>2 DEF ToldOk, TimesOk, SameTimes
  <2>5. PhaseOk(y)
    BY <1>3, <2>2 DEF PhaseOk, SamePhase
  <2>6. ArmedOk(y) /\ CalmOk(y)
    BY <2>3 DEF ArmedOk, CalmOk
  <2> QED BY <2>2, <2>4, <2>5, <2>6 DEF NoteOk
<1>6. CASE Viable(x, type, options) /\ ~env.veto /\ to = {}
  <2>1. y = x
    BY <1>6 DEF Notify
  <2> QED BY <1>1, <2>1 DEF Steady, SameState, SameAck, SameSwitch, SameHistory, SameFlap, SameSeen
<1>7. CASE Viable(x, type, options) /\ ~env.veto /\ to # {} /\ type = "NORMAL"
  <2>1. y = Delivered(p, to)
    BY <1>7 DEF Notify
  <2>2. p = CountedUp(x) /\ options = None
    BY <1>7
  <2>3. to \subseteq DOMAIN config.listens
    BY RecipientsAre DEF Given0
  <2>4. env.closed = 0 /\ (IsOk(x) => x.notified_on # {})
    BY <1>7, <2>2 DEF Viable, None, ServiceFilters, HostFilters, NormalFilters, Flapping, InDowntime
  <2> HIDE DEF p, to, counts
  <2> QED BY <1>7, <2>1, <2>2, <2>3, <2>4, DeliveredOk
<1>8. CASE Viable(x, type, options) /\ ~env.veto /\ to # {} /\ type # "NORMAL"
  <2>1. y = [p EXCEPT !.tampered = @ \/ counts, !.calm = @ /\ ~counts]
    BY <1>8 DEF Notify
  <2> HIDE DEF p, to, counts
  <2> DEFINE m == p.tampered \/ counts
             c == p.calm /\ ~counts
  <2>2. y = [p EXCEPT !.tampered = m, !.calm = c]
    BY <2>1
  <2> HIDE DEF m, c
  <2>3. /\ Steady(y, x) /\ SameTimes(y, x) /\ SameFlap(y, x) /\ SameSeen(y, x)
        /\ y.number = p.number /\ y.notified_on = x.notified_on /\ y.tampered = m
        /\ y.due = x.due /\ y.phase = x.phase /\ y.calm = c
    BY <1>2, <2>2 DEF Shaped, Names, Steady, SameState, SameAck, SameSwitch, SameHistory,
                      SameTimes, SameFlap, SameSeen, SamePhase
  <2>4. p.calm = x.calm
    BY <1>2 DEF SamePhase
  <2>5. ToldOk(y)
    BY <1>2, <1>3, <2>3 DEF ToldOk, m
  <2>6. TimesOk(y) /\ PhaseOk(y)
    BY <1>3, <2>3 DEF TimesOk, PhaseOk, SameTimes
  <2>7. CalmOk(y)
    BY <1>3, <2>3, <2>4 DEF CalmOk, c
  <2>8. ArmedOk(y)
    <3>1. CASE counts
      BY <2>3, <3>1 DEF ArmedOk, c
    <3>2. CASE ~counts
      <4>1. y.number = x.number /\ y.current_state = x.current_state /\ y.calm => x.calm
        BY <1>2, <2>3, <2>4, <3>2 DEF Steady, SameState, c
      <4>2. Interval(y) = Interval(x) /\ (IsOk(y) <=> IsOk(x))
        BY <1>2, <2>3, <3>2, IntervalSame DEF Steady, SameState, IsOk
      <4>3. y.calm => x.calm
        BY <2>3, <2>4 DEF c
      <4> QED BY <1>3, <2>3, <4>2, <4>3 DEF ArmedOk, SameTimes
    <3> QED BY <3>1, <3>2
  <2> QED BY <2>3, <2>5, <2>6, <2>7, <2>8 DEF NoteOk
<1> QED BY <1>4, <1>5, <1>6, <1>7, <1>8

---------------------------------------------------------------------------------
(* Flapping *)

Sound(x, n) == Good(x) /\ FlapOk(x, n)
Held(y, x) == y.current_state = x.current_state /\ y.last_state = x.last_state

\* What is the same in all these ways is as good.
LEMMA GoodSame ==
    ASSUME NEW x, NEW y, Good(x), Steady(y, x), SameTold(y, x), SameTimes(y, x), SamePhase(y, x)
    PROVE  Good(y) /\ Held(y, x)
<1>1. Held(y, x)
  BY DEF Steady, SameState, Held
<1>2. NoteOk(y)
  BY <1>1, NoteSame DEF Good, Held
<1> QED BY <1>1, <1>2, SteadyOk

LEMMA NotifySound ==
    ASSUME Given0, NEW n, NEW x, Sound(x, n), NEW type, NEW options,
           type = "NORMAL" => options = None, NEW y, y = Notify(x, type, options)
    PROVE  Sound(y, n) /\ Held(y, x) /\ SameSeen(y, x)
<1>1. Good(x) /\ FlapOk(x, n)
  BY DEF Sound
<1>2. Steady(y, x) /\ SameFlap(y, x) /\ SameSeen(y, x) /\ NoteOk(y)
  BY <1>1, NotifyOk
<1>3. Good(y) /\ FlapOk(y, n)
  BY <1>1, <1>2, SteadyOk, FlapSame
<1> QED BY <1>2, <1>3 DEF Sound, Held, Steady, SameState

LEMMA SetFlapOk ==
    ASSUME Given0, NEW n \in Nat, NEW x, Sound(x, n), ~x.is_flapping, NEW announce \in BOOLEAN,
           NEW y, y = SetFlap(x, announce)
    PROVE  Sound(y, n) /\ Held(y, x)
<1> DEFINE k == x.comments + 1
           s == ~IsOk(x) /\ x.number > 0
           f == [x EXCEPT !.is_flapping = TRUE, !.linked = TRUE, !.comments = k,
                          !.check_flapping_recovery = s, !.calm = FALSE]
<1>1. y = IF announce THEN Notify(f, "FLAPPINGSTART", None) ELSE f
  BY DEF SetFlap
<1>2. Good(x) /\ Shaped(x) /\ FlapOk(x, n)
  BY DEF Sound, Good
<1>3. k \in Nat /\ k > 0 /\ (~x.abandoned => k = 1) /\ k <= 1 + n
  BY <1>2 DEF FlapOk
<1> HIDE DEF k, s
<1>4. /\ Steady(f, x) /\ SameTold(f, x) /\ SameTimes(f, x)
      /\ f.due = x.due /\ f.phase = x.phase /\ f.calm = FALSE
      /\ f.is_flapping = TRUE /\ f.linked = TRUE /\ f.comments = k
      /\ f.abandoned = x.abandoned
  BY <1>2 DEF Shaped, Names, Steady, SameState, SameAck, SameSwitch, SameHistory, SameTold, SameTimes
<1> HIDE DEF f
<1>5. NoteOk(f)
  <2>1. ToldOk(x) /\ TimesOk(x) /\ PhaseOk(x)
    BY <1>2 DEF Good, NoteOk
  <2>2. ToldOk(f)
    BY <2>1, <1>4 DEF ToldOk, SameTold
  <2>3. TimesOk(f)
    BY <2>1, <1>4 DEF TimesOk, SameTimes
  <2>4. PhaseOk(f) /\ ArmedOk(f) /\ CalmOk(f)
    BY <2>1, <1>4 DEF PhaseOk, ArmedOk, CalmOk
  <2> QED BY <2>2, <2>3, <2>4 DEF NoteOk
<1>6. Good(f)
  BY <1>2, <1>4, <1>5, SteadyOk
<1>7. FlapOk(f, n)
  BY <1>3, <1>4 DEF FlapOk
<1>8. Sound(f, n) /\ Held(f, x)
  BY <1>4, <1>6, <1>7 DEF Sound, Held, Steady, SameState
<1>9. CASE announce
  <2>1. y = Notify(f, "FLAPPINGSTART", None)
    BY <1>1, <1>9
  <2>2. Sound(y, n) /\ Held(y, f)
    BY <1>8, <2>1, NotifySound
  <2> QED BY <1>8, <2>2 DEF Held
<1>10. CASE ~announce
  BY <1>1, <1>8, <1>10
<1> QED BY <1>9, <1>10

\* Flapping stops, and its comment goes.
LEMMA UncommentedOk ==
    ASSUME NEW n \in Nat, NEW x, Sound(x, n), x.is_flapping,
           NEW y, y = [Uncommented(x) EXCEPT !.is_flapping = FALSE]
    PROVE  /\ Sound(y, n) /\ Held(y, x) /\ y.is_flapping = FALSE
           /\ Steady(y, x) /\ SameTold(y, x) /\ SamePhase(y, x)
<1> DEFINE k == IF x.linked THEN x.comments - 1 ELSE x.comments
           u == [x EXCEPT !.comments = k, !.linked = FALSE]
<1>1. Good(x) /\ Shaped(x) /\ FlapOk(x, n)
  BY DEF Sound, Good
<1>2. k \in Nat /\ (~x.abandoned => k = 0) /\ k <= n
  BY <1>1 DEF FlapOk
<1>3. y = [u EXCEPT !.is_flapping = FALSE]
  BY DEF Uncommented
<1> HIDE DEF k
<1>4. /\ Steady(u, x) /\ SameTold(u, x) /\ SameTimes(u, x) /\ SamePhase(u, x)
      /\ u.comments = k /\ u.abandoned = x.abandoned
  BY <1>1 DEF Shaped, Names, Steady, SameState, SameAck, SameSwitch, SameHistory,
              SameTold, SameTimes, SamePhase
<1> HIDE DEF u
<1>5. /\ Steady(y, x) /\ SameTold(y, x) /\ SameTimes(y, x) /\ SamePhase(y, x)
      /\ y.comments = k /\ y.abandoned = x.abandoned /\ y.is_flapping = FALSE
  BY <1>3, <1>4 DEF Shaped, Names, Steady, SameState, SameAck, SameSwitch, SameHistory,
                    SameTold, SameTimes, SamePhase
<1>6. Good(y) /\ Held(y, x)
  BY <1>1, <1>5, GoodSame
<1>7. FlapOk(y, n)
  BY <1>2, <1>5 DEF FlapOk
<1> QED BY <1>5, <1>6, <1>7 DEF Sound

LEMMA FlapRecoveryOk ==
    ASSUME Given0, NEW n \in Nat, NEW x, Sound(x, n), NEW y, y = FlapRecovery(x)
    PROVE  Sound(y, n) /\ Held(y, x)
<1> DEFINE r == IF x.check_flapping_recovery /\ IsOk(x) THEN Notify(x, "NORMAL", None) ELSE x
<1>1. y = [r EXCEPT !.check_flapping_recovery = FALSE]
  BY DEF FlapRecovery
<1>2. Sound(r, n) /\ Held(r, x)
  <2>1. CASE x.check_flapping_recovery /\ IsOk(x)
    <3>1. r = Notify(x, "NORMAL", None)
      BY <2>1
    <3> HIDE DEF r
    <3> QED BY <3>1, NotifySound
  <2>2. CASE ~(x.check_flapping_recovery /\ IsOk(x))
    <3>1. r = x
      BY <2>2
    <3> QED BY <3>1 DEF Held
  <2> QED BY <2>1, <2>2
<1> HIDE DEF r
<1>3. Good(r) /\ Shaped(r) /\ FlapOk(r, n)
  BY <1>2 DEF Sound, Good
<1>4. /\ Steady(y, r) /\ SameTold(y, r) /\ SameTimes(y, r) /\ SamePhase(y, r) /\ SameFlap(y, r)
  BY <1>1, <1>3 DEF Shaped, Names, Steady, SameState, SameAck, SameSwitch, SameHistory,
                    SameTold, SameTimes, SamePhase, SameFlap
<1>5. Good(y) /\ Held(y, r) /\ FlapOk(y, n)
  BY <1>3, <1>4, GoodSame, FlapSame
<1> QED BY <1>2, <1>5 DEF Sound, Held

LEMMA ClearFlapOk ==
    ASSUME Given0, NEW n \in Nat, NEW x, Sound(x, n), x.is_flapping, NEW y, y = ClearFlap(x)
    PROVE  Sound(y, n) /\ Held(y, x)
<1> DEFINE c == [Uncommented(x) EXCEPT !.is_flapping = FALSE]
           m == Notify(c, "FLAPPINGSTOP", None)
<1>1. y = FlapRecovery(m)
  BY DEF ClearFlap
<1>2. Sound(c, n) /\ Held(c, x)
  <2> DEFINE d == c
  <2>1. d = [Uncommented(x) EXCEPT !.is_flapping = FALSE]
    OBVIOUS
  <2> HIDE DEF d
  <2>2. Sound(d, n) /\ Held(d, x)
    BY <2>1, UncommentedOk
  <2> QED BY <2>2 DEF d
<1> HIDE DEF c
<1>3. Sound(m, n) /\ Held(m, c)
  <2> DEFINE d == m
  <2>1. d = Notify(c, "FLAPPINGSTOP", None)
    OBVIOUS
  <2> HIDE DEF d
  <2>2. Sound(d, n) /\ Held(d, c)
    BY <1>2, <2>1, NotifySound
  <2> QED BY <2>2 DEF d
<1> HIDE DEF m
<1>4. Sound(y, n) /\ Held(y, m)
  BY <1>1, <1>3, FlapRecoveryOk
<1> QED BY <1>2, <1>3, <1>4 DEF Held

LEMMA FlapDetectionDisabledOk ==
    ASSUME Given0, NEW n \in Nat, NEW x, Sound(x, n), NEW y, y = FlapDetectionDisabled(x)
    PROVE  Sound(y, n) /\ Held(y, x)
<1> DEFINE c == [Uncommented(x) EXCEPT !.is_flapping = FALSE]
           m == Notify(c, "FLAPPINGDISABLED", None)
<1>1. CASE ~x.is_flapping
  <2>1. y = x
    BY <1>1 DEF FlapDetectionDisabled
  <2> QED BY <2>1 DEF Held
<1>2. CASE x.is_flapping
  <2>1. y = FlapRecovery(m)
    BY <1>2 DEF FlapDetectionDisabled
  <2>2. Sound(c, n) /\ Held(c, x)
    <3> DEFINE d == c
    <3>1. d = [Uncommented(x) EXCEPT !.is_flapping = FALSE]
      OBVIOUS
    <3> HIDE DEF d
    <3>2. Sound(d, n) /\ Held(d, x)
      BY <1>2, <3>1, UncommentedOk
    <3> QED BY <3>2 DEF d
  <2> HIDE DEF c
  <2>3. Sound(m, n) /\ Held(m, c)
    <3> DEFINE d == m
    <3>1. d = Notify(c, "FLAPPINGDISABLED", None)
      OBVIOUS
    <3> HIDE DEF d
    <3>2. Sound(d, n) /\ Held(d, c)
      BY <2>2, <3>1, NotifySound
    <3> QED BY <3>2 DEF d
  <2> HIDE DEF m
  <2>4. Sound(y, n) /\ Held(y, m)
    BY <2>1, <2>3, FlapRecoveryOk
  <2> QED BY <2>2, <2>3, <2>4 DEF Held
<1> QED BY <1>1, <1>2

\* The oldest state of the history goes, and the present one comes last.
LEMMA HistoryIs ==
    ASSUME NEW S, NEW h \in [1 .. MAX_STATE_HISTORY_ENTRIES -> S], NEW s \in S
    PROVE  Append(Tail(h), s) \in [1 .. MAX_STATE_HISTORY_ENTRIES -> S]
<1> DEFINE N == MAX_STATE_HISTORY_ENTRIES
<1>1. N \in Nat /\ N > 2
  BY HistoryAssumption
<1>2. h \in Seq(S) /\ Len(h) = N
  BY <1>1
<1>3. Tail(h) \in Seq(S) /\ Len(Tail(h)) = N - 1
  BY <1>1, <1>2
<1> DEFINE a == Append(Tail(h), s)
<1>4. a \in Seq(S) /\ Len(a) = N
  BY <1>1, <1>3
<1> HIDE DEF a
<1>5. a \in [1 .. N -> S]
  BY <1>4, LenProperties
<1> QED BY <1>5 DEF a

LEMMA RecordedOk ==
    ASSUME NEW n, NEW x, Sound(x, n), NEW y, y = Recorded(x)
    PROVE  Sound(y, n) /\ Held(y, x)
<1> DEFINE h == Append(Tail(x.state_history), x.current_state)
<1>1. y = [x EXCEPT !.state_history = h]
  BY DEF Recorded
<1>2. Good(x) /\ Shaped(x) /\ FlapOk(x, n) /\ StateOk(x) /\ AckOk(x) /\ HistoryOk(x) /\ NoteOk(x)
  BY DEF Sound, Good
<1>3. h \in [1 .. MAX_STATE_HISTORY_ENTRIES -> State]
  <2>1. x.state_history \in [1 .. MAX_STATE_HISTORY_ENTRIES -> State] /\ x.current_state \in State
    BY <1>2 DEF HistoryOk, StateOk
  <2> QED BY <2>1, HistoryIs
<1> HIDE DEF h
<1>4. /\ Shaped(y) /\ SameState(y, x) /\ SameAck(y, x) /\ SameTold(y, x) /\ SameTimes(y, x)
      /\ SamePhase(y, x) /\ SameFlap(y, x) /\ y.age = x.age /\ y.state_history = h
  BY <1>1, <1>2 DEF Shaped, Names, SameState, SameAck, SameTold, SameTimes, SamePhase, SameFlap
<1>5. NoteOk(y)
  BY <1>2, <1>4, NoteSame DEF SameState
<1>6. StateOk(y) /\ AckOk(y) /\ HistoryOk(y)
  BY <1>2, <1>3, <1>4 DEF StateOk, AckOk, HistoryOk, SameState, SameAck
<1>7. FlapOk(y, n)
  BY <1>2, <1>4, FlapSame
<1> QED BY <1>4, <1>5, <1>6, <1>7 DEF Sound, Good, Held, SameState

LEMMA JudgedIs ==
    ASSUME NEW x, NEW announce, NEW y, y = JudgeFlapping(x, announce)
    PROVE  \/ y = x
           \/ y = SetFlap(x, announce) /\ ~x.is_flapping
           \/ y = ClearFlap(x) /\ x.is_flapping
<1> DEFINE A == ~x.enable_flap_detection \/ ~x.flap_detection_enabled
           B == PercentStateChange[x.state_history] >= Scaled(HighThreshold)
           C == PercentStateChange[x.state_history] <= Scaled(LowThreshold)
           D == x.enable_flap_detection /\ x.flap_detection_enabled
<1>1. y = CASE A -> x [] D /\ B /\ ~x.is_flapping -> SetFlap(x, announce)
            [] D /\ C /\ x.is_flapping -> ClearFlap(x) [] OTHER -> x
  BY DEF JudgeFlapping
<1> HIDE DEF B, C
<1>2. CASE A
  BY <1>1, <1>2
<1>3. CASE ~A
  <2>1. y = CASE B /\ ~x.is_flapping -> SetFlap(x, announce)
              [] C /\ x.is_flapping -> ClearFlap(x) [] OTHER -> x
    BY <1>1, <1>3
  <2> QED BY <2>1
<1> QED BY <1>2, <1>3

LEMMA JudgeFlappingOk ==
    ASSUME Given0, NEW n \in Nat, NEW x, Sound(x, n), NEW announce \in BOOLEAN,
           NEW y, y = JudgeFlapping(x, announce)
    PROVE  Sound(y, n) /\ Held(y, x)
<1>1. CASE y = SetFlap(x, announce) /\ ~x.is_flapping
  BY <1>1, SetFlapOk
<1>2. CASE y = ClearFlap(x) /\ x.is_flapping
  BY <1>2, ClearFlapOk
<1>3. CASE y = x
  BY <1>3 DEF Held
<1> QED BY <1>1, <1>2, <1>3, JudgedIs

LEMMA CheckFlappingOk ==
    ASSUME Given0, NEW n \in Nat, NEW x, Sound(x, n), NEW update \in BOOLEAN,
           NEW announce \in BOOLEAN
    PROVE  /\ \A y : y = CheckServiceFlapping(x, update, announce) => Sound(y, n) /\ Held(y, x)
           /\ \A y : y = CheckHostFlapping(x, update, announce) => Sound(y, n) /\ Held(y, x)
           /\ \A y : y = CheckFlapping(x, update, announce) => Sound(y, n) /\ Held(y, x)
<1> DEFINE r == IF update /\ x.current_state \in config.flap_on THEN Recorded(x) ELSE x
           j == JudgeFlapping(r, announce)
<1>1. Sound(r, n) /\ Held(r, x)
  <2>1. CASE update /\ x.current_state \in config.flap_on
    <3>1. r = Recorded(x)
      BY <2>1
    <3> HIDE DEF r
    <3> QED BY <3>1, RecordedOk
  <2>2. CASE ~(update /\ x.current_state \in config.flap_on)
    <3>1. r = x
      BY <2>2
    <3> QED BY <3>1 DEF Held
  <2> QED BY <2>1, <2>2
<1>2. CheckHostFlapping(x, update, announce) = j
  BY DEF CheckHostFlapping
<1>3. CheckServiceFlapping(x, update, announce) \in {x, j}
  BY DEF CheckServiceFlapping
<1>4. CheckFlapping(x, update, announce) \in {x, j}
  BY <1>2, <1>3 DEF CheckFlapping
<1> HIDE DEF r
<1>5. Sound(j, n) /\ Held(j, x)
  <2> DEFINE d == j
  <2>1. d = JudgeFlapping(r, announce)
    OBVIOUS
  <2> HIDE DEF d
  <2>2. Sound(d, n) /\ Held(d, r)
    BY <1>1, <2>1, JudgeFlappingOk
  <2> QED BY <1>1, <2>2 DEF d, Held
<1>6. Sound(x, n) /\ Held(x, x)
  BY DEF Held
<1> HIDE DEF j
<1> QED BY <1>2, <1>3, <1>4, <1>5, <1>6

---------------------------------------------------------------------------------
(* Results *)

\* Nothing but the state, the acknowledgement and the time of the problem.
Restated(y, x) ==
    /\ Shaped(y) /\ SameSwitch(y, x) /\ y.state_history = x.state_history
    /\ SameTold(y, x) /\ SameTimes(y, x) /\ SameFlap(y, x) /\ SameSeen(y, x) /\ SamePhase(y, x)
Stated(y) == StateOk(y) /\ AckOk(y) /\ y.age \in 0 .. config.delay

LEMMA RestatedOk ==
    ASSUME NEW n, NEW x, Sound(x, n), NEW y, Restated(y, x), Stated(y),
           y.current_state = x.current_state
    PROVE  Sound(y, n)
<1>1. HistoryOk(x) /\ NoteOk(x) /\ FlapOk(x, n)
  BY DEF Sound, Good
<1>2. SameTold(y, x) /\ SameTimes(y, x) /\ SameFlap(y, x) /\ SamePhase(y, x) /\ Shaped(y)
      /\ y.state_history = x.state_history
  BY DEF Restated
<1>3. NoteOk(y) /\ FlapOk(y, n)
  BY <1>1, <1>2, NoteSame, FlapSame
<1>4. StateOk(y) /\ AckOk(y) /\ HistoryOk(y)
  BY <1>1, <1>2 DEF Stated, HistoryOk
<1> QED BY <1>2, <1>3, <1>4 DEF Sound, Good

LEMMA TimesResetOk ==
    ASSUME config \in Configs, NEW x, Shaped(x), ToldOk(x), PhaseOk(x), CalmOk(x),
           NEW y, y = TimesReset(x)
    PROVE  NoteOk(y)
<1>1. /\ SameTold(y, x) /\ SamePhase(y, x)
      /\ y.since = Never /\ y.wait = 0
  BY TimesResetIs
<1>2. ToldOk(y)
  BY <1>1 DEF ToldOk, SameTold
<1>3. TimesOk(y)
  BY <1>1, LongestIs DEF TimesOk
<1>4. PhaseOk(y) /\ CalmOk(y) /\ ArmedOk(y)
  BY <1>1 DEF PhaseOk, CalmOk, ArmedOk, SamePhase
<1> QED BY <1>2, <1>3, <1>4 DEF NoteOk

\* A new state is taken over: unless it is the same, the times start again.
LEMMA TurnedOk ==
    ASSUME config \in Configs, NEW n, NEW x, Sound(x, n), NEW c, Restated(c, x), Stated(c),
           NEW changed \in BOOLEAN, ~changed => c.current_state = x.current_state,
           NEW y, y = IF changed THEN TimesReset(c) ELSE c
    PROVE  Sound(y, n) /\ Held(y, c)
<1>1. CASE changed
  <2>1. ToldOk(x) /\ PhaseOk(x) /\ CalmOk(x) /\ HistoryOk(x) /\ FlapOk(x, n)
    BY DEF Sound, Good, NoteOk
  <2>2. Shaped(c) /\ ToldOk(c) /\ PhaseOk(c) /\ CalmOk(c) /\ HistoryOk(c) /\ FlapOk(c, n)
    <3>1. Shaped(c) /\ ToldOk(c)
      BY <2>1 DEF Restated, SameTold, ToldOk
    <3>2. PhaseOk(c) /\ CalmOk(c) /\ HistoryOk(c)
      BY <2>1 DEF Restated, SamePhase, PhaseOk, CalmOk, HistoryOk, Stated
    <3>3. FlapOk(c, n)
      BY <2>1, FlapSame DEF Restated
    <3> QED BY <3>1, <3>2, <3>3
  <2>3. y = TimesReset(c)
    BY <1>1
  <2>4. NoteOk(y)
    BY <2>2, <2>3, TimesResetOk
  <2>5. Steady(y, c) /\ SameFlap(y, c)
    BY <2>2, <2>3, TimesResetIs
  <2>6. Shaped(y) /\ StateOk(y) /\ AckOk(y) /\ HistoryOk(y) /\ Held(y, c)
    BY <2>2, <2>5 DEF Steady, Stated, StateOk, AckOk, HistoryOk, SameState, SameAck,
                      SameHistory, Held
  <2>7. FlapOk(y, n)
    BY <2>2, <2>5, FlapSame
  <2> QED BY <2>4, <2>6, <2>7 DEF Sound, Good
<1>2. CASE ~changed
  <2>1. y = c
    BY <1>2
  <2> QED BY <1>2, <2>1, RestatedOk DEF Held
<1> QED BY <1>1, <1>2

\* The end of a problem.
LEMMA ForgottenOk ==
    ASSUME NEW n, NEW x, Sound(x, n), IsOk(x) \/ x.since = Never, NEW y, y = Forgotten(x)
    PROVE  Sound(y, n) /\ Held(y, x)
<1>1. Good(x) /\ Shaped(x) /\ FlapOk(x, n) /\ TimesOk(x) /\ PhaseOk(x) /\ CalmOk(x)
  BY DEF Sound, Good, NoteOk
<1>2. /\ Steady(y, x) /\ SameTimes(y, x) /\ SameFlap(y, x) /\ SamePhase(y, x)
      /\ y.number = 0 /\ y.notified_on = {} /\ y.tampered = FALSE
  BY <1>1, ForgottenIs
<1>3. ToldOk(y)
  BY <1>2, BoundAssumption DEF ToldOk
<1>4. TimesOk(y) /\ PhaseOk(y) /\ CalmOk(y)
  BY <1>1, <1>2 DEF TimesOk, PhaseOk, CalmOk, SameTimes, SamePhase
<1>5. ArmedOk(y)
  BY <1>2 DEF ArmedOk, SameTimes, Steady, SameState, IsOk
<1>6. Good(y)
  BY <1>1, <1>2, <1>3, <1>4, <1>5, SteadyOk DEF NoteOk
<1>7. FlapOk(y, n)
  BY <1>1, <1>2, FlapSame
<1> QED BY <1>2, <1>6, <1>7 DEF Sound, Held, Steady, SameState

LEMMA StatedIs ==
    ASSUME NEW n, NEW x, Sound(x, n)
    PROVE  Stated(x) /\ Shaped(x)
BY DEF Sound, Good, Stated, HistoryOk

\* The rules of a service and of a host change no more than that.
LEMMA UnacknowledgedIs ==
    ASSUME NEW x, Shaped(x), Stated(x), NEW y, y = Unacknowledged(x)
    PROVE  Restated(y, x) /\ Stated(y) /\ SameState(y, x)
<1>1. Restated(y, x) /\ SameState(y, x) /\ y.age = x.age
      /\ y.acknowledged = FALSE /\ y.acknowledgement_type = "NONE"
  BY DEF Unacknowledged, Shaped, Names, Restated, SameState, SameSwitch, SameTold, SameTimes,
         SameFlap, SameSeen, SamePhase
<1> QED BY <1>1 DEF Stated, StateOk, AckOk, AckType, SameState

LEMMA ClearedIs ==
    ASSUME NEW n, NEW x, Sound(x, n), NEW y, y \in {ClearedAck(x), HostClearedAck(x)}
    PROVE  Sound(y, n) /\ Held(y, x)
<1>1. y = x \/ y = Unacknowledged(x)
  BY DEF ClearedAck, HostClearedAck, HostUnacknowledged, Unacknowledged
<1>2. CASE y = x
  BY <1>2 DEF Held
<1>3. CASE y = Unacknowledged(x)
  <2>1. Restated(y, x) /\ Stated(y) /\ SameState(y, x)
    BY <1>3, StatedIs, UnacknowledgedIs
  <2> QED BY <2>1, RestatedOk DEF SameState, Held
<1> QED BY <1>1, <1>2, <1>3

LEMMA DatedIs ==
    ASSUME config \in Configs, NEW n, NEW x, Sound(x, n), NEW hard, NEW y, y = Dated(x, hard)
    PROVE  Sound(y, n) /\ Held(y, x)
<1> DEFINE a == IF hard \/ IsOk(x) THEN 0 ELSE x.age
<1>1. y = [x EXCEPT !.age = a]
  BY DEF Dated
<1>2. Shaped(x) /\ Stated(x)
  BY StatedIs
<1>3. a \in 0 .. config.delay
  BY <1>2, LongestIs DEF Stated
<1> HIDE DEF a
<1>4. Restated(y, x) /\ SameState(y, x) /\ SameAck(y, x) /\ y.age = a
  BY <1>1, <1>2 DEF Shaped, Names, Restated, SameState, SameAck, SameSwitch, SameTold, SameTimes,
         SameFlap, SameSeen, SamePhase
<1>5. Stated(y)
  BY <1>2, <1>3, <1>4 DEF Stated, StateOk, AckOk, SameState, SameAck
<1> QED BY <1>4, <1>5, RestatedOk DEF SameState, Held

\* A change of the attempt, of the type of the state and of the last hard state.
Graded(y, x) ==
    /\ Restated(y, x) /\ Held(y, x) /\ y.age = x.age /\ y.max_attempts = x.max_attempts
    /\ SameAck(y, x)
    /\ y.last_hard_state \in State /\ y.state_type \in StateType
    /\ y.current_attempt \in 1 .. config.max_attempts

LEMMA GradedOk ==
    ASSUME NEW n, NEW x, Sound(x, n), NEW y, Graded(y, x)
    PROVE  Sound(y, n) /\ Held(y, x)
<1>1. Stated(x)
  BY StatedIs
<1>2. Stated(y)
  BY <1>1 DEF Stated, StateOk, AckOk, Graded, SameAck, Held
<1> QED BY <1>2, RestatedOk DEF Graded, Held

LEMMA TypeIs ==
    ASSUME NEW n, NEW x, Sound(x, n), NEW type \in StateType,
           NEW y, y = [x EXCEPT !.state_type = type]
    PROVE  Sound(y, n) /\ Held(y, x)
<1>1. Shaped(x) /\ Stated(x)
  BY StatedIs
<1>2. Graded(y, x)
  <2>1. /\ Restated(y, x) /\ Held(y, x) /\ y.age = x.age /\ y.max_attempts = x.max_attempts
        /\ SameAck(y, x) /\ y.state_type = type
        /\ y.last_hard_state = x.last_hard_state /\ y.current_attempt = x.current_attempt
    BY <1>1 DEF Shaped, Names, Restated, Held, SameAck, SameSwitch, SameTold, SameTimes,
                SameFlap, SameSeen, SamePhase
  <2> QED BY <1>1, <2>1 DEF Graded, Stated, StateOk
<1> QED BY <1>2, GradedOk

LEMMA HardStateIs ==
    ASSUME NEW n, NEW x, Sound(x, n), NEW state \in State,
           NEW y, y = [x EXCEPT !.last_hard_state = state]
    PROVE  Sound(y, n) /\ Held(y, x)
<1>1. Shaped(x) /\ Stated(x)
  BY StatedIs
<1>2. Graded(y, x)
  <2>1. /\ Restated(y, x) /\ Held(y, x) /\ y.age = x.age /\ y.max_attempts = x.max_attempts
        /\ SameAck(y, x) /\ y.state_type = x.state_type
        /\ y.last_hard_state = state /\ y.current_attempt = x.current_attempt
    BY <1>1 DEF Shaped, Names, Restated, Held, SameAck, SameSwitch, SameTold, SameTimes,
                SameFlap, SameSeen, SamePhase
  <2> QED BY <1>1, <2>1 DEF Graded, Stated, StateOk
<1> QED BY <1>2, GradedOk

LEMMA AttemptIs ==
    ASSUME NEW n, NEW x, Sound(x, n), NEW attempt \in 1 .. config.max_attempts,
           NEW y, y = [x EXCEPT !.current_attempt = attempt]
    PROVE  Sound(y, n) /\ Held(y, x)
<1>1. Shaped(x) /\ Stated(x)
  BY StatedIs
<1>2. Graded(y, x)
  <2>1. /\ Restated(y, x) /\ Held(y, x) /\ y.age = x.age /\ y.max_attempts = x.max_attempts
        /\ SameAck(y, x) /\ y.state_type = x.state_type
        /\ y.last_hard_state = x.last_hard_state /\ y.current_attempt = attempt
    BY <1>1 DEF Shaped, Names, Restated, Held, SameAck, SameSwitch, SameTold, SameTimes,
                SameFlap, SameSeen, SamePhase
  <2> QED BY <1>1, <2>1 DEF Graded, Stated, StateOk
<1> QED BY <1>2, GradedOk

\* A host that is up again, and one that is not.
LEMMA HostUpIs ==
    ASSUME config \in Configs, NEW n, NEW x, Sound(x, n), NEW y, y = HostUp(x)
    PROVE  Sound(y, n) /\ Held(y, x)
<1> DEFINE k == IF x.host_problem_at_last_check /\ x.state_type = "SOFT" THEN 1
                ELSE x.current_attempt
<1>1. Shaped(x) /\ Stated(x)
  BY StatedIs
<1>2. y = [x EXCEPT !.host_problem_at_last_check = FALSE, !.current_attempt = k]
  BY DEF HostUp
<1>3. k \in 1 .. config.max_attempts
  BY <1>1, ConfigAssumption DEF Stated, StateOk
<1> HIDE DEF k
<1>4. Graded(y, x)
  <2>1. /\ Restated(y, x) /\ Held(y, x) /\ y.age = x.age /\ y.max_attempts = x.max_attempts
        /\ SameAck(y, x) /\ y.state_type = x.state_type
        /\ y.last_hard_state = x.last_hard_state /\ y.current_attempt = k
    BY <1>1, <1>2 DEF Shaped, Names, Restated, Held, SameAck, SameSwitch, SameTold, SameTimes,
                      SameFlap, SameSeen, SamePhase
  <2> QED BY <1>1, <1>3, <2>1 DEF Graded, Stated, StateOk
<1> QED BY <1>4, GradedOk

LEMMA HostDownIs ==
    ASSUME NEW n, NEW x, Sound(x, n), NEW hard \in BOOLEAN, NEW y, y = HostDown(x, hard)
    PROVE  Sound(y, n) /\ Held(y, x)
<1> DEFINE k == IF hard THEN "HARD" ELSE x.state_type
           s == IF hard THEN x.current_state ELSE x.last_hard_state
<1>1. Shaped(x) /\ Stated(x)
  BY StatedIs
<1>2. y = [x EXCEPT !.host_problem_at_last_check = TRUE, !.state_type = k, !.last_hard_state = s]
  BY DEF HostDown
<1>3. k \in StateType /\ s \in State
  BY <1>1 DEF Stated, StateOk, StateType
<1> HIDE DEF k, s
<1>4. Graded(y, x)
  <2>1. /\ Restated(y, x) /\ Held(y, x) /\ y.age = x.age /\ y.max_attempts = x.max_attempts
        /\ SameAck(y, x) /\ y.state_type = k
        /\ y.last_hard_state = s /\ y.current_attempt = x.current_attempt
    BY <1>1, <1>2 DEF Shaped, Names, Restated, Held, SameAck, SameSwitch, SameTold, SameTimes,
                      SameFlap, SameSeen, SamePhase
  <2> QED BY <1>1, <1>3, <2>1 DEF Graded, Stated, StateOk
<1> QED BY <1>4, GradedOk

\* A recovery of a service.
LEMMA ResetIs ==
    ASSUME config \in Configs, IsService, NEW n, NEW x, Sound(x, n), NEW y, y = Reset(x)
    PROVE  Sound(y, n) /\ Held(y, x)
<1> DEFINE u == Unacknowledged(x)
<1>1. Shaped(x) /\ Stated(x)
  BY StatedIs
<1>2. Restated(u, x) /\ Stated(u) /\ SameState(u, x)
  BY <1>1, UnacknowledgedIs
<1>3. y = [u EXCEPT !.host_problem_at_last_check = FALSE, !.current_attempt = 1,
                    !.state_type = "HARD", !.last_hard_state = "OK"]
  BY DEF Reset
<1> HIDE DEF u
<1>4. Sound(u, n)
  BY <1>2, RestatedOk DEF SameState
<1>5. Graded(y, u)
  <2>1. /\ Restated(y, u) /\ Held(y, u) /\ y.age = u.age /\ y.max_attempts = u.max_attempts
        /\ SameAck(y, u) /\ y.state_type = "HARD"
        /\ y.last_hard_state = "OK" /\ y.current_attempt = 1
    BY <1>2, <1>3 DEF Shaped, Names, Restated, Held, SameAck, SameSwitch, SameTold, SameTimes,
                      SameFlap, SameSeen, SamePhase
  <2>2. "OK" \in State /\ "HARD" \in StateType /\ 1 \in 1 .. config.max_attempts
    BY ConfigAssumption DEF State, ServiceState, StateType
  <2> QED BY <2>1, <2>2 DEF Graded
<1>6. Sound(y, n) /\ Held(y, u)
  BY <1>4, <1>5, GradedOk
<1> QED BY <1>2, <1>6 DEF SameState, Held

\* What is remembered of the problem goes with it.
LEMMA EndedIs ==
    ASSUME config \in Configs, IsService, NEW n, NEW x, Sound(x, n),
           NEW y, y = Forgotten(TimesReset(Reset(x)))
    PROVE  Sound(y, n) /\ Held(y, x)
<1> DEFINE r == Reset(x)
           t == TimesReset(r)
<1>1. Sound(r, n) /\ Held(r, x)
  <2> DEFINE d == r
  <2>1. d = Reset(x)
    OBVIOUS
  <2> HIDE DEF d
  <2>2. Sound(d, n) /\ Held(d, x)
    BY <2>1, ResetIs
  <2> QED BY <2>2 DEF d
<1>2. y = Forgotten(t)
  OBVIOUS
<1> HIDE DEF r
<1>3. Sound(t, n) /\ Held(t, r) /\ t.since = Never
  <2>1. Shaped(r) /\ ToldOk(r) /\ PhaseOk(r) /\ CalmOk(r) /\ Good(r) /\ FlapOk(r, n)
    BY <1>1 DEF Sound, Good, NoteOk
  <2>2. NoteOk(t)
    BY <2>1, TimesResetOk
  <2>3. Steady(t, r) /\ SameFlap(t, r) /\ t.since = Never
    BY <2>1, TimesResetIs
  <2> HIDE DEF t
  <2>4. Good(t) /\ FlapOk(t, n)
    BY <2>1, <2>2, <2>3, SteadyOk, FlapSame
  <2> QED BY <2>3, <2>4 DEF Sound, Held, Steady, SameState
<1> HIDE DEF t
<1>4. Sound(y, n) /\ Held(y, t)
  BY <1>2, <1>3, ForgottenOk
<1> QED BY <1>1, <1>3, <1>4 DEF Held

LEMMA ServiceRecoversOk ==
    ASSUME Given0, IsService, NEW n \in Nat, NEW x, Sound(x, n), NEW hard \in BOOLEAN,
           NEW y, y = ServiceRecovers(x, hard)
    PROVE  Sound(y, n) /\ Held(y, x)
<1> DEFINE a == [x EXCEPT !.state_type = "HARD"]
           b == CheckServiceFlapping(a, TRUE, TRUE)
           c == Notify(b, "NORMAL", None)
           d == Forgotten(TimesReset(Reset(c)))
           e == Forgotten(TimesReset(Reset(x)))
<1>0. config \in Configs
  BY DEF Given0
<1>1. y = IF hard THEN d ELSE CheckServiceFlapping(e, TRUE, TRUE)
  BY DEF ServiceRecovers
<1>2. CASE hard
  <2>1. y = d
    BY <1>1, <1>2
  <2>2. \E z : z = a
    OBVIOUS
  <2>3. PICK p : p = a
    BY <2>2
  <2>4. Sound(p, n) /\ Held(p, x)
    BY <2>3, TypeIs DEF StateType
  <2>5. \E z : z = CheckServiceFlapping(p, TRUE, TRUE)
    OBVIOUS
  <2>6. PICK q : q = CheckServiceFlapping(p, TRUE, TRUE)
    BY <2>5
  <2>7. Sound(q, n) /\ Held(q, p)
    BY <2>4, <2>6, CheckFlappingOk
  <2>8. \E z : z = Notify(q, "NORMAL", None)
    OBVIOUS
  <2>9. PICK r : r = Notify(q, "NORMAL", None)
    BY <2>8
  <2>10. Sound(r, n) /\ Held(r, q)
    BY <2>7, <2>9, NotifySound
  <2>11. y = Forgotten(TimesReset(Reset(r)))
    BY Zenon, <2>1, <2>3, <2>6, <2>9
  <2>12. Sound(y, n) /\ Held(y, r)
    BY <1>0, <2>10, <2>11, EndedIs
  <2> QED BY <2>4, <2>7, <2>10, <2>12 DEF Held
<1>3. CASE ~hard
  <2>1. y = CheckServiceFlapping(e, TRUE, TRUE)
    BY <1>1, <1>3
  <2>2. \E z : z = e
    OBVIOUS
  <2>3. PICK p : p = e
    BY <2>2
  <2>4. Sound(p, n) /\ Held(p, x)
    BY <1>0, <2>3, EndedIs
  <2>5. y = CheckServiceFlapping(p, TRUE, TRUE)
    BY Zenon, <2>1, <2>3
  <2>6. Sound(y, n) /\ Held(y, p)
    BY <2>4, <2>5, CheckFlappingOk
  <2> QED BY <2>4, <2>6 DEF Held
<1> QED BY <1>2, <1>3

LEMMA ServiceFailsOk ==
    ASSUME Given0, NEW n \in Nat, NEW x, Sound(x, n), NEW hardbefore \in BOOLEAN,
           NEW y, y = ServiceFails(x, hardbefore)
    PROVE  Sound(y, n) /\ Held(y, x)
<1> DEFINE hard == hardbefore \/ (~env.host_up /\ x.last_hard_state # x.current_state)
           d == Dated(x, hard)
           f == IF env.host_up THEN HostUp(d) ELSE HostDown(d, hard)
           s == IF env.host_up THEN [f EXCEPT !.state_type = "SOFT"] ELSE f
           g == [f EXCEPT !.state_type = "HARD"]
           h == CheckServiceFlapping(g, TRUE, TRUE)
           m == Notify(h, "NORMAL", None)
<1>1. y = IF f.current_attempt < f.max_attempts THEN CheckServiceFlapping(s, TRUE, TRUE)
          ELSE [m EXCEPT !.last_hard_state = h.current_state]
  BY DEF ServiceFails
<1>2. config \in Configs /\ hard \in BOOLEAN
  BY DEF Given0
<1> HIDE DEF hard
<1>3. PICK p : p = d
  OBVIOUS
<1>4. Sound(p, n) /\ Held(p, x)
  BY <1>2, <1>3, DatedIs
<1>5. PICK q : q = f
  OBVIOUS
<1>6. q = IF env.host_up THEN HostUp(p) ELSE HostDown(p, hard)
  BY <1>3, <1>5
<1>7. Sound(q, n) /\ Held(q, p)
  <2>1. CASE env.host_up
    <3>1. q = HostUp(p)
      BY <1>6, <2>1
    <3> QED BY <1>2, <1>4, <3>1, HostUpIs
  <2>2. CASE ~env.host_up
    <3>1. q = HostDown(p, hard)
      BY <1>6, <2>2
    <3> QED BY <1>2, <1>4, <3>1, HostDownIs
  <2> QED BY <2>1, <2>2
<1>8. y = IF q.current_attempt < q.max_attempts
          THEN CheckServiceFlapping(IF env.host_up THEN [q EXCEPT !.state_type = "SOFT"] ELSE q,
                                    TRUE, TRUE)
          ELSE [Notify(CheckServiceFlapping([q EXCEPT !.state_type = "HARD"], TRUE, TRUE), "NORMAL", None)
                  EXCEPT !.last_hard_state =
                    CheckServiceFlapping([q EXCEPT !.state_type = "HARD"], TRUE, TRUE).current_state]
  BY Zenon, <1>1, <1>5
<1> HIDE DEF d, f, s, g, h, m
<1>9. CASE q.current_attempt < q.max_attempts
  <2>1. PICK r : r = IF env.host_up THEN [q EXCEPT !.state_type = "SOFT"] ELSE q
    OBVIOUS
  <2>2. Sound(r, n) /\ Held(r, q)
    <3>1. CASE env.host_up
      <4>1. r = [q EXCEPT !.state_type = "SOFT"]
        BY <2>1, <3>1
      <4> QED BY <1>7, <4>1, TypeIs DEF StateType
    <3>2. CASE ~env.host_up
      BY <1>7, <2>1, <3>2 DEF Held
    <3> QED BY <3>1, <3>2
  <2>3. y = CheckServiceFlapping(r, TRUE, TRUE)
    BY <1>8, <1>9, <2>1
  <2>4. Sound(y, n) /\ Held(y, r)
    BY <2>2, <2>3, CheckFlappingOk
  <2> QED BY <1>4, <1>7, <2>2, <2>4 DEF Held
<1>10. CASE ~(q.current_attempt < q.max_attempts)
  <2>1. PICK r : r = [q EXCEPT !.state_type = "HARD"]
    OBVIOUS
  <2>2. Sound(r, n) /\ Held(r, q)
    BY <1>7, <2>1, TypeIs DEF StateType
  <2>3. PICK t : t = CheckServiceFlapping(r, TRUE, TRUE)
    OBVIOUS
  <2>4. Sound(t, n) /\ Held(t, r)
    BY <2>2, <2>3, CheckFlappingOk
  <2>5. PICK u : u = Notify(t, "NORMAL", None)
    OBVIOUS
  <2>6. Sound(u, n) /\ Held(u, t)
    BY <2>4, <2>5, NotifySound
  <2>7. y = [u EXCEPT !.last_hard_state = t.current_state]
    BY <1>8, <1>10, <2>1, <2>3, <2>5
  <2>8. t.current_state \in State
    BY <2>4 DEF Sound, Good, StateOk
  <2>9. Sound(y, n) /\ Held(y, u)
    BY <2>6, <2>7, <2>8, HardStateIs
  <2> QED BY <1>4, <1>7, <2>2, <2>4, <2>6, <2>9 DEF Held
<1> QED BY <1>9, <1>10

LEMMA ReceivedIs ==
    ASSUME IsService, NEW x, Shaped(x), Stated(x), NEW outcome, NEW y, y = Received(x, outcome)
    PROVE  Restated(y, x) /\ Stated(y) /\ y.last_state = x.current_state
<1> DEFINE s == IF outcome \in ServiceState THEN outcome ELSE "CRITICAL"
<1>1. y = [x EXCEPT !.last_state = x.current_state, !.current_state = s]
  BY DEF Received
<1>2. s \in State
  BY ProblemsAssumption DEF State, ServiceState
<1> HIDE DEF s
<1>3. /\ Restated(y, x) /\ y.age = x.age /\ y.max_attempts = x.max_attempts /\ SameAck(y, x)
      /\ y.state_type = x.state_type /\ y.last_hard_state = x.last_hard_state
      /\ y.current_attempt = x.current_attempt
      /\ y.current_state = s /\ y.last_state = x.current_state
  BY <1>1 DEF Shaped, Names, Restated, SameAck, SameSwitch, SameTold, SameTimes,
              SameFlap, SameSeen, SamePhase
<1> QED BY <1>2, <1>3 DEF Stated, StateOk, AckOk, SameAck

LEMMA CountedIs ==
    ASSUME config \in Configs, NEW x, Shaped(x), Stated(x), NEW y, y = Counted(x)
    PROVE  Restated(y, x) /\ Stated(y) /\ Held(y, x)
<1> DEFINE k == x.current_attempt + 1
<1>1. CASE x.state_type = "SOFT" /\ x.current_attempt < x.max_attempts
  <2>1. y = [x EXCEPT !.current_attempt = k]
    BY <1>1 DEF Counted
  <2>2. k \in 1 .. config.max_attempts
    <3>1. /\ x.max_attempts = config.max_attempts /\ config.max_attempts \in Nat
          /\ x.current_attempt \in 1 .. config.max_attempts
      BY ConfigAssumption DEF Stated, StateOk
    <3>2. x.current_attempt \in Nat /\ x.current_attempt >= 1 /\ x.current_attempt <= config.max_attempts
      BY <3>1
    <3> QED BY <1>1, <3>1, <3>2
  <2> HIDE DEF k
  <2>3. /\ Restated(y, x) /\ Held(y, x) /\ y.age = x.age /\ y.max_attempts = x.max_attempts
        /\ SameAck(y, x) /\ y.state_type = x.state_type
        /\ y.last_hard_state = x.last_hard_state /\ y.current_attempt = k
    BY <2>1 DEF Shaped, Names, Restated, Held, SameAck, SameSwitch, SameTold, SameTimes,
                SameFlap, SameSeen, SamePhase
  <2> QED BY <2>2, <2>3 DEF Stated, StateOk, AckOk, SameAck, Held
<1>2. CASE ~(x.state_type = "SOFT" /\ x.current_attempt < x.max_attempts)
  <2>1. y = x
    BY <1>2 DEF Counted
  <2> QED BY <2>1 DEF Restated, Held, SameSwitch, SameTold, SameTimes, SameFlap, SameSeen, SamePhase
<1> QED BY <1>1, <1>2

LEMMA RestatedTwice ==
    ASSUME NEW x, NEW y, NEW z, Restated(y, x), Restated(z, y)
    PROVE  Restated(z, x)
BY DEF Restated, SameSwitch, SameTold, SameTimes, SameFlap, SameSeen, SamePhase

LEMMA ServiceResultOk ==
    ASSUME Given0, IsService, NEW n \in Nat, NEW x, Sound(x, n), NEW outcome,
           NEW y, y = ServiceResult(x, outcome)
    PROVE  Sound(y, n)
<1>0. config \in Configs
  BY DEF Given0
<1>1. PICK b : b = Received(x, outcome)
  OBVIOUS
<1>2. Restated(b, x) /\ Stated(b) /\ Shaped(b) /\ b.last_state = x.current_state
  <2>1. Shaped(x) /\ Stated(x)
    BY StatedIs
  <2> QED BY <1>1, <2>1, ReceivedIs DEF Restated
<1>3. PICK c : c = Counted(b)
  OBVIOUS
<1>4. Restated(c, x) /\ Stated(c) /\ c.last_state = x.current_state
  BY <1>0, <1>2, <1>3, CountedIs, RestatedTwice DEF Held
<1> DEFINE changed == StateChange(c) \/ HardStateChange(c)
<1>5. changed \in BOOLEAN /\ (~changed => c.current_state = x.current_state)
  BY <1>4 DEF StateChange, HardStateChange
<1>6. PICK t : t = IF changed THEN TimesReset(c) ELSE c
  OBVIOUS
<1>7. PICK a : a = ClearedAck(t)
  OBVIOUS
<1>8. PICK d : d = Dated(a, HardStateChange(c))
  OBVIOUS
<1>9. y = IF IsOk(d) THEN ServiceRecovers(Unacknowledged(d), HardStateChange(c))
          ELSE ServiceFails(d, HardStateChange(c))
  BY Zenon, <1>1, <1>3, <1>6, <1>7, <1>8 DEF ServiceResult
<1> HIDE DEF changed
<1>10. Sound(t, n)
  BY <1>0, <1>4, <1>5, <1>6, TurnedOk
<1>11. Sound(a, n)
  BY <1>7, <1>10, ClearedIs
<1>12. Sound(d, n)
  BY <1>0, <1>8, <1>11, DatedIs
<1>13. HardStateChange(c) \in BOOLEAN
  BY DEF HardStateChange
<1>14. CASE IsOk(d)
  <2>1. PICK u : u = Unacknowledged(d)
    OBVIOUS
  <2>2. Sound(u, n)
    <3>1. Restated(u, d) /\ Stated(u) /\ SameState(u, d)
      BY <1>12, <2>1, StatedIs, UnacknowledgedIs
    <3> QED BY <1>12, <3>1, RestatedOk DEF SameState
  <2>3. y = ServiceRecovers(u, HardStateChange(c))
    BY <1>9, <1>14, <2>1
  <2> QED BY <1>13, <2>2, <2>3, ServiceRecoversOk
<1>15. CASE ~IsOk(d)
  <2>1. y = ServiceFails(d, HardStateChange(c))
    BY <1>9, <1>15
  <2> QED BY <1>12, <1>13, <2>1, ServiceFailsOk
<1> QED BY <1>14, <1>15

\* A result of a host.
LEMMA AdjustedIs ==
    ASSUME config \in Configs, NEW x, Shaped(x), Stated(x), NEW active,
           NEW y, y = Adjusted(x, active)
    PROVE  Restated(y, x) /\ Stated(y) /\ Held(y, x)
<1> DEFINE k == IF x.state_type = "HARD" \/ (active /\ x.current_state = "UP") THEN 1
                ELSE IF x.current_attempt < x.max_attempts THEN x.current_attempt + 1
                ELSE x.current_attempt
<1>1. y = [x EXCEPT !.current_attempt = k]
  BY DEF Adjusted
<1>2. k \in 1 .. config.max_attempts
  <2>1. /\ x.max_attempts = config.max_attempts /\ config.max_attempts \in Nat \ {0}
        /\ x.current_attempt \in 1 .. config.max_attempts
    BY ConfigAssumption DEF Stated, StateOk
  <2> QED BY <2>1
<1> HIDE DEF k
<1>3. /\ Restated(y, x) /\ Held(y, x) /\ y.age = x.age /\ y.max_attempts = x.max_attempts
      /\ SameAck(y, x) /\ y.state_type = x.state_type
      /\ y.last_hard_state = x.last_hard_state /\ y.current_attempt = k
  BY <1>1 DEF Shaped, Names, Restated, Held, SameAck, SameSwitch, SameTold, SameTimes,
              SameFlap, SameSeen, SamePhase
<1> QED BY <1>2, <1>3 DEF Stated, StateOk, AckOk, SameAck, Held

LEMMA SavedIs ==
    ASSUME NEW x, Shaped(x), Stated(x), NEW y, y = Saved(x)
    PROVE  /\ Restated(y, x) /\ Stated(y)
           /\ y.current_state = x.current_state /\ y.last_state = x.current_state
<1> DEFINE s == IF x.state_type = "HARD" THEN x.current_state ELSE x.last_hard_state
<1>1. y = [x EXCEPT !.last_state = x.current_state, !.last_hard_state = s]
  BY DEF Saved
<1>2. s \in State
  BY DEF Stated, StateOk
<1> HIDE DEF s
<1>3. /\ Restated(y, x) /\ y.age = x.age /\ y.max_attempts = x.max_attempts
      /\ SameAck(y, x) /\ y.state_type = x.state_type /\ y.current_state = x.current_state
      /\ y.last_state = x.current_state
      /\ y.last_hard_state = s /\ y.current_attempt = x.current_attempt
  BY <1>1 DEF Shaped, Names, Restated, SameAck, SameSwitch, SameTold, SameTimes,
              SameFlap, SameSeen, SamePhase
<1> QED BY <1>2, <1>3 DEF Stated, StateOk, AckOk, SameAck

\* The new state is one of a host, and hard or soft.
Stays(x, s, t) == [x EXCEPT !.current_state = s, !.state_type = t]
Moves(x, s, t, k) == [x EXCEPT !.current_state = s, !.state_type = t, !.current_attempt = k]

LEMMA MovedIs ==
    ASSUME NEW x, Shaped(x), Stated(x), NEW s \in State, NEW t \in StateType,
           NEW k \in 1 .. config.max_attempts,
           NEW y, y = Moves(x, s, t, k)
    PROVE  Restated(y, x) /\ Stated(y) /\ y.last_state = x.last_state
<1>1. /\ Restated(y, x) /\ y.age = x.age /\ y.max_attempts = x.max_attempts /\ SameAck(y, x)
      /\ y.current_state = s /\ y.state_type = t /\ y.current_attempt = k
      /\ y.last_hard_state = x.last_hard_state /\ y.last_state = x.last_state
  BY DEF Moves, Shaped, Names, Restated, SameAck, SameSwitch, SameTold, SameTimes,
         SameFlap, SameSeen, SamePhase
<1> QED BY <1>1 DEF Stated, StateOk, AckOk, SameAck

LEMMA StaysIs ==
    ASSUME NEW x, Shaped(x), Stated(x), NEW s \in State, NEW t \in StateType,
           NEW y, y = Stays(x, s, t)
    PROVE  Restated(y, x) /\ Stated(y) /\ y.last_state = x.last_state
<1>1. /\ Restated(y, x) /\ y.age = x.age /\ y.max_attempts = x.max_attempts /\ SameAck(y, x)
      /\ y.current_state = s /\ y.state_type = t /\ y.current_attempt = x.current_attempt
      /\ y.last_hard_state = x.last_hard_state /\ y.last_state = x.last_state
  BY DEF Stays, Shaped, Names, Restated, SameAck, SameSwitch, SameTold, SameTimes,
         SameFlap, SameSeen, SamePhase
<1> QED BY <1>1 DEF Stated, StateOk, AckOk, SameAck

LEMMA ProcessedIs ==
    ASSUME config \in Configs, ~IsService, NEW x, Shaped(x), Stated(x),
           NEW new \in HostState, NEW route \in HostState, NEW check,
           NEW y, y = Processed(x, new, route, check)
    PROVE  Restated(y, x) /\ Stated(y) /\ y.last_state = x.last_state
<1> DEFINE s == IF check.active \/ check.translate THEN route ELSE new
           t == IF HardAtOnce(check) THEN "HARD" ELSE x.state_type
           u == IF \/ HardAtOnce(check)
                   \/ x.current_attempt \in {1, x.max_attempts}
                THEN "HARD" ELSE "SOFT"
           v == IF x.max_attempts = 1 \/ HardAtOnce(check) THEN "HARD" ELSE "SOFT"
           k == IF HardAtOnce(check) THEN 1 ELSE x.current_attempt
           l == IF x.max_attempts > 1 /\ HardAtOnce(check) THEN 1 ELSE x.current_attempt
<1>1. y \in {Stays(x, "UP", t),
             Moves(x, s, u, k),
             Stays(x, "UP", "HARD"),
             Moves(x, s, v, l)}
  <2>1. y \in {Recovered(x, check), StillDown(x, new, route, check), StillUp(x),
               WentDown(x, new, route, check)}
    BY DEF Processed
  <2>2. Recovered(x, check) = Stays(x, "UP", t)
    BY DEF Recovered, Stays
  <2>3. StillDown(x, new, route, check) = Moves(x, s, u, k)
    BY DEF StillDown, Moves
  <2>4. StillUp(x) = Stays(x, "UP", "HARD")
    BY DEF StillUp, Stays
  <2>5. WentDown(x, new, route, check) = Moves(x, s, v, l)
    BY DEF WentDown, Moves
  <2> QED BY Zenon, <2>1, <2>2, <2>3, <2>4, <2>5
<1>2. s \in State /\ "UP" \in State /\ "HARD" \in StateType
  BY DEF State, HostState, StateType
<1>3. t \in StateType /\ u \in StateType /\ v \in StateType
  BY DEF StateType, Stated, StateOk
<1>4. k \in 1 .. config.max_attempts /\ l \in 1 .. config.max_attempts
  BY ConfigAssumption DEF Stated, StateOk
<1> HIDE DEF s, t, u, v, k, l
<1>5. CASE y = Stays(x, "UP", t)
  BY <1>2, <1>3, <1>5, StaysIs
<1>6. CASE y = Moves(x, s, u, k)
  BY <1>2, <1>3, <1>4, <1>6, MovedIs
<1>7. CASE y = Stays(x, "UP", "HARD")
  BY <1>2, <1>7, StaysIs
<1>8. CASE y = Moves(x, s, v, l)
  BY <1>2, <1>3, <1>4, <1>8, MovedIs
<1> QED BY <1>1, <1>5, <1>6, <1>7, <1>8

\* h is what a result made of x; what is done about it then.
LEMMA HandleHostStateOk ==
    ASSUME Given0, NEW n \in Nat, NEW x, Sound(x, n), NEW h, Restated(h, x), Stated(h),
           h.last_state = x.current_state, NEW y, y = HandleHostState(h)
    PROVE  Sound(y, n)
<1> DEFINE hard == h.current_attempt >= h.max_attempts /\ HostHardChange(h)
           turned == HostStateChange(h) \/ hard
           changed == HostStateChange(h) \/ HostHardChange(h)
<1>0. config \in Configs
  BY DEF Given0
<1>1. turned \in BOOLEAN /\ (~turned => h.current_state = x.current_state)
  BY DEF HostStateChange, HostHardChange
<1>2. PICK t : t = IF turned THEN TimesReset(h) ELSE h
  OBVIOUS
<1>3. PICK a : a = HostClearedAck(t)
  OBVIOUS
<1>4. PICK d : d = Dated(a, changed /\ h.state_type = "HARD")
  OBVIOUS
<1>5. PICK told : told = IF h.state_type = "HARD" THEN Notify(d, "NORMAL", None) ELSE d
  OBVIOUS
<1>6. y = CASE changed /\ IsOk(h) -> Forgotten([told EXCEPT !.current_attempt = 1])
            [] changed /\ ~IsOk(h) -> told
            [] ~changed /\ IsOk(h) -> d
            [] ~changed /\ ~IsOk(h) -> told
  BY Zenon, <1>2, <1>3, <1>4, <1>5 DEF HandleHostState
<1> HIDE DEF hard, turned, changed
<1>7. Sound(t, n) /\ Held(t, h)
  BY <1>0, <1>1, <1>2, TurnedOk
<1>8. Sound(a, n) /\ Held(a, t)
  BY <1>3, <1>7, ClearedIs
<1>9. Sound(d, n) /\ Held(d, a)
  BY <1>0, <1>4, <1>8, DatedIs
<1>10. Sound(told, n) /\ Held(told, d)
  <2>1. CASE h.state_type = "HARD"
    <3>1. told = Notify(d, "NORMAL", None)
      BY <1>5, <2>1
    <3> QED BY <1>9, <3>1, NotifySound
  <2>2. CASE h.state_type # "HARD"
    BY <1>5, <1>9, <2>2 DEF Held
  <2> QED BY <2>1, <2>2
<1>11. CASE changed /\ IsOk(h)
  <2>1. PICK p : p = [told EXCEPT !.current_attempt = 1]
    OBVIOUS
  <2>2. y = Forgotten(p)
    BY <1>6, <1>11, <2>1
  <2>3. Sound(p, n) /\ Held(p, told)
    <3>1. 1 \in 1 .. config.max_attempts
      BY <1>0, ConfigAssumption
    <3> QED BY <1>10, <2>1, <3>1, AttemptIs
  <2>4. p.current_state = h.current_state
    BY <1>7, <1>8, <1>9, <1>10, <2>3 DEF Held
  <2>5. IsOk(p)
    BY <1>11, <2>4 DEF IsOk
  <2> QED BY <2>2, <2>3, <2>5, ForgottenOk
<1>12. CASE ~(changed /\ IsOk(h))
  <2>1. y = told \/ y = d
    BY <1>6, <1>12
  <2> QED BY <1>9, <1>10, <2>1
<1> QED BY <1>11, <1>12

LEMMA HostResultOk ==
    ASSUME Given0, ~IsService, NEW n \in Nat, NEW x, Sound(x, n), NEW outcome \in HostState,
           NEW y, y = HostResult(x, outcome)
    PROVE  Sound(y, n)
<1> DEFINE new == IF outcome = "UP" THEN "UP" ELSE "DOWN"
<1>0. config \in Configs
  BY DEF Given0
<1>1. PICK a : a = IF config.check.active THEN Adjusted(x, TRUE) ELSE x
  OBVIOUS
<1>2. PICK s : s = Saved(a)
  OBVIOUS
<1>3. PICK h : h = Processed(s, new, outcome, config.check)
  OBVIOUS
<1>4. PICK r : r = HandleHostState(h)
  OBVIOUS
<1>5. y = CheckHostFlapping(r, TRUE, TRUE)
  BY Zenon, <1>1, <1>2, <1>3, <1>4 DEF HostResult
<1>6. Restated(x, x) /\ Stated(x) /\ Shaped(x)
  <2>1. Stated(x) /\ Shaped(x)
    BY StatedIs
  <2> QED BY <2>1 DEF Restated, SameSwitch, SameTold, SameTimes, SameFlap, SameSeen, SamePhase
<1>7. Restated(a, x) /\ Stated(a) /\ a.current_state = x.current_state
  <2>1. CASE config.check.active
    <3>1. a = Adjusted(x, TRUE)
      BY <1>1, <2>1
    <3> QED BY <1>0, <1>6, <3>1, AdjustedIs DEF Held
  <2>2. CASE ~config.check.active
    <3>1. a = x
      BY <1>1, <2>2
    <3> QED BY <1>6, <3>1
  <2> QED BY <2>1, <2>2
<1>8. Restated(s, x) /\ Stated(s) /\ s.last_state = x.current_state
  <2>1. Shaped(a)
    BY <1>7 DEF Restated
  <2>2. Restated(s, a) /\ Stated(s) /\ s.last_state = a.current_state
    BY <1>2, <1>7, <2>1, SavedIs
  <2> QED BY <1>7, <2>2, RestatedTwice
<1>9. Restated(h, x) /\ Stated(h) /\ h.last_state = x.current_state
  <2>1. Shaped(s) /\ new \in HostState
    BY <1>8 DEF Restated, HostState
  <2> HIDE DEF new
  <2>2. Restated(h, s) /\ Stated(h) /\ h.last_state = s.last_state
    BY <1>0, <1>3, <1>8, <2>1, ProcessedIs
  <2> QED BY <1>8, <2>2, RestatedTwice
<1>10. Sound(r, n)
  BY <1>4, <1>9, HandleHostStateOk
<1> QED BY <1>5, <1>10, CheckFlappingOk

LEMMA AtRestOk ==
    ASSUME NEW n, NEW x, Sound(x, n), NEW y, y = AtRest(x)
    PROVE  Sound(y, n) /\ y.last_state = y.current_state
<1>1. Shaped(x) /\ Stated(x) /\ x.current_state \in State
  BY StatedIs DEF Stated, StateOk
<1>2. y = [x EXCEPT !.last_state = x.current_state]
  BY DEF AtRest
<1>3. /\ Restated(y, x) /\ y.age = x.age /\ y.max_attempts = x.max_attempts
      /\ SameAck(y, x) /\ y.state_type = x.state_type /\ y.current_state = x.current_state
      /\ y.last_state = x.current_state
      /\ y.last_hard_state = x.last_hard_state /\ y.current_attempt = x.current_attempt
  BY <1>1, <1>2 DEF Shaped, Names, Restated, SameAck, SameSwitch, SameTold, SameTimes,
                    SameFlap, SameSeen, SamePhase
<1>4. Stated(y)
  BY <1>1, <1>3 DEF Stated, StateOk, AckOk, SameAck
<1> QED BY <1>3, <1>4, RestatedOk

\* A restart calculates the next notification again, before it looks for flapping.
Recalled(x) ==
    LET p == [x EXCEPT !.is_flapping = FALSE, !.linked = FALSE, !.comments = 0,
                       !.abandoned = FALSE, !.host_problem_at_last_check = FALSE,
                       !.wait = 0, !.no_more = FALSE]
        n == IF IsOk(p) \/ p.since = Never THEN p ELSE Rearmed(p, p.since)
    IN IF ~IsOk(n) /\ n.state_type = "HARD"
       THEN [n EXCEPT !.current_attempt = n.max_attempts] ELSE n

\* What it leaves alone.
SameRecord(y, x) ==
    /\ y.current_state = x.current_state /\ y.last_hard_state = x.last_hard_state
    /\ y.state_type = x.state_type /\ y.max_attempts = x.max_attempts
    /\ SameAck(y, x) /\ SameSwitch(y, x) /\ SameTold(y, x) /\ SamePhase(y, x)
    /\ y.state_history = x.state_history

LEMMA RecalledOk ==
    ASSUME Given0, NEW n \in Nat, NEW x, Sound(x, n), NEW m, m = Recalled(x)
    PROVE  /\ Sound(m, n) /\ Held(m, x) /\ SameRecord(m, x)
           /\ m.is_flapping \in BOOLEAN /\ ~m.is_flapping
           /\ ~IsOk(x) /\ x.state_type = "HARD" => m.current_attempt = m.max_attempts
<1>0. config \in Configs
  BY DEF Given0
<1> DEFINE p == [x EXCEPT !.is_flapping = FALSE, !.linked = FALSE, !.comments = 0,
                          !.abandoned = FALSE, !.host_problem_at_last_check = FALSE,
                          !.wait = 0, !.no_more = FALSE]
           r == IF IsOk(p) \/ p.since = Never THEN p ELSE Rearmed(p, p.since)
<1>3. m = IF ~IsOk(r) /\ r.state_type = "HARD"
          THEN [r EXCEPT !.current_attempt = r.max_attempts] ELSE r
  BY Zenon DEF Recalled
<1>4. r = IF IsOk(p) \/ p.since = Never THEN p ELSE Rearmed(p, p.since)
  OBVIOUS
<1> HIDE DEF r
<1>6. /\ Shaped(x) /\ StateOk(x) /\ AckOk(x) /\ HistoryOk(x) /\ ToldOk(x) /\ TimesOk(x)
      /\ PhaseOk(x) /\ CalmOk(x) /\ x.is_flapping \in BOOLEAN
  BY DEF Sound, Good, NoteOk, FlapOk
<1>7. /\ Shaped(p) /\ Held(p, x) /\ SameAck(p, x) /\ SameSwitch(p, x) /\ SameHistory(p, x)
      /\ SameTold(p, x) /\ SamePhase(p, x)
      /\ p.last_hard_state = x.last_hard_state /\ p.state_type = x.state_type
      /\ p.current_attempt = x.current_attempt /\ p.max_attempts = x.max_attempts
      /\ p.since = x.since /\ p.wait = 0 /\ p.no_more = FALSE
      /\ p.is_flapping = FALSE /\ p.comments = 0
  BY <1>6 DEF Shaped, Names, Held, SameAck, SameSwitch, SameHistory, SameTold, SamePhase
<1> HIDE DEF p
<1>8. /\ StateOk(p) /\ AckOk(p) /\ HistoryOk(p) /\ ToldOk(p) /\ TimesOk(p) /\ PhaseOk(p)
      /\ CalmOk(p) /\ FlapOk(p, n)
  <2>1. StateOk(p) /\ AckOk(p) /\ HistoryOk(p)
    BY <1>6, <1>7 DEF StateOk, AckOk, HistoryOk, Held, SameAck, SameHistory
  <2>2. ToldOk(p)
    BY <1>6, <1>7 DEF ToldOk, SameTold
  <2>3. TimesOk(p)
    BY <1>0, <1>6, <1>7, LongestIs DEF TimesOk
  <2>4. PhaseOk(p) /\ CalmOk(p)
    BY <1>6, <1>7 DEF PhaseOk, CalmOk, SamePhase
  <2>5. FlapOk(p, n)
    <3>1. p.is_flapping \in BOOLEAN /\ ~p.is_flapping /\ p.comments = 0
      BY <1>7
    <3>2. (IF p.is_flapping THEN 1 ELSE 0) = 0
      BY <3>1
    <3>3. p.comments \in Nat /\ p.comments <= (IF p.is_flapping THEN 1 ELSE 0) + n
      BY <3>1, <3>2
    <3> QED BY <3>1, <3>2, <3>3 DEF FlapOk
  <2> QED BY <2>1, <2>2, <2>3, <2>4, <2>5
<1>9. Sound(r, n) /\ Held(r, x) /\ SameRecord(r, x) /\ r.is_flapping = FALSE
  <2>1. CASE IsOk(p) \/ p.since = Never
    <3>1. r = p
      BY <1>4, <2>1
    <3>2. ArmedOk(p)
      BY <2>1 DEF ArmedOk
    <3>3. SameRecord(p, x)
      BY <1>7 DEF SameRecord, SameHistory, Held
    <3> QED BY <1>7, <1>8, <3>1, <3>2, <3>3 DEF Sound, Good, NoteOk
  <2>2. CASE ~(IsOk(p) \/ p.since = Never)
    <3>1. r = Rearmed(p, p.since)
      BY <1>4, <2>2
    <3> DEFINE since == p.since
    <3>2. r = Rearmed(p, since)
      BY <3>1
    <3> HIDE DEF since
    <3>3. /\ Steady(r, p) /\ SameTold(r, p) /\ SameFlap(r, p) /\ SamePhase(r, p)
          /\ r.since = p.since
          /\ r.wait = IF Interval(p) > since THEN Interval(p) - since ELSE 0
          /\ r.no_more = (Interval(p) = 0 /\ ~(IsService /\ config.is_volatile > 0))
      BY <1>7, <3>2, RearmedIs
    <3>4. Interval(r) = Interval(p)
      BY <3>3, IntervalSame DEF Steady, SameState, SameTold
    <3>5. ArmedOk(r)
      BY <3>3, <3>4 DEF ArmedOk, since
    <3>6. Interval(p) \in Nat /\ Interval(p) <= LongestInterval(config)
      BY <1>0, IntervalIs
    <3>7. LongestInterval(config) \in Nat /\ LongestWait(config) \in Nat
          /\ LongestInterval(config) <= LongestWait(config)
      BY <1>0, LongestIs
    <3>8. since \in 0 .. LongestInterval(config)
      BY <1>8, <2>2 DEF TimesOk, since
    <3>9. r.wait \in 0 .. LongestWait(config)
      <4> DEFINE i == Interval(p)
                 l == LongestInterval(config)
                 w == LongestWait(config)
      <4>1. /\ i \in Nat /\ l \in Nat /\ w \in Nat /\ i <= l /\ l <= w /\ since \in Nat
            /\ r.wait = IF i > since THEN i - since ELSE 0
        BY <3>3, <3>6, <3>7, <3>8
      <4> HIDE DEF i, l
      <4> QED BY <4>1
    <3>10. TimesOk(r)
      BY <1>8, <3>3, <3>9 DEF TimesOk
    <3>11. ToldOk(r)
      BY <1>8, <3>3 DEF ToldOk, SameTold
    <3>12. PhaseOk(r) /\ CalmOk(r)
      BY <1>8, <3>3 DEF PhaseOk, CalmOk, SamePhase
    <3>13. StateOk(r) /\ AckOk(r) /\ HistoryOk(r) /\ Shaped(r) /\ Held(r, x)
      BY <1>7, <1>8, <3>3 DEF Steady, StateOk, AckOk, HistoryOk, SameState, SameAck,
                              SameHistory, Held
    <3>14. FlapOk(r, n)
      BY <1>8, <3>3, FlapSame
    <3>15. SameRecord(r, x)
      BY <1>7, <3>3 DEF Steady, SameState, SameHistory, SameRecord, Held, SameAck, SameSwitch,
                        SameTold, SamePhase
    <3>16. r.is_flapping = FALSE
      BY <1>7, <3>3 DEF SameFlap
    <3> QED BY <3>5, <3>10, <3>11, <3>12, <3>13, <3>14, <3>15, <3>16 DEF Sound, Good, NoteOk
  <2> QED BY <2>1, <2>2
<1>10. Sound(m, n) /\ Held(m, r) /\ SameRecord(m, r) /\ m.is_flapping = FALSE
       /\ (~IsOk(r) /\ r.state_type = "HARD" => m.current_attempt = m.max_attempts)
  <2>1. CASE ~IsOk(r) /\ r.state_type = "HARD"
    <3>1. m = [r EXCEPT !.current_attempt = config.max_attempts]
      BY <1>3, <1>9, <2>1 DEF Sound, Good, StateOk
    <3>2. config.max_attempts \in 1 .. config.max_attempts
      BY <1>0, ConfigAssumption
    <3>3. Sound(m, n) /\ Held(m, r)
      BY <1>9, <3>1, <3>2, AttemptIs
    <3>4. /\ SameRecord(m, r) /\ m.is_flapping = r.is_flapping
          /\ m.current_attempt = config.max_attempts
      BY <1>9, <3>1 DEF Sound, Good, Shaped, Names, SameRecord, SameAck, SameSwitch, SameTold,
                        SamePhase
    <3>5. m.max_attempts = config.max_attempts
      BY <3>3 DEF Sound, Good, StateOk
    <3> QED BY <1>9, <3>3, <3>4, <3>5
  <2>2. CASE ~(~IsOk(r) /\ r.state_type = "HARD")
    <3>1. m = r
      BY <1>3, <2>2
    <3> QED BY <1>9, <2>2, <3>1 DEF Held, SameRecord, SameAck, SameSwitch, SameTold, SamePhase
  <2> QED BY <2>1, <2>2
<1>11. SameRecord(m, x) /\ Held(m, x)
  BY <1>9, <1>10 DEF SameRecord, SameAck, SameSwitch, SameTold, SamePhase, Held
<1>12. ~IsOk(x) /\ x.state_type = "HARD" => ~IsOk(r) /\ r.state_type = "HARD"
  BY <1>9 DEF SameRecord, IsOk
<1>13. m.is_flapping \in BOOLEAN /\ ~m.is_flapping
  BY <1>10
<1> QED BY <1>10, <1>11, <1>12, <1>13

\* Flapping that was there before does not end by it.
Resumed(s, x) ==
    [s EXCEPT !.check_flapping_recovery = @ /\ ~(x.is_flapping /\ ~s.is_flapping)]

LEMMA RestartedIs ==
    ASSUME NEW x, NEW y, y = Restarted(x), NEW m, m = Recalled(x),
           NEW s, s = CheckFlapping(m, FALSE, ~x.is_flapping)
    PROVE  y = Resumed(s, x)
<1>1. Restarted(x) = Resumed(CheckFlapping(Recalled(x), FALSE, ~x.is_flapping), x)
  BY Zenon DEF Restarted, Recalled, Resumed
<1> QED BY Zenon, <1>1

LEMMA RestartedOk ==
    ASSUME Given0, NEW n \in Nat, NEW x, Sound(x, n), NEW y, y = Restarted(x)
    PROVE  Sound(y, n) /\ Held(y, x)
<1>1. PICK m : m = Recalled(x)
  OBVIOUS
<1>2. Sound(m, n) /\ Held(m, x)
  BY <1>1, RecalledOk
<1>3. PICK s : s = CheckFlapping(m, FALSE, ~x.is_flapping)
  OBVIOUS
<1> DEFINE k == s.check_flapping_recovery /\ ~(x.is_flapping /\ ~s.is_flapping)
<1>4. y = [s EXCEPT !.check_flapping_recovery = k]
  <2>1. y = Resumed(s, x)
    BY <1>1, <1>3, RestartedIs
  <2> QED BY <2>1 DEF Resumed
<1> HIDE DEF k
<1>5. Sound(s, n) /\ Held(s, m)
  <2>1. (~x.is_flapping) \in BOOLEAN
    OBVIOUS
  <2> QED BY <1>2, <1>3, <2>1, CheckFlappingOk
<1>6. Sound(y, n) /\ Held(y, s)
  <2>1. Good(s) /\ Shaped(s) /\ FlapOk(s, n)
    BY <1>5 DEF Sound, Good
  <2>2. /\ Steady(y, s) /\ SameTold(y, s) /\ SameTimes(y, s) /\ SamePhase(y, s) /\ SameFlap(y, s)
    BY <1>4, <2>1 DEF Shaped, Names, Steady, SameState, SameAck, SameSwitch, SameHistory,
                      SameTold, SameTimes, SamePhase, SameFlap
  <2>3. Good(y) /\ Held(y, s) /\ FlapOk(y, n)
    BY <2>1, <2>2, GoodSame, FlapSame
  <2> QED BY <2>3 DEF Sound
<1> QED BY <1>2, <1>5, <1>6 DEF Held

---------------------------------------------------------------------------------
(* The invariant *)

EnvNames == {"enabled", "host_up", "host_downtime", "dependencies", "veto", "closed", "muted",
             "resting"}
EnvOk(e) ==
    /\ EnvNames \subseteq DOMAIN e
    /\ e.closed \in 0 .. config.closing
    /\ e.muted \subseteq DOMAIN config.listens /\ e.resting \subseteq config.escalations

\* What is remembered, the clocks and the comments agree, in every state.
IInv ==
    /\ config \in Configs /\ EnvOk(env)
    /\ checked \in BOOLEAN /\ spent \in 0 .. MaxCommands
    /\ Sound(o, spent) /\ o.last_state = o.current_state

LEMMA IntervalNext ==
    ASSUME config' = config, env'.resting = env.resting, NEW x,
           x.number = o'.number, x.current_state = o'.current_state
    PROVE  Interval(o)' = Interval(x)
<1>1. IsOk(x) <=> IsOk(o)'
  BY DEF IsOk
<1>2. IsService' = IsService
  BY DEF IsService
<1>3. ServiceEscalations(o, None)' = ServiceEscalations(x, None)
  BY <1>1 DEF ServiceEscalations, None
<1>4. Escalations(o, None)' = Escalations(x, None)
  BY <1>2, <1>3 DEF Escalations, HostEscalations
<1>5. ServiceInterval(o)' = ServiceInterval(x)
  BY <1>4 DEF ServiceInterval
<1> QED BY <1>2, <1>5 DEF Interval, HostInterval

\* The next state has the invariant if the object is sound, and while it is calm
\* nothing around it changes.
LEMMA NextIs ==
    ASSUME config' = config, config \in Configs, EnvOk(env'), checked' \in BOOLEAN,
           spent' \in 0 .. MaxCommands, NEW x, o' = x, Sound(x, spent'),
           x.last_state = x.current_state,
           x.calm => env'.resting = env.resting /\ ~env'.veto /\ env'.closed = 0
    PROVE  IInv'
<1>1. IsService' = IsService /\ State' = State
  BY DEF IsService, State
<1>2. EnvOk(env)'
  BY DEF EnvOk
<1>3. IsOk(o)' <=> IsOk(x)
  BY DEF IsOk
<1>4. /\ Shaped(x) /\ StateOk(x) /\ AckOk(x) /\ HistoryOk(x) /\ ToldOk(x) /\ TimesOk(x)
      /\ PhaseOk(x) /\ ArmedOk(x) /\ FlapOk(x, spent')
  BY DEF Sound, Good, NoteOk
<1>5. Shaped(o)' /\ AckOk(o)' /\ FlapOk(o, spent)'
  BY <1>4 DEF Shaped, AckOk, FlapOk
<1>6. StateOk(o)'
  BY <1>1, <1>4 DEF StateOk
<1>7. HistoryOk(o)' /\ ToldOk(o)'
  BY <1>1, <1>4 DEF HistoryOk, ToldOk
<1>8. TimesOk(o)' /\ PhaseOk(o)'
  BY <1>4 DEF TimesOk, PhaseOk
<1>9. ArmedOk(o)' /\ CalmOk(o)'
  <2>1. CASE x.calm
    <3>1. Interval(o)' = Interval(x)
      BY <2>1, IntervalNext
    <3>2. ArmedOk(o)'
      BY <1>1, <1>3, <1>4, <3>1 DEF ArmedOk
    <3> QED BY <2>1, <3>2 DEF CalmOk
  <2>2. CASE ~x.calm
    BY <2>2 DEF ArmedOk, CalmOk
  <2> QED BY <2>1, <2>2
<1> QED BY <1>2, <1>5, <1>6, <1>7, <1>8, <1>9 DEF IInv, Sound, Good, NoteOk

\* More commands, more comments that may have been left behind.
LEMMA FlapMore ==
    ASSUME NEW n \in Nat, NEW x, Sound(x, n)
    PROVE  Sound(x, n + 1)
<1>1. x.comments \in Nat /\ x.comments <= (IF x.is_flapping THEN 1 ELSE 0) + n
  BY DEF Sound, FlapOk
<1>2. x.comments <= (IF x.is_flapping THEN 1 ELSE 0) + (n + 1)
  <2>1. CASE x.is_flapping
    BY <1>1, <2>1
  <2>2. CASE ~x.is_flapping
    BY <1>1, <2>2
  <2> QED BY <2>1, <2>2
<1>3. FlapOk(x, n + 1)
  BY <1>2 DEF Sound, FlapOk
<1> QED BY <1>3 DEF Sound

\* Nothing but the acknowledgement and the switches, and perhaps it is calm no more.
Loose(y, x) ==
    /\ Shaped(y) /\ SameState(y, x) /\ AckOk(y) /\ SameHistory(y, x) /\ SameTold(y, x)
    /\ SameTimes(y, x) /\ SameFlap(y, x) /\ y.due = x.due /\ y.phase = x.phase
    /\ y.calm => x.calm

LEMMA LooseOk ==
    ASSUME NEW n, NEW x, Sound(x, n), NEW y, Loose(y, x)
    PROVE  Sound(y, n) /\ Held(y, x)
<1>1. /\ StateOk(x) /\ HistoryOk(x) /\ ToldOk(x) /\ TimesOk(x)
      /\ PhaseOk(x) /\ ArmedOk(x) /\ CalmOk(x) /\ FlapOk(x, n)
  BY DEF Sound, Good, NoteOk
<1>2. Interval(y) = Interval(x)
  BY IntervalSame DEF Loose, SameState, SameTold
<1>3. StateOk(y) /\ Held(y, x)
  BY <1>1 DEF Loose, StateOk, SameState, Held
<1>4. HistoryOk(y) /\ ToldOk(y)
  BY <1>1 DEF Loose, HistoryOk, ToldOk, SameHistory, SameTold
<1>5. TimesOk(y) /\ PhaseOk(y) /\ CalmOk(y)
  BY <1>1 DEF Loose, TimesOk, PhaseOk, CalmOk, SameTimes
<1>6. ArmedOk(y)
  BY <1>1, <1>2, <1>3 DEF Loose, ArmedOk, SameTimes, IsOk, Held
<1>7. FlapOk(y, n)
  BY <1>1, FlapSame DEF Loose
<1> QED BY <1>3, <1>4, <1>5, <1>6, <1>7 DEF Sound, Good, NoteOk, Loose

LEMMA CalmedOk ==
    ASSUME NEW n, NEW x, Sound(x, n), NEW y, y = [x EXCEPT !.calm = FALSE]
    PROVE  Sound(y, n) /\ Held(y, x) /\ y.calm = FALSE
<1>1. Shaped(x) /\ AckOk(x)
  BY DEF Sound, Good
<1>2. Loose(y, x) /\ y.calm = FALSE
  BY <1>1 DEF Shaped, Names, Loose, SameState, AckOk, SameHistory, SameTold, SameTimes, SameFlap
<1> QED BY <1>2, LooseOk

\* A command that changed the object to x.
LEMMA ChangeOk ==
    ASSUME IInv, spent < MaxCommands, spent' = spent + 1, NEW x, Sound(x, spent + 1),
           x.last_state = x.current_state, Change(x)
    PROVE  IInv'
<1>1. PICK y : y = [x EXCEPT !.calm = FALSE]
  OBVIOUS
<1>2. Sound(y, spent + 1) /\ Held(y, x) /\ y.calm = FALSE
  BY <1>1, CalmedOk
<1>3. o' = y /\ config' = config /\ env' = env /\ checked' = checked
  BY <1>1 DEF Change
<1>4. spent' \in 0 .. MaxCommands
  BY BoundAssumption DEF IInv
<1>5. Sound(y, spent') /\ y.last_state = y.current_state
  BY <1>2 DEF Held
<1>6. EnvOk(env') /\ checked' \in BOOLEAN /\ config \in Configs
  BY <1>3 DEF IInv
<1> QED BY <1>2, <1>3, <1>4, <1>5, <1>6, NextIs

\* Something around the object changed.
LEMMA SurroundOk ==
    ASSUME IInv, spent < MaxCommands, spent' = spent + 1, NEW e, EnvOk(e), Surround(e)
    PROVE  IInv'
<1>1. PICK y : y = [o EXCEPT !.calm = FALSE]
  OBVIOUS
<1>2. Sound(o, spent + 1)
  BY FlapMore, BoundAssumption DEF IInv
<1>3. Sound(y, spent + 1) /\ Held(y, o) /\ y.calm = FALSE
  BY <1>1, <1>2, CalmedOk
<1>4. o' = y /\ config' = config /\ env' = e /\ checked' = checked
  BY <1>1 DEF Surround
<1>5. spent' \in 0 .. MaxCommands
  BY BoundAssumption DEF IInv
<1>6. Sound(y, spent') /\ y.last_state = y.current_state
  BY <1>3 DEF Held, IInv
<1>7. EnvOk(env') /\ checked' \in BOOLEAN /\ config \in Configs
  BY <1>4 DEF IInv
<1> QED BY <1>3, <1>4, <1>5, <1>6, <1>7, NextIs

LEMMA GivenIs ==
    ASSUME IInv
    PROVE  /\ Given0 /\ config \in Configs /\ spent \in Nat /\ spent + 1 \in Nat
           /\ Sound(o, spent) /\ Sound(o, spent + 1) /\ Shaped(o) /\ AckOk(o) /\ Held(o, o)
<1>1. spent \in Nat /\ Sound(o, spent) /\ Given0
  BY BoundAssumption DEF IInv, EnvOk, Given0
<1>2. Sound(o, spent + 1)
  BY <1>1, FlapMore
<1> QED BY <1>1, <1>2 DEF Sound, Good, Given0, Held

LEMMA ResultOk ==
    ASSUME IInv, NEW outcome \in State, Result(outcome)
    PROVE  IInv'
<1>1. PICK r : r = IF IsService THEN ServiceResult(o, outcome) ELSE HostResult(o, outcome)
  OBVIOUS
<1>2. PICK y : y = AtRest(r)
  OBVIOUS
<1>3. /\ o' = y /\ config' = config /\ env' = env /\ spent' = spent
      /\ checked' = (checked \/ outcome = o.current_state)
  BY <1>1, <1>2 DEF Result
<1>4. Sound(r, spent)
  <2>1. CASE IsService
    <3>1. r = ServiceResult(o, outcome)
      BY <1>1, <2>1
    <3> QED BY <2>1, <3>1, GivenIs, ServiceResultOk
  <2>2. CASE ~IsService
    <3>1. r = HostResult(o, outcome) /\ outcome \in HostState
      BY <1>1, <2>2 DEF State
    <3> QED BY <2>2, <3>1, GivenIs, HostResultOk
  <2> QED BY <2>1, <2>2
<1>5. Sound(y, spent) /\ y.last_state = y.current_state
  BY <1>2, <1>4, AtRestOk
<1>6. EnvOk(env') /\ checked' \in BOOLEAN /\ config \in Configs /\ spent' \in 0 .. MaxCommands
  BY <1>3 DEF IInv
<1>7. y.calm => env'.resting = env.resting /\ ~env'.veto /\ env'.closed = 0
  BY <1>3, <1>5 DEF Sound, Good, NoteOk, CalmOk
<1> QED BY <1>3, <1>5, <1>6, <1>7, NextIs

LEMMA ServiceOfHostOk ==
    ASSUME IInv, NEW update \in BOOLEAN, ServiceOfHost(update)
    PROVE  IInv'
<1>1. PICK r : r = IF IsOk(o) THEN o ELSE Notify(o, "NORMAL", None)
  OBVIOUS
<1>2. PICK y : y = CheckHostFlapping(r, update, TRUE)
  OBVIOUS
<1>3. o' = y /\ config' = config /\ env' = env /\ spent' = spent /\ checked' = checked
  BY <1>1, <1>2 DEF ServiceOfHost
<1>4. Sound(r, spent) /\ Held(r, o)
  <2>1. CASE IsOk(o)
    <3>1. r = o
      BY <1>1, <2>1
    <3> QED BY <3>1, GivenIs
  <2>2. CASE ~IsOk(o)
    <3>1. r = Notify(o, "NORMAL", None)
      BY <1>1, <2>2
    <3> QED BY <3>1, GivenIs, NotifySound
  <2> QED BY <2>1, <2>2
<1>5. Sound(y, spent) /\ Held(y, r)
  BY <1>2, <1>4, GivenIs, CheckFlappingOk
<1>6. y.last_state = y.current_state
  BY <1>4, <1>5 DEF Held, IInv
<1>7. EnvOk(env') /\ checked' \in BOOLEAN /\ config \in Configs /\ spent' \in 0 .. MaxCommands
  BY <1>3 DEF IInv
<1>8. y.calm => env'.resting = env.resting /\ ~env'.veto /\ env'.closed = 0
  BY <1>3, <1>5 DEF Sound, Good, NoteOk, CalmOk
<1> QED BY <1>3, <1>5, <1>6, <1>7, <1>8, NextIs

\* The smaller of two numbers.
LEMMA MinOfTwo ==
    ASSUME NEW i \in Nat, NEW j \in Nat
    PROVE  Min({i, j}) = IF i <= j THEN i ELSE j
<1>1. Min({i, j}) \in {i, j} /\ \A m \in {i, j} : Min({i, j}) <= m
  <2> DEFINE S == {i, j}
  <2>1. S \in SUBSET Nat /\ S # {}
    OBVIOUS
  <2> HIDE DEF S
  <2>2. Min(S) \in S /\ \A m \in S : Min(S) <= m
    BY <2>1, MinIs
  <2> QED BY <2>2 DEF S
<1> DEFINE k == Min({i, j})
<1>2. (k = i \/ k = j) /\ k <= i /\ k <= j
  BY <1>1
<1> HIDE DEF k
<1>3. k = IF i <= j THEN i ELSE j
  BY <1>2
<1> QED BY <1>3 DEF k

\* The clocks stay within what anything compares them to, and stay right.
LEMMA ClocksOk ==
    ASSUME NEW i \in Nat, NEW l \in Nat, i <= l, NEW since \in {Never} \cup (0 .. l),
           NEW wait \in Nat, since # Never => wait = IF i > since THEN i - since ELSE 0,
           NEW s, s = IF since = Never THEN Never ELSE (IF since + 1 <= l THEN since + 1 ELSE l),
           NEW w, w = IF wait = 0 THEN 0 ELSE wait - 1
    PROVE  s # Never => w = IF i > s THEN i - s ELSE 0
BY DEF Never

LEMMA TickOk ==
    ASSUME IInv, Tick
    PROVE  IInv'
<1> DEFINE l == LongestInterval(config)
           since == o.since
           wait == o.wait
           s == IF since = Never THEN Never ELSE Min({since + 1, l})
           w == IF wait = 0 THEN 0 ELSE wait - 1
           a == Min({o.age + 1, config.delay})
<1>0. Given0 /\ config \in Configs /\ Sound(o, spent) /\ Shaped(o)
  BY GivenIs
<1>1. PICK y : y = [o EXCEPT !.since = s, !.wait = w, !.age = a]
  OBVIOUS
<1>2. /\ o' = y /\ config' = config /\ checked' = FALSE /\ spent' = spent
      /\ env' = [env EXCEPT !.closed = IF @ = 0 THEN 0 ELSE @ - 1]
  BY <1>1 DEF Tick
<1>3. /\ StateOk(o) /\ AckOk(o) /\ HistoryOk(o) /\ ToldOk(o) /\ TimesOk(o)
      /\ PhaseOk(o) /\ ArmedOk(o) /\ CalmOk(o) /\ FlapOk(o, spent)
  BY <1>0 DEF Sound, Good, NoteOk
<1>4. l \in Nat /\ LongestWait(config) \in Nat /\ config.delay \in Nat
  BY <1>0, LongestIs
<1>5. /\ since \in {Never} \cup (0 .. l) /\ wait \in 0 .. LongestWait(config)
      /\ o.age \in 0 .. config.delay
  BY <1>3 DEF TimesOk, HistoryOk
<1> HIDE DEF l, since, wait
<1>6. s = IF since = Never THEN Never ELSE (IF since + 1 <= l THEN since + 1 ELSE l)
  <2>1. CASE since = Never
    BY <2>1
  <2>2. CASE since # Never
    <3>1. since + 1 \in Nat
      BY <1>4, <1>5, <2>2
    <3>2. Min({since + 1, l}) = IF since + 1 <= l THEN since + 1 ELSE l
      BY <1>4, <3>1, MinOfTwo
    <3> QED BY <2>2, <3>2
  <2> QED BY <2>1, <2>2
<1>7. a \in 0 .. config.delay
  <2>1. o.age + 1 \in Nat
    BY <1>4, <1>5
  <2>2. a = IF o.age + 1 <= config.delay THEN o.age + 1 ELSE config.delay
    BY <1>4, <2>1, MinOfTwo
  <2> QED BY <1>4, <1>5, <2>2
<1> HIDE DEF s, a
<1>8. s \in {Never} \cup (0 .. l)
  BY <1>4, <1>5, <1>6 DEF Never
<1>9. w \in 0 .. LongestWait(config)
  BY <1>4, <1>5
<1>10. w = IF wait = 0 THEN 0 ELSE wait - 1
  OBVIOUS
<1> HIDE DEF w
<1>11. /\ Shaped(y) /\ SameState(y, o) /\ SameAck(y, o) /\ SameSwitch(y, o)
       /\ y.state_history = o.state_history /\ SameTold(y, o) /\ SameFlap(y, o) /\ SamePhase(y, o)
       /\ y.since = s /\ y.wait = w /\ y.age = a /\ y.no_more = o.no_more
  BY <1>0, <1>1 DEF Shaped, Names, SameState, SameAck, SameSwitch, SameTold, SameFlap, SamePhase
<1>12. StateOk(y) /\ AckOk(y) /\ HistoryOk(y)
  BY <1>3, <1>7, <1>11 DEF StateOk, AckOk, HistoryOk, SameState, SameAck
<1>13. ToldOk(y)
  BY <1>3, <1>11 DEF ToldOk, SameTold
<1>14. TimesOk(y)
  BY <1>8, <1>9, <1>11 DEF TimesOk, l
<1>15. PhaseOk(y) /\ CalmOk(y)
  BY <1>3, <1>11 DEF PhaseOk, CalmOk, SamePhase
<1>16. ArmedOk(y)
  <2> SUFFICES ASSUME ~IsOk(y), y.since # Never, y.calm
      PROVE  /\ y.wait = IF Interval(y) > y.since THEN Interval(y) - y.since ELSE 0
             /\ y.no_more = (Interval(y) = 0 /\ ~(IsService /\ config.is_volatile > 0))
    BY DEF ArmedOk
  <2>1. Interval(y) = Interval(o)
    BY <1>11, IntervalSame DEF SameState, SameTold
  <2>2. ~IsOk(o) /\ o.calm /\ since # Never
    BY <1>6, <1>11 DEF IsOk, SameState, SamePhase
  <2>3. /\ wait = IF Interval(o) > since THEN Interval(o) - since ELSE 0
        /\ o.no_more = (Interval(o) = 0 /\ ~(IsService /\ config.is_volatile > 0))
    BY <1>3, <2>2 DEF ArmedOk, wait, since
  <2>4. Interval(o) \in Nat /\ Interval(o) <= l
    BY <1>0, IntervalIs DEF l
  <2> DEFINE i == Interval(o)
  <2>5. /\ i \in Nat /\ i <= l /\ wait \in Nat
        /\ since # Never => wait = IF i > since THEN i - since ELSE 0
    BY <1>4, <1>5, <2>3, <2>4
  <2>6. s # Never
    BY <1>11
  <2> HIDE DEF i
  <2>7. w = IF i > s THEN i - s ELSE 0
    BY <1>4, <1>5, <1>6, <1>10, <2>5, <2>6, ClocksOk
  <2> QED BY <1>11, <2>1, <2>3, <2>7 DEF i
<1>17. FlapOk(y, spent)
  BY <1>3, <1>11, FlapSame
<1>18. Sound(y, spent') /\ y.last_state = y.current_state
  <2>1. Good(y)
    BY <1>11, <1>12, <1>13, <1>14, <1>15, <1>16 DEF Good, NoteOk
  <2>2. y.last_state = y.current_state
    BY <1>11 DEF IInv, SameState
  <2> QED BY <1>2, <1>17, <2>1, <2>2 DEF Sound
<1>19. EnvOk(env') /\ env'.resting = env.resting /\ env'.veto = env.veto
       /\ (env.closed = 0 => env'.closed = 0)
  <2> DEFINE d == IF env.closed = 0 THEN 0 ELSE env.closed - 1
  <2>1. env' = [env EXCEPT !.closed = d]
    BY <1>2
  <2>2. EnvOk(env)
    BY DEF IInv
  <2>3. d \in 0 .. config.closing /\ (env.closed = 0 => d = 0)
    BY <1>0, <2>2, LongestIs DEF EnvOk
  <2> HIDE DEF d
  <2> QED BY <2>1, <2>2, <2>3 DEF EnvOk, EnvNames
<1>20. y.calm => env'.resting = env.resting /\ ~env'.veto /\ env'.closed = 0
  BY <1>15, <1>19 DEF CalmOk
<1>21. checked' \in BOOLEAN /\ spent' \in 0 .. MaxCommands
  BY <1>2 DEF IInv
<1> QED BY <1>0, <1>2, <1>18, <1>19, <1>20, <1>21, NextIs

\* The commands.
LEMMA AcknowledgeOk ==
    ASSUME IInv, spent < MaxCommands, spent' = spent + 1, NEW type \in {"NORMAL", "STICKY"},
           Acknowledge(type)
    PROVE  IInv'
<1>1. PICK r : r = Notify(o, "ACKNOWLEDGEMENT", None)
  OBVIOUS
<1>2. PICK x : x = [r EXCEPT !.acknowledged = TRUE, !.acknowledgement_type = type]
  OBVIOUS
<1>3. Change(x)
  BY <1>1, <1>2 DEF Acknowledge
<1>4. Sound(r, spent + 1) /\ Held(r, o)
  BY <1>1, GivenIs, NotifySound
<1>5. Loose(x, r)
  <2>1. Shaped(r)
    BY <1>4 DEF Sound, Good
  <2> QED BY <1>2, <2>1 DEF Shaped, Names, Loose, SameState, AckOk, AckType, SameHistory,
                            SameTold, SameTimes, SameFlap
<1>6. Sound(x, spent + 1) /\ x.last_state = x.current_state
  BY <1>4, <1>5, LooseOk DEF Held, IInv
<1> QED BY <1>3, <1>6, ChangeOk

LEMMA RemoveAcknowledgementOk ==
    ASSUME IInv, spent < MaxCommands, spent' = spent + 1, RemoveAcknowledgement
    PROVE  IInv'
<1>1. PICK x : x = [o EXCEPT !.acknowledged = FALSE]
  OBVIOUS
<1>2. Change(x)
  BY <1>1 DEF RemoveAcknowledgement
<1>3. Loose(x, o)
  BY <1>1, GivenIs DEF Shaped, Names, Loose, SameState, AckOk, SameHistory,
                     SameTold, SameTimes, SameFlap
<1>4. Sound(x, spent + 1) /\ x.last_state = x.current_state
  BY <1>3, GivenIs, LooseOk DEF Held, IInv
<1> QED BY <1>2, <1>4, ChangeOk

LEMMA SendCustomOk ==
    ASSUME IInv, spent < MaxCommands, spent' = spent + 1, NEW options, SendCustom(options)
    PROVE  IInv'
<1>1. PICK x : x = Notify(o, "CUSTOM", options)
  OBVIOUS
<1>2. Change(x)
  BY <1>1 DEF SendCustom
<1>3. Sound(x, spent + 1) /\ Held(x, o)
  BY <1>1, GivenIs, NotifySound
<1>4. x.last_state = x.current_state
  BY <1>3 DEF Held, IInv
<1> QED BY <1>2, <1>3, <1>4, ChangeOk

\* A number set by hand, and a notification put off: both are calm no more.
Meddled(y, x) ==
    /\ Shaped(y) /\ SameState(y, x) /\ SameAck(y, x) /\ SameHistory(y, x) /\ SameFlap(y, x)
    /\ y.due = x.due /\ y.phase = x.phase /\ y.calm = FALSE

LEMMA MeddledOk ==
    ASSUME IInv, spent < MaxCommands, spent' = spent + 1, NEW x, Meddled(x, o),
           ToldOk(x), TimesOk(x), o' = x, UNCHANGED <<config, env, checked>>
    PROVE  IInv'
<1>1. Sound(o, spent + 1)
  BY GivenIs
<1>2. StateOk(o) /\ AckOk(o) /\ HistoryOk(o) /\ PhaseOk(o) /\ FlapOk(o, spent + 1)
  BY <1>1 DEF Sound, Good, NoteOk
<1>3. StateOk(x) /\ AckOk(x) /\ HistoryOk(x) /\ Shaped(x) /\ x.last_state = x.current_state
  BY <1>2 DEF Meddled, StateOk, AckOk, HistoryOk, SameState, SameAck, SameHistory, IInv
<1>4. PhaseOk(x) /\ CalmOk(x) /\ ArmedOk(x) /\ x.calm = FALSE
  BY <1>2 DEF Meddled, PhaseOk, CalmOk, ArmedOk
<1>5. FlapOk(x, spent + 1)
  BY <1>2, FlapSame DEF Meddled
<1>6. Sound(x, spent')
  BY <1>3, <1>4, <1>5 DEF Sound, Good, NoteOk
<1>7. spent' \in 0 .. MaxCommands
  BY BoundAssumption DEF IInv
<1>8. EnvOk(env') /\ checked' \in BOOLEAN /\ config \in Configs /\ config' = config
  BY DEF IInv
<1> QED BY <1>3, <1>4, <1>6, <1>7, <1>8, NextIs

LEMMA SetNumberOk ==
    ASSUME IInv, spent < MaxCommands, spent' = spent + 1, NEW number \in {0, NumberCap},
           SetNumber(number)
    PROVE  IInv'
<1>1. PICK u : u = [o EXCEPT !.number = number, !.tampered = TRUE]
  OBVIOUS
<1>2. PICK x : x = [u EXCEPT !.calm = FALSE]
  OBVIOUS
<1>3. o' = x /\ UNCHANGED <<config, env, checked>>
  BY <1>1, <1>2 DEF SetNumber, Change
<1>4. /\ Shaped(u) /\ SameState(u, o) /\ SameAck(u, o) /\ SameHistory(u, o) /\ SameFlap(u, o)
      /\ u.due = o.due /\ u.phase = o.phase /\ SameTimes(u, o)
      /\ u.number = number /\ u.tampered = TRUE /\ u.notified_on = o.notified_on
  BY <1>1, GivenIs DEF Shaped, Names, SameState, SameAck, SameHistory, SameFlap, SameTimes
<1>5. /\ Meddled(x, o) /\ SameTimes(x, o)
      /\ x.number = number /\ x.tampered = TRUE /\ x.notified_on = o.notified_on
  BY <1>2, <1>4 DEF Shaped, Names, Meddled, SameState, SameAck, SameHistory, SameFlap, SameTimes
<1>6. ToldOk(o) /\ TimesOk(o)
  BY GivenIs DEF Sound, Good, NoteOk
<1>7. ToldOk(x) /\ TimesOk(x)
  BY <1>5, <1>6, BoundAssumption DEF ToldOk, TimesOk, SameTimes
<1> QED BY <1>3, <1>5, <1>7, MeddledOk

LEMMA DelayOk ==
    ASSUME IInv, spent < MaxCommands, spent' = spent + 1, Delay(config.delays)
    PROVE  IInv'
<1> DEFINE d == config.delays
<1>1. PICK u : u = [o EXCEPT !.wait = d]
  OBVIOUS
<1>2. PICK x : x = [u EXCEPT !.calm = FALSE]
  OBVIOUS
<1>3. o' = x /\ UNCHANGED <<config, env, checked>>
  BY <1>1, <1>2 DEF Delay, Change
<1>4. d \in 0 .. LongestWait(config)
  BY GivenIs, LongestIs
<1> HIDE DEF d
<1>5. /\ Shaped(u) /\ SameState(u, o) /\ SameAck(u, o) /\ SameHistory(u, o) /\ SameFlap(u, o)
      /\ u.due = o.due /\ u.phase = o.phase /\ SameTold(u, o)
      /\ u.since = o.since /\ u.wait = d
  BY <1>1, GivenIs DEF Shaped, Names, SameState, SameAck, SameHistory, SameFlap, SameTold
<1>6. Meddled(x, o) /\ SameTold(x, o) /\ x.since = o.since /\ x.wait = d
  BY <1>2, <1>5 DEF Shaped, Names, Meddled, SameState, SameAck, SameHistory, SameFlap, SameTold
<1>7. ToldOk(o) /\ TimesOk(o)
  BY GivenIs DEF Sound, Good, NoteOk
<1>8. ToldOk(x) /\ TimesOk(x)
  BY <1>4, <1>6, <1>7 DEF ToldOk, TimesOk, SameTold
<1> QED BY <1>3, <1>6, <1>8, MeddledOk

LEMMA SwitchOk ==
    ASSUME IInv, spent < MaxCommands, spent' = spent + 1, SwitchNotifications
    PROVE  IInv'
<1>1. PICK x : x = [o EXCEPT !.notifications_enabled = ~@]
  OBVIOUS
<1>2. Change(x)
  BY <1>1 DEF SwitchNotifications
<1>3. Loose(x, o)
  BY <1>1, GivenIs DEF Shaped, Names, Loose, SameState, AckOk, SameHistory,
                     SameTold, SameTimes, SameFlap
<1>4. Sound(x, spent + 1) /\ x.last_state = x.current_state
  BY <1>3, GivenIs, LooseOk DEF Held, IInv
<1> QED BY <1>2, <1>4, ChangeOk

LEMMA StartDowntimeOk ==
    ASSUME IInv, spent < MaxCommands, spent' = spent + 1, StartDowntime
    PROVE  IInv'
<1>1. PICK r : r = Notify(o, "DOWNTIMESTART", None)
  OBVIOUS
<1>2. PICK x : x = [r EXCEPT !.downtime = TRUE]
  OBVIOUS
<1>3. Change(x)
  BY <1>1, <1>2 DEF StartDowntime
<1>4. Sound(r, spent + 1) /\ Held(r, o)
  BY <1>1, GivenIs, NotifySound
<1>5. Loose(x, r)
  <2>1. Shaped(r) /\ AckOk(r)
    BY <1>4 DEF Sound, Good
  <2> QED BY <1>2, <2>1 DEF Shaped, Names, Loose, SameState, AckOk, SameHistory,
                            SameTold, SameTimes, SameFlap
<1>6. Sound(x, spent + 1) /\ x.last_state = x.current_state
  BY <1>4, <1>5, LooseOk DEF Held, IInv
<1> QED BY <1>3, <1>6, ChangeOk

LEMMA EndDowntimeOk ==
    ASSUME IInv, spent < MaxCommands, spent' = spent + 1, EndDowntime
    PROVE  IInv'
<1>1. PICK r : r = [o EXCEPT !.downtime = FALSE]
  OBVIOUS
<1>2. PICK x : x = Notify(r, "DOWNTIMEEND", None)
  OBVIOUS
<1>3. Change(x)
  BY <1>1, <1>2 DEF EndDowntime
<1>4. Loose(r, o)
  BY <1>1, GivenIs DEF Shaped, Names, Loose, SameState, AckOk, SameHistory,
                     SameTold, SameTimes, SameFlap
<1>5. Sound(r, spent + 1) /\ Held(r, o)
  BY <1>4, GivenIs, LooseOk
<1>6. Sound(x, spent + 1) /\ Held(x, r)
  BY <1>2, <1>5, GivenIs, NotifySound
<1>7. x.last_state = x.current_state
  BY <1>5, <1>6 DEF Held, IInv
<1> QED BY <1>3, <1>6, <1>7, ChangeOk

\* An object that is looked at again after a switch was turned on.
LEMMA JudgedAgain ==
    ASSUME IInv, spent < MaxCommands, spent' = spent + 1, NEW r, Loose(r, o),
           Change(CheckFlapping(r, FALSE, TRUE))
    PROVE  IInv'
<1>1. PICK x : x = CheckFlapping(r, FALSE, TRUE)
  OBVIOUS
<1>2. Sound(r, spent + 1) /\ Held(r, o)
  BY GivenIs, LooseOk
<1>3. Sound(x, spent + 1) /\ Held(x, r)
  BY <1>1, <1>2, GivenIs, CheckFlappingOk
<1>4. x.last_state = x.current_state
  BY <1>2, <1>3 DEF Held, IInv
<1> QED BY <1>1, <1>3, <1>4, ChangeOk

LEMMA EnableFlapDetectionOk ==
    ASSUME IInv, spent < MaxCommands, spent' = spent + 1, EnableFlapDetection
    PROVE  IInv'
<1>1. PICK r : r = [o EXCEPT !.flap_detection_enabled = TRUE]
  OBVIOUS
<1>2. Change(CheckFlapping(r, FALSE, TRUE))
  BY <1>1 DEF EnableFlapDetection
<1>3. Loose(r, o)
  BY <1>1, GivenIs DEF Shaped, Names, Loose, SameState, AckOk, SameHistory,
                     SameTold, SameTimes, SameFlap
<1> QED BY <1>2, <1>3, JudgedAgain

LEMMA EnableFlappingOk ==
    ASSUME IInv, spent < MaxCommands, spent' = spent + 1, EnableFlapping
    PROVE  IInv'
<1>1. PICK r : r = [o EXCEPT !.enable_flap_detection = TRUE]
  OBVIOUS
<1>2. Change(CheckFlapping(r, FALSE, TRUE))
  BY <1>1 DEF EnableFlapping
<1>3. Loose(r, o)
  BY <1>1, GivenIs DEF Shaped, Names, Loose, SameState, AckOk, SameHistory,
                     SameTold, SameTimes, SameFlap
<1> QED BY <1>2, <1>3, JudgedAgain

\* The comment that is left behind is one more than there were commands before.
LEMMA DisableFlapDetectionOk ==
    ASSUME IInv, spent < MaxCommands, spent' = spent + 1, DisableFlapDetection
    PROVE  IInv'
<1> DEFINE b == o.abandoned \/ o.is_flapping
<1>1. PICK r : r = [o EXCEPT !.flap_detection_enabled = FALSE, !.is_flapping = FALSE,
                             !.abandoned = b]
  OBVIOUS
<1>2. PICK x : x = FlapDetectionDisabled(r)
  OBVIOUS
<1>3. Change(x)
  <2>1. Change(FlapDetectionDisabled([o EXCEPT !.flap_detection_enabled = FALSE,
                                               !.is_flapping = FALSE,
                                               !.abandoned = @ \/ o.is_flapping]))
    BY DEF DisableFlapDetection
  <2> QED BY <1>1, <1>2, <2>1
<1> HIDE DEF b
<1>4. /\ SameSeen(r, o)
      /\ Shaped(r) /\ SameState(r, o) /\ SameAck(r, o) /\ SameHistory(r, o) /\ SameTold(r, o)
      /\ SameTimes(r, o) /\ SamePhase(r, o)
      /\ r.is_flapping = FALSE /\ r.abandoned = b /\ r.comments = o.comments
  BY <1>1, GivenIs DEF Shaped, Names, SameState, SameAck, SameHistory,
                     SameTold, SameTimes, SamePhase, SameSeen
<1>5. FlapOk(r, spent + 1)
  <2>1. FlapOk(o, spent) /\ spent \in Nat
    BY GivenIs DEF Sound
  <2>2. r.is_flapping \in BOOLEAN /\ ~r.is_flapping
    BY <1>4
  <2>3. o.comments \in Nat /\ o.comments <= (IF o.is_flapping THEN 1 ELSE 0) + spent
    BY <2>1 DEF FlapOk
  <2>4. r.comments \in Nat /\ r.comments <= 0 + (spent + 1)
    <3>1. CASE o.is_flapping
      BY <1>4, <2>1, <2>3, <3>1
    <3>2. CASE ~o.is_flapping
      BY <1>4, <2>1, <2>3, <3>2
    <3> QED BY <3>1, <3>2
  <2>5. ~r.abandoned => r.comments = 0
    BY <1>4, <2>1 DEF FlapOk, b
  <2>6. (IF r.is_flapping THEN 1 ELSE 0) = 0
    BY <2>2
  <2> QED BY <2>2, <2>4, <2>5, <2>6 DEF FlapOk
<1>6. Good(r) /\ Held(r, o)
  <2>1. Good(o) /\ StateOk(o) /\ AckOk(o) /\ HistoryOk(o) /\ NoteOk(o)
    BY GivenIs DEF Sound, Good
  <2>2. NoteOk(r)
    BY <1>4, <2>1, NoteSame DEF SameState
  <2>3. StateOk(r) /\ AckOk(r) /\ HistoryOk(r) /\ Held(r, o)
    BY <1>4, <2>1 DEF StateOk, AckOk, HistoryOk, SameState, SameAck, SameHistory, Held
  <2> QED BY <1>4, <2>2, <2>3 DEF Good
<1>7. Sound(r, spent + 1)
  BY <1>5, <1>6 DEF Sound
<1>8. Sound(x, spent + 1) /\ Held(x, r)
  BY <1>2, <1>7, GivenIs, FlapDetectionDisabledOk
<1>9. x.last_state = x.current_state
  BY <1>6, <1>8 DEF Held, IInv
<1> QED BY <1>3, <1>8, <1>9, ChangeOk

LEMMA DisableFlappingOk ==
    ASSUME IInv, spent < MaxCommands, spent' = spent + 1, DisableFlapping
    PROVE  IInv'
<1>1. PICK r : r = [o EXCEPT !.enable_flap_detection = FALSE]
  OBVIOUS
<1>2. PICK x : x = FlapDetectionDisabled(r)
  OBVIOUS
<1>3. Change(x)
  BY <1>1, <1>2 DEF DisableFlapping
<1>4. Loose(r, o)
  BY <1>1, GivenIs DEF Shaped, Names, Loose, SameState, AckOk, SameHistory,
                     SameTold, SameTimes, SameFlap
<1>5. Sound(r, spent + 1) /\ Held(r, o)
  BY <1>4, GivenIs, LooseOk
<1>6. Sound(x, spent + 1) /\ Held(x, r)
  BY <1>2, <1>5, GivenIs, FlapDetectionDisabledOk
<1>7. x.last_state = x.current_state
  BY <1>5, <1>6 DEF Held, IInv
<1> QED BY <1>3, <1>6, <1>7, ChangeOk

\* What happens around the object.
LEMMA AroundOk ==
    ASSUME IInv, spent < MaxCommands, spent' = spent + 1,
           \/ SwitchAllNotifications \/ PeriodCloses \/ HostChanges \/ HostDowntimeChanges
           \/ DependencyChanges \/ VetoChanges
           \/ \E c \in DOMAIN config.listens : ContactChanges(c)
           \/ \E e \in config.escalations : EscalationChanges(e)
    PROVE  IInv'
<1>1. EnvOk(env) /\ config \in Configs
  BY DEF IInv
<1>2. \A e : EnvOk(e) /\ Surround(e) => IInv'
  BY SurroundOk
<1>3. CASE SwitchAllNotifications
  <2>1. EnvOk([env EXCEPT !.enabled = ~@])
    BY <1>1 DEF EnvOk, EnvNames
  <2> QED BY <1>2, <1>3, <2>1 DEF SwitchAllNotifications
<1>4. CASE PeriodCloses
  <2>1. config.closing \in 0 .. config.closing
    BY <1>1, LongestIs
  <2>2. EnvOk([env EXCEPT !.closed = config.closing])
    BY <1>1, <2>1 DEF EnvOk, EnvNames
  <2> QED BY <1>2, <1>4, <2>2 DEF PeriodCloses
<1>5. CASE HostChanges
  <2>1. EnvOk([env EXCEPT !.host_up = ~@])
    BY <1>1 DEF EnvOk, EnvNames
  <2> QED BY <1>2, <1>5, <2>1 DEF HostChanges
<1>6. CASE HostDowntimeChanges
  <2>1. EnvOk([env EXCEPT !.host_downtime = ~@])
    BY <1>1 DEF EnvOk, EnvNames
  <2> QED BY <1>2, <1>6, <2>1 DEF HostDowntimeChanges
<1>7. CASE DependencyChanges
  <2>1. EnvOk([env EXCEPT !.dependencies = ~@])
    BY <1>1 DEF EnvOk, EnvNames
  <2> QED BY <1>2, <1>7, <2>1 DEF DependencyChanges
<1>8. CASE VetoChanges
  <2>1. EnvOk([env EXCEPT !.veto = ~@])
    BY <1>1 DEF EnvOk, EnvNames
  <2> QED BY <1>2, <1>8, <2>1 DEF VetoChanges
<1>9. CASE \E c \in DOMAIN config.listens : ContactChanges(c)
  <2>1. PICK c \in DOMAIN config.listens : ContactChanges(c)
    BY <1>9
  <2> DEFINE m == SymDiff(env.muted, {c})
  <2>2. m \subseteq DOMAIN config.listens
    BY <1>1 DEF EnvOk, SymDiff
  <2>3. Surround([env EXCEPT !.muted = m])
    BY <2>1 DEF ContactChanges
  <2> HIDE DEF m
  <2>4. EnvOk([env EXCEPT !.muted = m])
    BY <1>1, <2>2 DEF EnvOk, EnvNames
  <2> QED BY <1>2, <2>3, <2>4
<1>10. CASE \E e \in config.escalations : EscalationChanges(e)
  <2>1. PICK e \in config.escalations : EscalationChanges(e)
    BY <1>10
  <2> DEFINE m == SymDiff(env.resting, {e})
  <2>2. m \subseteq config.escalations
    BY <1>1 DEF EnvOk, SymDiff
  <2>3. Surround([env EXCEPT !.resting = m])
    BY <2>1 DEF EscalationChanges
  <2> HIDE DEF m
  <2>4. EnvOk([env EXCEPT !.resting = m])
    BY <1>1, <2>2 DEF EnvOk, EnvNames
  <2> QED BY <1>2, <2>3, <2>4
<1> QED BY <1>3, <1>4, <1>5, <1>6, <1>7, <1>8, <1>9, <1>10

LEMMA RestartOk ==
    ASSUME IInv, spent < MaxCommands, spent' = spent + 1, Restart
    PROVE  IInv'
<1>1. PICK x : x = Restarted(o)
  OBVIOUS
<1>2. o' = x /\ config' = config /\ env' = env /\ checked' = checked
  BY <1>1 DEF Restart
<1>3. Sound(x, spent + 1) /\ Held(x, o)
  BY <1>1, GivenIs, RestartedOk
<1>4. Sound(x, spent') /\ x.last_state = x.current_state
  BY <1>3 DEF Held, IInv
<1>5. spent' \in 0 .. MaxCommands
  BY BoundAssumption DEF IInv
<1>6. EnvOk(env') /\ checked' \in BOOLEAN /\ config \in Configs
  BY <1>2 DEF IInv
<1>7. x.calm => env'.resting = env.resting /\ ~env'.veto /\ env'.closed = 0
  BY <1>2, <1>3 DEF Sound, Good, NoteOk, CalmOk
<1> QED BY <1>2, <1>4, <1>5, <1>6, <1>7, NextIs

LEMMA CommandOk ==
    ASSUME IInv, Command
    PROVE  IInv'
<1>1. spent < MaxCommands /\ spent' = spent + 1
  BY DEF Command
<1>2. \/ Restart
      \/ \E type \in {"NORMAL", "STICKY"} : Acknowledge(type)
      \/ RemoveAcknowledgement
      \/ \E options \in SUBSET {"FORCED", "BROADCAST", "INCREMENT"} : SendCustom(options)
      \/ \E number \in {0, NumberCap} : SetNumber(number)
      \/ Delay(config.delays)
      \/ SwitchNotifications
      \/ StartDowntime \/ EndDowntime
      \/ EnableFlapDetection \/ DisableFlapDetection
      \/ EnableFlapping \/ DisableFlapping
      \/ \/ SwitchAllNotifications \/ PeriodCloses \/ HostChanges \/ HostDowntimeChanges
         \/ DependencyChanges \/ VetoChanges
         \/ \E c \in DOMAIN config.listens : ContactChanges(c)
         \/ \E e \in config.escalations : EscalationChanges(e)
  BY Zenon DEF Command
<1>3. CASE Restart
  BY <1>1, <1>3, RestartOk
<1>4. CASE \E type \in {"NORMAL", "STICKY"} : Acknowledge(type)
  BY <1>1, <1>4, AcknowledgeOk
<1>5. CASE RemoveAcknowledgement
  BY <1>1, <1>5, RemoveAcknowledgementOk
<1>6. CASE \E options \in SUBSET {"FORCED", "BROADCAST", "INCREMENT"} : SendCustom(options)
  BY <1>1, <1>6, SendCustomOk
<1>7. CASE \E number \in {0, NumberCap} : SetNumber(number)
  BY <1>1, <1>7, SetNumberOk
<1>8. CASE Delay(config.delays)
  BY <1>1, <1>8, DelayOk
<1>9. CASE SwitchNotifications
  BY <1>1, <1>9, SwitchOk
<1>10. CASE StartDowntime
  BY <1>1, <1>10, StartDowntimeOk
<1>11. CASE EndDowntime
  BY <1>1, <1>11, EndDowntimeOk
<1>12. CASE EnableFlapDetection
  BY <1>1, <1>12, EnableFlapDetectionOk
<1>13. CASE DisableFlapDetection
  BY <1>1, <1>13, DisableFlapDetectionOk
<1>14. CASE EnableFlapping
  BY <1>1, <1>14, EnableFlappingOk
<1>15. CASE DisableFlapping
  BY <1>1, <1>15, DisableFlappingOk
<1>16. CASE \/ SwitchAllNotifications \/ PeriodCloses \/ HostChanges \/ HostDowntimeChanges
            \/ DependencyChanges \/ VetoChanges
            \/ \E c \in DOMAIN config.listens : ContactChanges(c)
            \/ \E e \in config.escalations : EscalationChanges(e)
  BY <1>1, <1>16, AroundOk
<1> QED BY <1>2, <1>3, <1>4, <1>5, <1>6, <1>7, <1>8, <1>9, <1>10, <1>11, <1>12, <1>13, <1>14,
           <1>15, <1>16

LEMMA Step ==
    ASSUME IInv, [Next]_vars
    PROVE  IInv'
<1>1. CASE \E outcome \in State : Result(outcome)
  BY <1>1, ResultOk
<1>2. CASE \E update \in BOOLEAN : ServiceOfHost(update)
  BY <1>2, ServiceOfHostOk
<1>3. CASE Tick
  BY <1>3, TickOk
<1>4. CASE Command
  BY <1>4, CommandOk
<1>5. CASE UNCHANGED vars
  <2>1. o' = o /\ config' = config /\ env' = env /\ checked' = checked /\ spent' = spent
    BY <1>5 DEF vars
  <2>2. PICK x : x = o
    OBVIOUS
  <2>3. Sound(x, spent') /\ x.last_state = x.current_state /\ o' = x
    BY <2>1, <2>2 DEF IInv
  <2>4. /\ config \in Configs /\ EnvOk(env') /\ checked' \in BOOLEAN
        /\ spent' \in 0 .. MaxCommands
    BY <2>1 DEF IInv
  <2>5. x.calm => env'.resting = env.resting /\ ~env'.veto /\ env'.closed = 0
    BY <2>1, <2>3 DEF Sound, Good, NoteOk, CalmOk
  <2> QED BY <2>1, <2>3, <2>4, <2>5, NextIs
<1> QED BY <1>1, <1>2, <1>3, <1>4, <1>5 DEF Next

LEMMA Start ==
    ASSUME Init
    PROVE  IInv
<1> DEFINE ok == IF IsService THEN "OK" ELSE "UP"
           h == [i \in 1 .. MAX_STATE_HISTORY_ENTRIES |-> ok]
<1>1. /\ config \in Configs /\ checked = FALSE /\ spent = 0
      /\ env = [enabled |-> TRUE, host_up |-> TRUE, host_downtime |-> FALSE,
                dependencies |-> TRUE, veto |-> FALSE, closed |-> 0,
                muted |-> {}, resting |-> {}]
  BY DEF Init
<1>2. o = [current_state |-> ok, last_state |-> ok, last_hard_state |-> ok,
           state_type |-> "HARD", current_attempt |-> 1,
           max_attempts |-> config.max_attempts,
           host_problem_at_last_check |-> FALSE,
           acknowledged |-> FALSE, acknowledgement_type |-> "NONE",
           notifications_enabled |-> TRUE, downtime |-> FALSE,
           number |-> 0, notified_on |-> {},
           since |-> Never, wait |-> 0, no_more |-> FALSE, age |-> 0,
           state_history |-> h,
           enable_flap_detection |-> TRUE,
           flap_detection_enabled |-> TRUE, is_flapping |-> FALSE,
           check_flapping_recovery |-> FALSE,
           linked |-> FALSE, comments |-> 0,
           due |-> {}, phase |-> "none", calm |-> TRUE, tampered |-> FALSE,
           abandoned |-> FALSE]
  BY Zenon DEF Init
<1>3. ok \in State /\ ok \in Fine
  BY DEF State, ServiceState, HostState, Fine
<1>4. h \in [1 .. MAX_STATE_HISTORY_ENTRIES -> State]
  BY <1>3
<1> HIDE DEF ok, h
<1>5. /\ Shaped(o) /\ o.current_state = ok /\ o.last_state = ok /\ o.last_hard_state = ok
      /\ o.state_type = "HARD" /\ o.current_attempt = 1 /\ o.max_attempts = config.max_attempts
      /\ o.acknowledged = FALSE /\ o.acknowledgement_type = "NONE"
  BY <1>2 DEF Shaped, Names
<1>6. /\ o.number = 0 /\ o.notified_on = {} /\ o.since = Never /\ o.wait = 0 /\ o.age = 0
      /\ o.state_history = h /\ o.is_flapping = FALSE /\ o.linked = FALSE /\ o.comments = 0
      /\ o.due = {} /\ o.phase = "none"
  BY <1>2
<1>7. StateOk(o) /\ AckOk(o)
  <2>1. config.max_attempts \in Nat \ {0}
    BY <1>1, ConfigAssumption
  <2>2. o.current_attempt \in 1 .. config.max_attempts
    BY <1>5, <2>1
  <2> QED BY <1>3, <1>5, <2>2 DEF StateOk, AckOk, StateType, AckType
<1>8. HistoryOk(o) /\ TimesOk(o)
  BY <1>1, <1>4, <1>6, LongestIs DEF HistoryOk, TimesOk
<1>9. ToldOk(o) /\ PhaseOk(o)
  BY <1>6, BoundAssumption DEF ToldOk, PhaseOk
<1>10. ArmedOk(o) /\ CalmOk(o)
  BY <1>1, <1>3, <1>5 DEF ArmedOk, CalmOk, IsOk
<1>11. FlapOk(o, spent)
  <2>1. o.is_flapping \in BOOLEAN /\ ~o.is_flapping
    BY <1>6
  <2>2. (IF o.is_flapping THEN 1 ELSE 0) = 0
    BY <2>1
  <2> QED BY <1>1, <1>6, <2>1, <2>2 DEF FlapOk
<1>12. EnvOk(env)
  BY <1>1, LongestIs DEF EnvOk, EnvNames
<1>13. o.last_state = o.current_state
  BY <1>5
<1>14. Sound(o, spent)
  BY <1>5, <1>7, <1>8, <1>9, <1>10, <1>11 DEF Sound, Good, NoteOk
<1>15. spent \in 0 .. MaxCommands
  BY <1>1, BoundAssumption
<1> QED BY <1>1, <1>12, <1>13, <1>14, <1>15 DEF IInv

LEMMA Inductive == Spec => []IInv
<1>1. Init => IInv
  BY Start
<1>2. IInv /\ [Next]_vars => IInv'
  BY Step
<1> QED BY <1>1, <1>2, PTL DEF Spec

---------------------------------------------------------------------------------
(* The theorems *)

\* What is remembered of a problem agrees with what was told and written of it:
\* the types, the number of notifications with the states that were notified of, and
\* the comment of flapping with the flapping.
THEOREM AlwaysConsistent == Spec => []Consistent
<1>1. IInv => Consistent
  <2> SUFFICES ASSUME IInv PROVE Consistent
    OBVIOUS
  <2>1. /\ config \in Configs /\ EnvOk(env) /\ checked \in BOOLEAN /\ spent \in 0 .. MaxCommands
        /\ o.last_state = o.current_state
        /\ StateOk(o) /\ AckOk(o) /\ HistoryOk(o) /\ ToldOk(o) /\ TimesOk(o) /\ PhaseOk(o)
        /\ FlapOk(o, spent)
    BY DEF IInv, Sound, Good, NoteOk
  <2>2. o.comments \in 0 .. 1 + MaxCommands
    <3>1. o.comments \in Nat /\ o.comments <= (IF o.is_flapping THEN 1 ELSE 0) + spent
      BY <2>1 DEF FlapOk
    <3>2. spent \in Nat /\ spent <= MaxCommands /\ MaxCommands \in Nat
      BY <2>1, BoundAssumption
    <3>3. CASE o.is_flapping
      BY <3>1, <3>2, <3>3
    <3>4. CASE ~o.is_flapping
      BY <3>1, <3>2, <3>4
    <3> QED BY <3>3, <3>4
  <2>3. o.current_attempt \in 1 .. o.max_attempts
    BY <2>1 DEF StateOk
  <2>4. TypeOK
    BY <2>1, <2>2, <2>3 DEF TypeOK, StateOk, AckOk, HistoryOk, ToldOk, TimesOk, PhaseOk, EnvOk
  <2>5. NumberMatches
    BY <2>1 DEF ToldOk, NumberMatches
  <2>6. FlappingIsAnnotated
    BY <2>1 DEF FlapOk, FlappingIsAnnotated
  <2> QED BY <2>4, <2>5, <2>6 DEF Consistent
<1> QED BY <1>1, Inductive, PTL

\* As long as a problem stays as it is, the next notification is one interval after
\* the last one, over restarts too, whatever escalations are valid; and there is none
\* if the interval is 0.
THEOREM AlwaysArmed == Spec => []Armed
<1>1. IInv => Armed
  BY DEF IInv, Sound, Good, NoteOk, ArmedOk, Armed
<1> QED BY <1>1, Inductive, PTL

---------------------------------------------------------------------------------
(* The recovery reaches whoever was notified of the problem *)

\* What the configurations have to be like for it: every escalation is valid for
\* every state, and ends before the bound on the numbers, which stop counting there.
AllEscalate ==
    \A c \in Configs : \A e \in c.escalations :
        /\ ServiceState \cup HostState \subseteq e.on
        /\ e.first < NumberCap /\ e.last + 1 < NumberCap

\* The contacts of a problem that is told of for the n-th time.
Contacted(n) ==
    LET valid == {e \in config.escalations :
                    e.first <= n /\ (e.last = 0 \/ n <= e.last) /\ e \notin env.resting}
    IN IF valid = {} THEN config.contacts ELSE UNION {e.contacts : e \in valid}

\* Nobody waits for a recovery, as far as it can be told.
Settled(x) == x.calm => x.due = {}

\* The recovery can go out, and those who wait for it are among its contacts.
Reachable(x) ==
    /\ env.enabled /\ env.dependencies /\ (IsService => env.host_up)
    /\ x.notifications_enabled /\ ~x.acknowledged
    /\ x.number > 0 /\ x.notified_on # {}
    /\ \A c \in x.due :
          /\ c \in Contacted(x.number) /\ c \notin env.muted
          /\ "RECOVERY" \in config.listens[c] /\ x.notified_on \cap config.listens[c] # {}
Promised(x) == (x.calm => ~x.is_flapping) /\ (~Settled(x) => Reachable(x))

\* Nothing that bears on it changes.
SameWord(y, x) ==
    /\ y.due = x.due /\ y.calm = x.calm /\ y.is_flapping = x.is_flapping
    /\ y.notifications_enabled = x.notifications_enabled /\ (y.acknowledged => x.acknowledged)
    /\ y.number = x.number /\ y.notified_on = x.notified_on

LEMMA WordSame ==
    ASSUME NEW x, NEW y, SameWord(y, x)
    PROVE  (Promised(x) => Promised(y)) /\ (Settled(x) <=> Settled(y))
BY DEF SameWord, Promised, Settled, Reachable

\* The escalations that are valid for a problem are valid for its recovery.
LEMMA SameEscalations ==
    ASSUME AllEscalate, config \in Configs, NEW x, x.current_state \in State,
           NEW n, n = IF IsOk(x) THEN x.number - 1 ELSE x.number
    PROVE  Escalations(x, None) =
             {e \in config.escalations :
                e.first <= n /\ (e.last = 0 \/ n <= e.last) /\ e \notin env.resting}
<1>1. \A e \in config.escalations : x.current_state \in e.on
  BY DEF AllEscalate, State
<1> QED BY <1>1 DEF Escalations, ServiceEscalations, HostEscalations, None

\* Those who are told are the contacts that hear of it.
LEMMA RecipientsNow ==
    ASSUME AllEscalate, config \in Configs, NEW x, x.current_state \in State,
           NEW n, n = IF IsOk(x) THEN x.number - 1 ELSE x.number
    PROVE  Recipients(x, "NORMAL", None) = {c \in Contacted(n) : Hears(c, x, "NORMAL", None)}
<1> DEFINE E == {e \in config.escalations :
                   e.first <= n /\ (e.last = 0 \/ n <= e.last) /\ e \notin env.resting}
<1>1. Escalations(x, None) = E
  BY SameEscalations
<1>2. Contacted(n) = IF E = {} THEN config.contacts ELSE UNION {e.contacts : e \in E}
  BY DEF Contacted
<1> HIDE DEF E
<1>3. Recipients(x, "NORMAL", None) =
        {c \in (IF E # {} THEN UNION {e.contacts : e \in E} ELSE {})
                 \cup (IF ~(E # {}) THEN config.contacts ELSE {}) : Hears(c, x, "NORMAL", None)}
  BY <1>1 DEF Recipients, ServiceRecipients, HostRecipients, None
<1> QED BY <1>2, <1>3

\* At the bound of the numbers it makes no difference.
LEMMA ContactedAtCap ==
    ASSUME AllEscalate, config \in Configs
    PROVE  Contacted(NumberCap - 1) = Contacted(NumberCap)
<1> DEFINE E(n) == {e \in config.escalations :
                   e.first <= n /\ (e.last = 0 \/ n <= e.last) /\ e \notin env.resting}
<1>1. E(NumberCap - 1) = E(NumberCap)
  <2>1. \A e \in config.escalations :
          /\ e.first \in Nat /\ e.last \in Nat /\ NumberCap \in Nat
          /\ e.first < NumberCap /\ e.last + 1 < NumberCap
    BY BoundAssumption, ConfigAssumption DEF AllEscalate
  <2> QED BY <2>1
<1> QED BY <1>1 DEF Contacted

\* Whoever waits for the recovery hears of it.
LEMMA DueAreTold ==
    ASSUME AllEscalate, config \in Configs, NEW x, Good(x), IsOk(x), Promised(x), ~Settled(x),
           NEW p, p = CountedUp(x)
    PROVE  x.due \subseteq Recipients(p, "NORMAL", None)
<1>1. /\ Shaped(x) /\ x.current_state \in State /\ x.number \in 0 .. NumberCap /\ x.number > 0
      /\ \A c \in x.due :
          /\ c \in Contacted(x.number) /\ c \notin env.muted
          /\ "RECOVERY" \in config.listens[c] /\ x.notified_on \cap config.listens[c] # {}
  BY DEF Good, StateOk, NoteOk, ToldOk, Promised, Reachable
<1>2. /\ Steady(p, x) /\ p.number = (IF x.number < NumberCap THEN x.number + 1 ELSE x.number)
      /\ p.notified_on = x.notified_on
  BY <1>1, CountedUpIs
<1>3. p.current_state \in State /\ IsOk(p)
  BY <1>1, <1>2 DEF Steady, SameState, IsOk
<1> DEFINE n == p.number - 1
<1>4. Contacted(n) = Contacted(x.number)
  <2>1. CASE x.number < NumberCap
    <3>1. n = x.number
      BY <1>1, <1>2, <2>1, BoundAssumption
    <3> QED BY <3>1
  <2>2. CASE ~(x.number < NumberCap)
    <3>1. x.number = NumberCap /\ n = NumberCap - 1
      BY <1>1, <1>2, <2>2, BoundAssumption
    <3> QED BY <3>1, ContactedAtCap
  <2> QED BY <2>1, <2>2
<1>5. Recipients(p, "NORMAL", None) = {c \in Contacted(n) : Hears(c, p, "NORMAL", None)}
  BY <1>3, RecipientsNow
<1>6. \A c \in x.due : Hears(c, p, "NORMAL", None)
  BY <1>1, <1>2, <1>3 DEF Hears, ServiceContactHears, HostContactHears
<1> QED BY <1>1, <1>4, <1>5, <1>6

\* A hard recovery goes out.
LEMMA RecoveryIsViable ==
    ASSUME NEW x, Good(x), IsOk(x), x.state_type = "HARD", Promised(x), ~Settled(x),
           "RECOVERY" \in config.notify_on
    PROVE  Viable(x, "NORMAL", None) /\ ~env.veto
<1>1. x.calm /\ ~x.is_flapping /\ Reachable(x) /\ env.closed = 0 /\ ~env.veto
  BY DEF Promised, Settled, Good, NoteOk, CalmOk
<1>2. NormalFilters(x, "NORMAL")
  BY <1>1 DEF NormalFilters, Reachable, Ripe
<1>3. ServiceFilters(x, "NORMAL") /\ HostFilters(x, "NORMAL")
  BY <1>2 DEF ServiceFilters, HostFilters, Flapping, InDowntime
<1> QED BY <1>1, <1>3 DEF Viable, Reachable

\* A problem that is told of: its recovery can be told.
LEMMA ProblemPromises ==
    ASSUME AllEscalate, config \in Configs, NEW x, Good(x), ~IsOk(x), Viable(x, "NORMAL", None),
           NEW p, p = CountedUp(x), NEW y, DeliveredAs(y, p, Recipients(p, "NORMAL", None))
    PROVE  Promised(y) /\ x.state_type = "HARD"
<1> DEFINE to == Recipients(p, "NORMAL", None)
<1>1. /\ env.enabled /\ x.notifications_enabled /\ x.state_type = "HARD" /\ ~x.acknowledged
      /\ env.dependencies /\ ~x.is_flapping /\ (IsService => env.host_up)
  BY DEF Viable, None, ServiceFilters, HostFilters, NormalFilters, Flapping, InDowntime
<1>2. Shaped(x) /\ x.current_state \in State /\ x.number \in 0 .. NumberCap
  BY DEF Good, StateOk, NoteOk, ToldOk
<1>3. /\ Steady(p, x) /\ SameFlap(p, x)
      /\ p.number = (IF x.number < NumberCap THEN x.number + 1 ELSE x.number)
  BY <1>2, CountedUpIs
<1>4. p.current_state = x.current_state /\ p.current_state \in State /\ ~IsOk(p)
  BY <1>2, <1>3 DEF Steady, SameState, IsOk
<1>5. /\ Steady(y, p) /\ SameFlap(y, p) /\ y.number = p.number
      /\ y.notified_on = p.notified_on \cup {p.current_state}
      /\ y.due = Wanting(to) /\ y.calm = TRUE
  BY <1>4 DEF DeliveredAs
<1>6. /\ y.notifications_enabled /\ ~y.acknowledged /\ ~y.is_flapping
  BY <1>1, <1>3, <1>5 DEF Steady, SameSwitch, SameAck, SameFlap
<1>7. to = {c \in Contacted(p.number) : Hears(c, p, "NORMAL", None)}
  BY <1>4, RecipientsNow
<1> HIDE DEF to
<1>8. \A c \in to : /\ c \in Contacted(p.number) /\ c \notin env.muted
                    /\ p.current_state \in config.listens[c]
  BY <1>4, <1>7 DEF Hears, ServiceContactHears, HostContactHears, None, Flapping, InDowntime
<1>9. y.number > 0 /\ y.notified_on # {}
  BY <1>2, <1>3, <1>5, BoundAssumption
<1>10. Reachable(y)
  BY <1>1, <1>5, <1>6, <1>8, <1>9 DEF Reachable, Wanting
<1> QED BY <1>1, <1>6, <1>10 DEF Promised

LEMMA NotifyState ==
    ASSUME Given0, NEW x, Good(x), NEW type, NEW options, type = "NORMAL" => options = None,
           NEW y, y = Notify(x, type, options)
    PROVE  SameState(y, x) /\ SameFlap(y, x)
BY NotifyOk DEF Steady

\* What a notification does to it: a notification of a problem promises the recovery,
\* and one of a hard recovery settles it.
LEMMA NotifyWord ==
    ASSUME AllEscalate, Given0, NEW x, Good(x), Promised(x), NEW type, NEW options,
           type = "NORMAL" => options = None, NEW y, y = Notify(x, type, options)
    PROVE  /\ Promised(y)
           /\ Settled(x) /\ (IsOk(x) \/ type # "NORMAL") => Settled(y)
           /\ ~Settled(y) => ~Settled(x) \/ (~IsOk(x) /\ x.state_type = "HARD")
           /\ type = "NORMAL" /\ IsOk(x) /\ x.state_type = "HARD" /\ "RECOVERY" \in config.notify_on
                => Settled(y)
           /\ x.calm /\ options = None => y.calm
<1> DEFINE counts == type = "NORMAL" \/ "INCREMENT" \in options
           p == IF counts THEN CountedUp(x) ELSE x
           to == Recipients(p, type, options)
<1>1. Shaped(x) /\ (x.calm => ~env.veto /\ env.closed = 0) /\ config \in Configs
  BY DEF Good, NoteOk, CalmOk, Given0
<1>2. /\ SamePhase(p, x) /\ SameFlap(p, x) /\ Shaped(p) /\ (~counts => p = x)
  <2>1. counts \in BOOLEAN
    OBVIOUS
  <2> HIDE DEF counts
  <2> QED BY <1>1, <2>1, SentIs DEF Steady
<1>3. type = "NORMAL" /\ IsOk(x) /\ x.state_type = "HARD" /\ "RECOVERY" \in config.notify_on /\ ~Settled(x)
        => Viable(x, type, options) /\ ~env.veto /\ to # {} /\ p = CountedUp(x)
  <2> SUFFICES ASSUME type = "NORMAL", IsOk(x), x.state_type = "HARD",
                      "RECOVERY" \in config.notify_on, ~Settled(x)
               PROVE  Viable(x, type, options) /\ ~env.veto /\ to # {} /\ p = CountedUp(x)
    OBVIOUS
  <2>1. Viable(x, "NORMAL", None) /\ ~env.veto
    BY RecoveryIsViable
  <2>2. p = CountedUp(x) /\ options = None
    OBVIOUS
  <2>3. x.due \subseteq Recipients(p, "NORMAL", None)
    <3> HIDE DEF p
    <3> QED BY <1>1, <2>2, DueAreTold
  <2>4. x.due # {}
    BY DEF Settled
  <2> HIDE DEF p
  <2> QED BY <2>1, <2>2, <2>3, <2>4
<1>4. CASE ~Viable(x, type, options)
  <2>1. y = Deferred(x, type)
    BY <1>4 DEF Notify
  <2>2. SameWord(y, x)
    <3>1. CASE type = "NORMAL" /\ env.enabled /\ env.closed > 0
      <4>1. y = [x EXCEPT !.wait = env.closed]
        BY <2>1, <3>1 DEF Deferred
      <4> QED BY <1>1, <4>1 DEF Shaped, Names, SameWord
    <3>2. CASE ~(type = "NORMAL" /\ env.enabled /\ env.closed > 0)
      <4>1. y = x
        BY <2>1, <3>2 DEF Deferred
      <4> QED BY <4>1 DEF SameWord
    <3> QED BY <3>1, <3>2
  <2>3. Promised(y) /\ (Settled(x) <=> Settled(y))
    BY <2>2, WordSame
  <2>4. x.calm => y.calm
    BY <2>2 DEF SameWord
  <2> HIDE DEF p, to, counts
  <2> QED BY <1>3, <1>4, <2>3, <2>4
<1>5. CASE Viable(x, type, options) /\ env.veto
  <2>1. y = [p EXCEPT !.tampered = TRUE]
    BY <1>5 DEF Notify
  <2> HIDE DEF p, to, counts
  <2>2. y.calm = x.calm /\ ~x.calm
    BY <1>1, <1>2, <1>5, <2>1 DEF Shaped, Names, SamePhase
  <2>3. Settled(y) /\ Promised(y)
    BY <2>2 DEF Settled, Promised
  <2> QED BY <2>2, <2>3
<1>6. CASE Viable(x, type, options) /\ ~env.veto /\ to = {}
  <2>1. y = x
    BY <1>6 DEF Notify
  <2> HIDE DEF p, to, counts
  <2> QED BY <1>3, <1>6, <2>1
<1>7. CASE Viable(x, type, options) /\ ~env.veto /\ to # {} /\ type = "NORMAL"
  <2>1. y = Delivered(p, to)
    BY <1>7 DEF Notify
  <2>2. p = CountedUp(x) /\ options = None
    BY <1>7
  <2>3. to = Recipients(p, "NORMAL", None)
    BY <1>7, <2>2
  <2> HIDE DEF p, to, counts
  <2>4. DeliveredAs(y, p, to)
    BY <1>2, <2>1, DeliveredIs
  <2>5. CASE ~IsOk(x)
    <3>1. Promised(y) /\ x.state_type = "HARD"
      BY <1>1, <1>7, <2>2, <2>3, <2>4, <2>5, ProblemPromises
    <3>2. Steady(p, x)
      BY <1>1, <2>2, CountedUpIs
    <3>3. ~IsOk(p)
      BY <2>5, <3>2 DEF IsOk, Steady, SameState
    <3>4. y.calm = TRUE
      BY <2>4, <3>3 DEF DeliveredAs
    <3> QED BY <1>7, <2>5, <3>1, <3>4
  <2>6. CASE IsOk(x)
    <3>1. Steady(p, x)
      BY <1>1, <2>2, CountedUpIs
    <3>2. IsOk(p)
      BY <2>6, <3>1 DEF IsOk, Steady, SameState
    <3>3. y.due = p.due \ to /\ y.calm = p.calm /\ SameFlap(y, p)
      BY <2>4, <3>2 DEF DeliveredAs
    <3>4. y.due = x.due \ to /\ y.calm = x.calm /\ y.is_flapping = x.is_flapping
      BY <1>2, <3>3 DEF SamePhase, SameFlap
    <3>5. Settled(y)
      <4>1. CASE Settled(x)
        BY <3>4, <4>1 DEF Settled
      <4>2. CASE ~Settled(x)
        <5>1. x.due \subseteq to
          BY <1>1, <2>2, <2>3, <2>6, <4>2, DueAreTold
        <5> QED BY <3>4, <5>1 DEF Settled
      <4> QED BY <4>1, <4>2
    <3>6. Promised(y)
      BY <3>4, <3>5 DEF Promised
    <3> QED BY <3>4, <3>5, <3>6
  <2> QED BY <2>5, <2>6
<1>8. CASE Viable(x, type, options) /\ ~env.veto /\ to # {} /\ type # "NORMAL"
  <2>1. y = [p EXCEPT !.tampered = @ \/ counts, !.calm = @ /\ ~counts]
    BY <1>8 DEF Notify
  <2>2. options = None => ~counts
    BY <1>8 DEF None
  <2> HIDE DEF p, to, counts
  <2> DEFINE m == p.tampered \/ counts
             c == p.calm /\ ~counts
  <2>3. y = [p EXCEPT !.tampered = m, !.calm = c]
    BY <2>1
  <2>4. CASE counts
    <3>1. ~c
      BY <2>4
    <3> HIDE DEF m, c
    <3>2. y.calm = c
      BY <1>2, <2>3 DEF Shaped, Names
    <3>3. ~y.calm
      BY <3>1, <3>2
    <3>4. Settled(y) /\ Promised(y)
      BY <3>3 DEF Settled, Promised
    <3> QED BY <1>8, <2>2, <2>4, <3>4
  <2>5. CASE ~counts
    <3>1. p = x
      BY <1>2, <2>5
    <3>2. c <=> x.calm
      BY <2>5, <3>1
    <3> HIDE DEF m, c
    <3>3. /\ y.calm = c /\ y.due = x.due /\ y.is_flapping = x.is_flapping
          /\ y.notifications_enabled = x.notifications_enabled /\ y.acknowledged = x.acknowledged
          /\ y.number = x.number /\ y.notified_on = x.notified_on
      BY <1>2, <2>3, <3>1 DEF Shaped, Names
    <3>4. Promised(y) /\ (Settled(x) <=> Settled(y))
      BY <3>2, <3>3 DEF Promised, Settled, Reachable
    <3> QED BY <1>8, <3>2, <3>3, <3>4
  <2> QED BY <2>4, <2>5
<1> QED BY <1>4, <1>5, <1>6, <1>7, <1>8

\* Looking for flapping: nothing is promised that was not, and it settles what
\* it takes away.
LEMMA SetFlapWord ==
    ASSUME AllEscalate, Given0, NEW n \in Nat, NEW x, Sound(x, n), ~x.is_flapping,
           NEW announce \in BOOLEAN, NEW y, y = SetFlap(x, announce)
    PROVE  SameState(y, x) /\ Promised(y) /\ Settled(y) /\ y.is_flapping
<1> DEFINE k == x.comments + 1
           s == ~IsOk(x) /\ x.number > 0
           f == [x EXCEPT !.is_flapping = TRUE, !.linked = TRUE, !.comments = k,
                          !.check_flapping_recovery = s, !.calm = FALSE]
<1>1. y = IF announce THEN Notify(f, "FLAPPINGSTART", None) ELSE f
  BY DEF SetFlap
<1>2. f = SetFlap(x, FALSE)
  BY DEF SetFlap
<1>3. Shaped(x)
  BY DEF Sound, Good
<1> HIDE DEF k, s
<1>4. SameState(f, x) /\ ~f.calm /\ f.is_flapping
  BY <1>3 DEF Shaped, Names, SameState
<1> HIDE DEF f
<1>5. Good(f)
  BY <1>2, SetFlapOk DEF Sound
<1>6. Settled(f) /\ Promised(f)
  BY <1>4 DEF Settled, Promised
<1>7. CASE announce
  <2>1. y = Notify(f, "FLAPPINGSTART", None)
    BY <1>1, <1>7
  <2>2. SameState(y, f) /\ SameFlap(y, f)
    BY <1>5, <2>1, NotifyState
  <2>3. Promised(y) /\ Settled(y)
    BY <1>5, <1>6, <2>1, NotifyWord
  <2>4. y.is_flapping
    BY <1>4, <2>2 DEF SameFlap
  <2> QED BY <1>4, <2>2, <2>3, <2>4 DEF SameState
<1>8. CASE ~announce
  BY <1>1, <1>4, <1>6, <1>8
<1> QED BY <1>7, <1>8

LEMMA FlapRecoveryWord ==
    ASSUME AllEscalate, Given0, NEW n \in Nat, NEW x, Sound(x, n), Promised(x),
           NEW y, y = FlapRecovery(x)
    PROVE  SameState(y, x) /\ Promised(y) /\ (Settled(x) => Settled(y))
<1> DEFINE r == IF x.check_flapping_recovery /\ IsOk(x) THEN Notify(x, "NORMAL", None) ELSE x
<1>1. y = [r EXCEPT !.check_flapping_recovery = FALSE]
  BY DEF FlapRecovery
<1>2. Shaped(r) /\ SameState(r, x) /\ Promised(r) /\ (Settled(x) => Settled(r))
  <2>1. Good(x)
    BY DEF Sound
  <2>2. CASE x.check_flapping_recovery /\ IsOk(x)
    <3>1. r = Notify(x, "NORMAL", None)
      BY <2>2
    <3> HIDE DEF r
    <3>2. Sound(r, n) /\ SameState(r, x)
      BY <2>1, <3>1, NotifySound, NotifyState
    <3>3. Promised(r) /\ (Settled(x) => Settled(r))
      BY <2>1, <2>2, <3>1, NotifyWord
    <3> QED BY <3>2, <3>3 DEF Sound, Good
  <2>3. CASE ~(x.check_flapping_recovery /\ IsOk(x))
    <3>1. r = x
      BY <2>3
    <3> QED BY <2>1, <3>1 DEF SameState, Good
  <2> QED BY <2>2, <2>3
<1> HIDE DEF r
<1>3. SameWord(y, r) /\ SameState(y, r)
  BY <1>1, <1>2 DEF Shaped, Names, SameWord, SameState
<1>4. Promised(y) /\ (Settled(r) <=> Settled(y))
  BY <1>2, <1>3, WordSame
<1> QED BY <1>2, <1>3, <1>4 DEF SameState

\* Flapping stops: after flapping nobody waits for certain.
LEMMA StoppedWord ==
    ASSUME AllEscalate, Given0, NEW n \in Nat, NEW x, Sound(x, n), Promised(x), x.is_flapping,
           NEW type \in {"FLAPPINGSTOP", "FLAPPINGDISABLED"},
           NEW y, y = FlapRecovery(Notify([Uncommented(x) EXCEPT !.is_flapping = FALSE], type, None))
    PROVE  SameState(y, x) /\ Promised(y) /\ Settled(y)
<1>1. PICK c : c = [Uncommented(x) EXCEPT !.is_flapping = FALSE]
  OBVIOUS
<1>2. Sound(c, n) /\ Steady(c, x) /\ SamePhase(c, x)
  BY <1>1, UncommentedOk
<1>3. ~c.calm
  BY <1>2 DEF Promised, SamePhase
<1>4. Promised(c) /\ Settled(c)
  BY <1>3 DEF Promised, Settled
<1>5. PICK m : m = Notify(c, type, None)
  OBVIOUS
<1>6. Good(c)
  BY <1>2 DEF Sound
<1>7. Sound(m, n) /\ SameState(m, c)
  BY <1>2, <1>5, <1>6, NotifySound, NotifyState
<1>8. Promised(m) /\ Settled(m)
  BY <1>4, <1>5, <1>6, NotifyWord
<1>9. y = FlapRecovery(m)
  BY <1>1, <1>5
<1>10. SameState(y, m) /\ Promised(y) /\ Settled(y)
  BY <1>7, <1>8, <1>9, FlapRecoveryWord
<1> QED BY <1>2, <1>7, <1>10 DEF Steady, SameState

LEMMA JudgeFlappingWord ==
    ASSUME AllEscalate, Given0, NEW n \in Nat, NEW x, Sound(x, n), Promised(x),
           NEW announce \in BOOLEAN, NEW y, y = JudgeFlapping(x, announce)
    PROVE  /\ SameState(y, x) /\ Promised(y) /\ (Settled(x) => Settled(y))
           /\ x.calm => y.calm \/ y.is_flapping
<1>1. CASE y = SetFlap(x, announce) /\ ~x.is_flapping
  BY <1>1, SetFlapWord
<1>2. CASE y = ClearFlap(x) /\ x.is_flapping
  <2>1. y = FlapRecovery(Notify([Uncommented(x) EXCEPT !.is_flapping = FALSE], "FLAPPINGSTOP", None))
    BY <1>2 DEF ClearFlap
  <2>2. SameState(y, x) /\ Promised(y) /\ Settled(y)
    BY <1>2, <2>1, StoppedWord
  <2>3. ~x.calm
    BY <1>2 DEF Promised
  <2> QED BY <2>2, <2>3
<1>3. CASE y = x
  BY <1>3 DEF SameState
<1> QED BY <1>1, <1>2, <1>3, JudgedIs

LEMMA CheckFlappingWord ==
    ASSUME AllEscalate, Given0, NEW n \in Nat, NEW x, Sound(x, n), Promised(x),
           NEW update \in BOOLEAN, NEW announce \in BOOLEAN,
           NEW y, y \in {CheckServiceFlapping(x, update, announce),
                         CheckHostFlapping(x, update, announce),
                         CheckFlapping(x, update, announce)}
    PROVE  /\ SameState(y, x) /\ Promised(y) /\ (Settled(x) => Settled(y))
           /\ x.calm => y.calm \/ y.is_flapping
<1>1. PICK r : r = IF update /\ x.current_state \in config.flap_on THEN Recorded(x) ELSE x
  OBVIOUS
<1>2. PICK j : j = JudgeFlapping(r, announce)
  OBVIOUS
<1>3. CheckHostFlapping(x, update, announce) = j
  BY Zenon, <1>1, <1>2 DEF CheckHostFlapping
<1>4. CheckServiceFlapping(x, update, announce) \in {x, j}
  <2>1. CheckServiceFlapping(x, update, announce)
        = IF x.state_type = "SOFT" /\ ~IsOk(x) THEN x ELSE j
    BY Zenon, <1>1, <1>2 DEF CheckServiceFlapping
  <2> QED BY <2>1
<1>5. y \in {x, j}
  BY <1>3, <1>4 DEF CheckFlapping
<1>6. Sound(r, n) /\ SameState(r, x) /\ SameWord(r, x)
  <2>1. CASE update /\ x.current_state \in config.flap_on
    <3>1. r = Recorded(x)
      BY <1>1, <2>1
    <3>2. Sound(r, n)
      BY <3>1, RecordedOk
    <3>3. Shaped(x)
      BY DEF Sound, Good
    <3> DEFINE h == Append(Tail(x.state_history), x.current_state)
    <3>4. r = [x EXCEPT !.state_history = h]
      BY <3>1 DEF Recorded
    <3> HIDE DEF h
    <3> QED BY <3>2, <3>3, <3>4 DEF Shaped, Names, SameState, SameWord
  <2>2. CASE ~(update /\ x.current_state \in config.flap_on)
    <3>1. r = x
      BY <1>1, <2>2
    <3> QED BY <3>1 DEF SameState, SameWord
  <2> QED BY <2>1, <2>2
<1>7. Promised(r) /\ (Settled(x) <=> Settled(r))
  BY <1>6, WordSame
<1>8. /\ SameState(j, r) /\ Promised(j) /\ (Settled(r) => Settled(j))
      /\ r.calm => j.calm \/ j.is_flapping
  BY <1>2, <1>6, <1>7, JudgeFlappingWord
<1>9. r.calm = x.calm
  BY <1>6 DEF SameWord
<1>10. SameState(j, x) /\ SameState(x, x)
  BY <1>6, <1>8 DEF SameState
<1> QED BY <1>5, <1>7, <1>8, <1>9, <1>10

LEMMA FlapDetectionDisabledWord ==
    ASSUME Given0, NEW n \in Nat, NEW x, Sound(x, n), NEW y, y = FlapDetectionDisabled(x)
    PROVE  SameState(y, x)
<1>1. CASE ~x.is_flapping
  BY <1>1 DEF FlapDetectionDisabled, SameState
<1>2. CASE x.is_flapping
  <2>1. PICK c : c = [Uncommented(x) EXCEPT !.is_flapping = FALSE]
    OBVIOUS
  <2>2. Sound(c, n) /\ Steady(c, x)
    BY <1>2, <2>1, UncommentedOk
  <2>3. PICK m : m = Notify(c, "FLAPPINGDISABLED", None)
    OBVIOUS
  <2>4. Sound(m, n) /\ SameState(m, c)
    BY <2>2, <2>3, NotifySound, NotifyState DEF Sound
  <2>5. y = FlapRecovery(m)
    BY <1>2, <2>1, <2>3 DEF FlapDetectionDisabled
  <2>6. PICK r : r = IF m.check_flapping_recovery /\ IsOk(m) THEN Notify(m, "NORMAL", None) ELSE m
    OBVIOUS
  <2>7. y = [r EXCEPT !.check_flapping_recovery = FALSE]
    BY Zenon, <2>5, <2>6 DEF FlapRecovery
  <2>8. SameState(r, m) /\ Shaped(r)
    <3>1. CASE m.check_flapping_recovery /\ IsOk(m)
      <4>1. r = Notify(m, "NORMAL", None)
        BY <2>6, <3>1
      <4> QED BY <2>4, <4>1, NotifySound, NotifyState DEF Sound, Good
    <3>2. CASE ~(m.check_flapping_recovery /\ IsOk(m))
      <4>1. r = m
        BY <2>6, <3>2
      <4> QED BY <2>4, <4>1 DEF Sound, Good, SameState
    <3> QED BY <3>1, <3>2
  <2>9. SameState(y, r)
    BY <2>7, <2>8 DEF Shaped, Names, SameState
  <2> QED BY <2>2, <2>4, <2>8, <2>9 DEF Steady, SameState
<1> QED BY <1>1, <1>2

\* What follows is kept by every step, as far as recoveries are told at all: a hard
\* problem is one of the last attempt (or the host was down), or of the first, and
\* nobody waits for the recovery of a problem that is soft, or over.
HardOk(x) ==
    ~IsOk(x) /\ x.state_type = "HARD" =>
        IF IsService
        THEN /\ x.last_hard_state # "OK"
             /\ x.current_attempt = x.max_attempts \/ x.host_problem_at_last_check
        ELSE x.current_attempt \in {1, x.max_attempts}
Waits(x) ==
    IF IsOk(x) THEN Settled(x)
    ELSE ~Settled(x) => /\ x.state_type = "HARD"
                        /\ IsService => x.current_attempt = x.max_attempts
Worded(x) == HardOk(x) /\ Promised(x) /\ Waits(x)

\* The state stays, and what was said of it.
Kept(y, x) == Shaped(y) /\ SameState(y, x) /\ SameWord(y, x)

LEMMA KeptTwice ==
    ASSUME NEW x, NEW y, NEW z, Kept(y, x), Kept(z, y)
    PROVE  Kept(z, x)
BY DEF Kept, SameState, SameWord

LEMMA KeptWorded ==
    ASSUME NEW x, NEW y, Kept(y, x), Worded(x)
    PROVE  Worded(y)
<1>1. Promised(y) /\ (Settled(x) <=> Settled(y))
  BY WordSame DEF Kept, Worded
<1>2. IsOk(y) <=> IsOk(x)
  BY DEF Kept, SameState, IsOk
<1>3. HardOk(y)
  BY <1>2 DEF Kept, SameState, HardOk, Worded
<1>4. Waits(y)
  BY <1>1, <1>2 DEF Kept, SameState, Waits, Worded
<1> QED BY <1>1, <1>3, <1>4 DEF Worded

LEMMA KeptIs ==
    ASSUME NEW x, Shaped(x), NEW hard,
           NEW y, \/ y = x
                  \/ y = TimesReset(x)
                  \/ y = Unacknowledged(x)
                  \/ y = ClearedAck(x)
                  \/ y = HostClearedAck(x)
                  \/ y = Dated(x, hard)
    PROVE  Kept(y, x)
<1>1. CASE y = x
  BY <1>1 DEF Kept, SameState, SameWord
<1>2. CASE y = TimesReset(x)
  <2>1. Steady(y, x) /\ SameTold(y, x) /\ SameFlap(y, x) /\ SamePhase(y, x)
    BY <1>2, TimesResetIs
  <2> QED BY <2>1 DEF Kept, SameWord, Steady, SameTold, SameFlap, SamePhase, SameSwitch, SameAck
<1>3. CASE y = Unacknowledged(x)
  BY <1>3 DEF Unacknowledged, Shaped, Names, Kept, SameState, SameWord
<1>4. CASE y = ClearedAck(x) \/ y = HostClearedAck(x)
  <2>1. y = x \/ y = Unacknowledged(x)
    BY <1>4 DEF ClearedAck, HostClearedAck, HostUnacknowledged, Unacknowledged
  <2> QED BY <1>1, <1>3, <2>1
<1>5. CASE y = Dated(x, hard)
  <2> DEFINE a == IF hard \/ IsOk(x) THEN 0 ELSE x.age
  <2>1. y = [x EXCEPT !.age = a]
    BY <1>5 DEF Dated
  <2> HIDE DEF a
  <2> QED BY <2>1 DEF Shaped, Names, Kept, SameState, SameWord
<1> QED BY <1>1, <1>2, <1>3, <1>4, <1>5

\* A type of the state, an attempt and a last hard state say nothing of it.
LEMMA GradedWord ==
    ASSUME NEW x, NEW y, Restated(y, x), y.acknowledged => x.acknowledged
    PROVE  SameWord(y, x)
BY DEF Restated, SameSwitch, SameTold, SameFlap, SamePhase, SameWord

LEMMA TypeWord ==
    ASSUME NEW n, NEW x, Sound(x, n), NEW type \in StateType,
           NEW y, y = [x EXCEPT !.state_type = type]
    PROVE  /\ Sound(y, n) /\ SameWord(y, x) /\ y.state_type = type
           /\ y.current_state = x.current_state /\ y.current_attempt = x.current_attempt
           /\ y.max_attempts = x.max_attempts /\ y.last_hard_state = x.last_hard_state
           /\ y.host_problem_at_last_check = x.host_problem_at_last_check
<1>1. Shaped(x)
  BY DEF Sound, Good
<1>2. Sound(y, n)
  BY TypeIs
<1> QED BY <1>1, <1>2 DEF Shaped, Names, SameWord

LEMMA EndedWord ==
    ASSUME config \in Configs, IsService, NEW n, NEW x, Sound(x, n), Settled(x), Promised(x),
           NEW y, y = Forgotten(TimesReset(Reset(x)))
    PROVE  /\ Sound(y, n) /\ y.current_state = x.current_state
           /\ Settled(y) /\ Promised(y) /\ y.calm = x.calm /\ y.is_flapping = x.is_flapping
<1>1. PICK u : u = Unacknowledged(x)
  OBVIOUS
<1>2. Shaped(x) /\ Shaped(u) /\ SameWord(u, x)
  BY <1>1, KeptIs DEF Sound, Good, Kept
<1>3. PICK r : r = [u EXCEPT !.host_problem_at_last_check = FALSE, !.current_attempt = 1,
                             !.state_type = "HARD", !.last_hard_state = "OK"]
  OBVIOUS
<1>4. Shaped(r) /\ r.due = u.due /\ r.calm = u.calm /\ r.is_flapping = u.is_flapping
  BY <1>2, <1>3 DEF Shaped, Names
<1>5. PICK t : t = TimesReset(r)
  OBVIOUS
<1>6. Shaped(t) /\ SamePhase(t, r) /\ SameFlap(t, r)
  BY <1>4, <1>5, TimesResetIs DEF Steady
<1>7. y = Forgotten(t)
  BY Zenon, <1>1, <1>3, <1>5 DEF Reset
<1>8. SamePhase(y, t) /\ SameFlap(y, t)
  BY <1>6, <1>7, ForgottenIs
<1>9. y.due = x.due /\ y.calm = x.calm /\ y.is_flapping = x.is_flapping
  BY <1>2, <1>4, <1>6, <1>8 DEF SameWord, SamePhase, SameFlap
<1>10. Settled(y) /\ Promised(y)
  BY <1>9 DEF Settled, Promised
<1>11. Sound(y, n) /\ Held(y, x)
  BY EndedIs
<1> QED BY <1>9, <1>10, <1>11 DEF Held

\* A recovery of a service settles it, if it is a hard one, or nobody waits.
LEMMA ServiceRecoversWord ==
    ASSUME AllEscalate, Given0, IsService, NEW n \in Nat, NEW x, Sound(x, n), IsOk(x), Promised(x),
           "RECOVERY" \in config.notify_on, NEW hard \in BOOLEAN, hard \/ Settled(x),
           NEW y, y = ServiceRecovers(x, hard)
    PROVE  IsOk(y) /\ Worded(y) /\ (x.calm => y.calm \/ y.is_flapping)
<1> DEFINE a == [x EXCEPT !.state_type = "HARD"]
           b == CheckServiceFlapping(a, TRUE, TRUE)
           c == Notify(b, "NORMAL", None)
           d == Forgotten(TimesReset(Reset(c)))
           e == Forgotten(TimesReset(Reset(x)))
<1>0. config \in Configs
  BY DEF Given0
<1>1. y = IF hard THEN d ELSE CheckServiceFlapping(e, TRUE, TRUE)
  BY DEF ServiceRecovers
<1>2. CASE hard
  <2>1. y = d
    BY <1>1, <1>2
  <2>2. PICK p : p = a
    OBVIOUS
  <2>3. Sound(p, n) /\ SameWord(p, x) /\ p.state_type = "HARD" /\ p.current_state = x.current_state
    BY <2>2, TypeWord DEF StateType
  <2>4. Promised(p)
    BY <2>3, WordSame
  <2>5. PICK q : q = CheckServiceFlapping(p, TRUE, TRUE)
    OBVIOUS
  <2>6. SameState(q, p) /\ Promised(q) /\ (p.calm => q.calm \/ q.is_flapping)
    BY <2>3, <2>4, <2>5, CheckFlappingWord
  <2>7. Sound(q, n) /\ Good(q)
    BY <2>3, <2>5, CheckFlappingOk DEF Sound
  <2>8. PICK r : r = Notify(q, "NORMAL", None)
    OBVIOUS
  <2>9. IsOk(q) /\ q.state_type = "HARD"
    BY <2>3, <2>6 DEF SameState, IsOk
  <2>10. Promised(r) /\ Settled(r) /\ (q.calm => r.calm)
    BY <2>6, <2>7, <2>8, <2>9, NotifyWord
  <2>11. Sound(r, n) /\ SameState(r, q) /\ SameFlap(r, q)
    BY <2>7, <2>8, NotifySound, NotifyState
  <2>12. y = Forgotten(TimesReset(Reset(r)))
    BY Zenon, <2>1, <2>2, <2>5, <2>8
  <2>13. /\ y.current_state = r.current_state
         /\ Settled(y) /\ Promised(y) /\ y.calm = r.calm /\ y.is_flapping = r.is_flapping
    BY <1>0, <2>10, <2>11, <2>12, EndedWord
  <2>14. IsOk(y)
    BY <2>9, <2>11, <2>13 DEF SameState, IsOk
  <2>15. x.calm => y.calm \/ y.is_flapping
    BY <2>3, <2>6, <2>10, <2>11, <2>13 DEF SameWord, SameFlap
  <2> QED BY <2>13, <2>14, <2>15 DEF Worded, HardOk, Waits
<1>3. CASE ~hard
  <2>1. y = CheckServiceFlapping(e, TRUE, TRUE)
    BY <1>1, <1>3
  <2>2. PICK p : p = e
    OBVIOUS
  <2>3. /\ Sound(p, n) /\ p.current_state = x.current_state
        /\ Settled(p) /\ Promised(p) /\ p.calm = x.calm /\ p.is_flapping = x.is_flapping
    BY <1>0, <1>3, <2>2, EndedWord
  <2>4. y = CheckServiceFlapping(p, TRUE, TRUE)
    BY Zenon, <2>1, <2>2
  <2>5. /\ SameState(y, p) /\ Promised(y) /\ (Settled(p) => Settled(y))
        /\ p.calm => y.calm \/ y.is_flapping
    BY <2>3, <2>4, CheckFlappingWord
  <2>6. IsOk(y)
    BY <2>3, <2>5 DEF SameState, IsOk
  <2> QED BY <2>3, <2>5, <2>6 DEF Worded, HardOk, Waits
<1> QED BY <1>2, <1>3

LEMMA HostUpWord ==
    ASSUME config \in Configs, NEW n, NEW x, Sound(x, n), NEW y, y = HostUp(x)
    PROVE  /\ Sound(y, n) /\ SameWord(y, x)
           /\ y.current_state = x.current_state /\ y.state_type = x.state_type
           /\ y.max_attempts = x.max_attempts
           /\ x.state_type = "HARD" => y.current_attempt = x.current_attempt
<1> DEFINE k == IF x.host_problem_at_last_check /\ x.state_type = "SOFT" THEN 1
                ELSE x.current_attempt
<1>1. Shaped(x) /\ Sound(y, n)
  BY HostUpIs DEF Sound, Good
<1>2. y = [x EXCEPT !.host_problem_at_last_check = FALSE, !.current_attempt = k]
  BY DEF HostUp
<1>3. x.state_type = "HARD" => k = x.current_attempt
  OBVIOUS
<1> HIDE DEF k
<1> QED BY <1>1, <1>2, <1>3 DEF Shaped, Names, SameWord

LEMMA HostDownWord ==
    ASSUME NEW n, NEW x, Sound(x, n), NEW hard \in BOOLEAN, NEW y, y = HostDown(x, hard)
    PROVE  /\ Sound(y, n) /\ SameWord(y, x)
           /\ y.current_state = x.current_state /\ y.max_attempts = x.max_attempts
           /\ y.current_attempt = x.current_attempt
           /\ y.host_problem_at_last_check
           /\ y.state_type = IF hard THEN "HARD" ELSE x.state_type
           /\ y.last_hard_state = IF hard THEN x.current_state ELSE x.last_hard_state
<1> DEFINE k == IF hard THEN "HARD" ELSE x.state_type
           s == IF hard THEN x.current_state ELSE x.last_hard_state
<1>1. Shaped(x) /\ Sound(y, n)
  BY HostDownIs DEF Sound, Good
<1>2. y = [x EXCEPT !.host_problem_at_last_check = TRUE, !.state_type = k, !.last_hard_state = s]
  BY DEF HostDown
<1> HIDE DEF k, s
<1>3. /\ SameWord(y, x) /\ y.current_state = x.current_state /\ y.max_attempts = x.max_attempts
      /\ y.current_attempt = x.current_attempt /\ y.host_problem_at_last_check = TRUE
      /\ y.state_type = k /\ y.last_hard_state = s
  BY <1>1, <1>2 DEF Shaped, Names, SameWord
<1> QED BY <1>1, <1>3 DEF k, s

\* What a service that fails is told of.
LEMMA ServiceFailsWord ==
    ASSUME AllEscalate, Given0, IsService, NEW n \in Nat, NEW x, Sound(x, n), ~IsOk(x), Promised(x),
           ~Settled(x) => x.state_type = "HARD" /\ x.current_attempt = x.max_attempts,
           NEW hardbefore \in BOOLEAN, NEW y, y = ServiceFails(x, hardbefore)
    PROVE  ~IsOk(y) /\ Worded(y)
<1> DEFINE hard == hardbefore \/ (~env.host_up /\ x.last_hard_state # x.current_state)
           d == Dated(x, hard)
           f == IF env.host_up THEN HostUp(d) ELSE HostDown(d, hard)
           s == IF env.host_up THEN [f EXCEPT !.state_type = "SOFT"] ELSE f
           g == [f EXCEPT !.state_type = "HARD"]
           h == CheckServiceFlapping(g, TRUE, TRUE)
           m == Notify(h, "NORMAL", None)
<1>1. y = IF f.current_attempt < f.max_attempts THEN CheckServiceFlapping(s, TRUE, TRUE)
          ELSE [m EXCEPT !.last_hard_state = h.current_state]
  BY DEF ServiceFails
<1>2. /\ config \in Configs /\ hard \in BOOLEAN
      /\ ~env.host_up /\ ~hard => x.last_hard_state = x.current_state
  BY DEF Given0
<1> HIDE DEF hard
<1>3. PICK p : p = d
  OBVIOUS
<1>4. Sound(p, n) /\ Kept(p, x)
  BY <1>2, <1>3, DatedIs, KeptIs DEF Sound, Good
<1>5. PICK q : q = f
  OBVIOUS
<1>6. q = IF env.host_up THEN HostUp(p) ELSE HostDown(p, hard)
  BY <1>3, <1>5
<1>7. y = IF q.current_attempt < q.max_attempts
          THEN CheckServiceFlapping(IF env.host_up THEN [q EXCEPT !.state_type = "SOFT"] ELSE q,
                                    TRUE, TRUE)
          ELSE [Notify(CheckServiceFlapping([q EXCEPT !.state_type = "HARD"], TRUE, TRUE), "NORMAL", None)
                  EXCEPT !.last_hard_state =
                    CheckServiceFlapping([q EXCEPT !.state_type = "HARD"], TRUE, TRUE).current_state]
  BY Zenon, <1>1, <1>5
<1> HIDE DEF d, f, s, g, h, m
<1>8. p.current_state = x.current_state /\ p.state_type = x.state_type
      /\ p.current_attempt = x.current_attempt /\ p.max_attempts = x.max_attempts
      /\ p.last_hard_state = x.last_hard_state /\ SameWord(p, x)
  BY <1>4 DEF Kept, SameState
<1>9. /\ Sound(q, n) /\ SameWord(q, p) /\ q.current_state = x.current_state
      /\ q.max_attempts = x.max_attempts
      /\ env.host_up /\ x.state_type = "HARD" => q.current_attempt = x.current_attempt
      /\ ~env.host_up => /\ q.host_problem_at_last_check
                         /\ q.state_type = "HARD" => q.last_hard_state = x.current_state
  <2>1. CASE env.host_up
    <3>1. q = HostUp(p)
      BY <1>6, <2>1
    <3> QED BY <1>2, <1>4, <1>8, <2>1, <3>1, HostUpWord
  <2>2. CASE ~env.host_up
    <3>1. q = HostDown(p, hard)
      BY <1>6, <2>2
    <3>2. /\ Sound(q, n) /\ SameWord(q, p)
          /\ q.current_state = p.current_state /\ q.max_attempts = p.max_attempts
          /\ q.host_problem_at_last_check
          /\ q.last_hard_state = IF hard THEN p.current_state ELSE p.last_hard_state
      BY <1>2, <1>4, <3>1, HostDownWord
    <3>3. q.last_hard_state = x.current_state
      BY <1>2, <1>8, <2>2, <3>2
    <3> QED BY <1>8, <2>2, <3>2, <3>3
  <2> QED BY <2>1, <2>2
<1>10. Promised(q) /\ (Settled(x) <=> Settled(q))
  BY <1>8, <1>9, WordSame
<1>11. ~IsOk(q) /\ q.current_state # "OK"
  BY <1>9 DEF IsOk, Fine
<1>12. CASE q.current_attempt < q.max_attempts
  <2>1. PICK r : r = IF env.host_up THEN [q EXCEPT !.state_type = "SOFT"] ELSE q
    OBVIOUS
  <2>2. /\ Sound(r, n) /\ SameWord(r, q) /\ r.current_state = q.current_state
        /\ r.state_type = "HARD" => r.last_hard_state # "OK" /\ r.host_problem_at_last_check
    <3>1. CASE env.host_up
      <4>1. r = [q EXCEPT !.state_type = "SOFT"]
        BY <2>1, <3>1
      <4> QED BY <1>9, <4>1, TypeWord DEF StateType
    <3>2. CASE ~env.host_up
      <4>1. r = q
        BY <2>1, <3>2
      <4> QED BY <1>9, <1>11, <3>2, <4>1 DEF SameWord
    <3> QED BY <3>1, <3>2
  <2>3. Settled(x)
    <3> SUFFICES ASSUME ~Settled(x) PROVE FALSE
      OBVIOUS
    <3>1. env.host_up
      BY DEF Promised, Reachable
    <3>2. q.current_attempt = q.max_attempts
      BY <1>9, <3>1
    <3>3. q.current_attempt \in Int
      BY <1>9, ConfigAssumption DEF Sound, Good, StateOk
    <3> QED BY <1>12, <3>2, <3>3
  <2>4. Promised(r) /\ Settled(r)
    BY <1>10, <2>2, <2>3, WordSame
  <2>5. y = CheckServiceFlapping(r, TRUE, TRUE)
    BY <1>7, <1>12, <2>1
  <2>6. SameState(y, r) /\ Promised(y) /\ Settled(y)
    BY <2>2, <2>4, <2>5, CheckFlappingWord
  <2>7. ~IsOk(y) /\ (y.state_type = "HARD" => y.last_hard_state # "OK" /\ y.host_problem_at_last_check)
    BY <1>11, <2>2, <2>6 DEF SameState, IsOk
  <2> QED BY <2>6, <2>7 DEF Worded, HardOk, Waits
<1>13. CASE ~(q.current_attempt < q.max_attempts)
  <2>1. PICK r : r = [q EXCEPT !.state_type = "HARD"]
    OBVIOUS
  <2>2. /\ Sound(r, n) /\ SameWord(r, q) /\ r.current_state = q.current_state
        /\ r.state_type = "HARD" /\ r.current_attempt = r.max_attempts
    <3>1. /\ Sound(r, n) /\ SameWord(r, q) /\ r.current_state = q.current_state
          /\ r.state_type = "HARD" /\ r.current_attempt = q.current_attempt
          /\ r.max_attempts = q.max_attempts
      BY <1>9, <2>1, TypeWord DEF StateType
    <3>2. q.current_attempt \in 1 .. config.max_attempts /\ q.max_attempts = config.max_attempts
          /\ config.max_attempts \in Nat
      BY <1>2, <1>9, ConfigAssumption DEF Sound, Good, StateOk
    <3> QED BY <1>13, <3>1, <3>2
  <2>3. Promised(r)
    BY <1>10, <2>2, WordSame
  <2>4. PICK t : t = CheckServiceFlapping(r, TRUE, TRUE)
    OBVIOUS
  <2>5. SameState(t, r) /\ Promised(t)
    BY <2>2, <2>3, <2>4, CheckFlappingWord
  <2>6. Good(t)
    BY <2>2, <2>4, CheckFlappingOk DEF Sound
  <2>7. PICK u : u = Notify(t, "NORMAL", None)
    OBVIOUS
  <2>8. SameState(u, t) /\ Promised(u) /\ Shaped(u)
    <3>1. SameState(u, t) /\ Promised(u)
      BY <2>5, <2>6, <2>7, NotifyState, NotifyWord
    <3>2. Steady(u, t)
      BY <2>6, <2>7, NotifyOk
    <3> QED BY <3>1, <3>2 DEF Steady
  <2>9. y = [u EXCEPT !.last_hard_state = t.current_state]
    BY <1>7, <1>13, <2>1, <2>4, <2>7
  <2> DEFINE v == t.current_state
  <2>10. y = [u EXCEPT !.last_hard_state = v]
    BY <2>9
  <2>11. v # "OK" /\ v \notin Fine
    BY <1>11, <2>2, <2>5 DEF SameState, IsOk
  <2> HIDE DEF v
  <2>12. /\ SameWord(y, u) /\ y.current_state = u.current_state /\ y.state_type = u.state_type
         /\ y.current_attempt = u.current_attempt /\ y.max_attempts = u.max_attempts
         /\ y.last_hard_state = v
    BY <2>8, <2>10 DEF Shaped, Names, SameWord
  <2>13. Promised(y)
    BY <2>8, <2>12, WordSame
  <2>14. /\ ~IsOk(y) /\ y.state_type = "HARD" /\ y.current_attempt = y.max_attempts
         /\ y.last_hard_state # "OK"
    BY <2>2, <2>5, <2>8, <2>11, <2>12 DEF SameState, IsOk, v
  <2> QED BY <2>13, <2>14 DEF Worded, HardOk, Waits
<1> QED BY <1>12, <1>13

LEMMA ServiceResultWord ==
    ASSUME AllEscalate, Given0, IsService, NEW n \in Nat, NEW x, Sound(x, n), Worded(x),
           "RECOVERY" \in config.notify_on, NEW outcome, NEW y, y = ServiceResult(x, outcome)
    PROVE  Worded(y) /\ (IsOk(y) => (x.calm => y.calm \/ y.is_flapping))
<1>0. config \in Configs /\ Shaped(x) /\ Stated(x)
  BY StatedIs DEF Given0
<1>1. PICK b : b = Received(x, outcome)
  OBVIOUS
<1>2. /\ Restated(b, x) /\ Stated(b) /\ Shaped(b) /\ b.last_state = x.current_state
      /\ b.acknowledged = x.acknowledged /\ b.state_type = x.state_type
      /\ b.current_attempt = x.current_attempt /\ b.max_attempts = x.max_attempts
      /\ b.last_hard_state = x.last_hard_state
  <2>1. Restated(b, x) /\ Stated(b) /\ b.last_state = x.current_state
    BY <1>0, <1>1, ReceivedIs
  <2> DEFINE s == IF outcome \in ServiceState THEN outcome ELSE "CRITICAL"
  <2>2. b = [x EXCEPT !.last_state = x.current_state, !.current_state = s]
    BY <1>1 DEF Received
  <2> HIDE DEF s
  <2>3. /\ b.acknowledged = x.acknowledged /\ b.state_type = x.state_type
        /\ b.current_attempt = x.current_attempt /\ b.max_attempts = x.max_attempts
        /\ b.last_hard_state = x.last_hard_state
    BY <1>0, <2>2 DEF Shaped, Names
  <2> QED BY <2>1, <2>3 DEF Restated
<1>3. PICK c : c = Counted(b)
  OBVIOUS
<1>4. /\ Restated(c, x) /\ Stated(c) /\ c.last_state = x.current_state /\ Shaped(c)
      /\ c.acknowledged = x.acknowledged /\ c.state_type = x.state_type
      /\ c.max_attempts = x.max_attempts /\ c.last_hard_state = x.last_hard_state
      /\ x.state_type = "HARD" => c.current_attempt = x.current_attempt
  <2>1. Restated(c, x) /\ Stated(c) /\ c.last_state = x.current_state
    BY <1>0, <1>2, <1>3, CountedIs, RestatedTwice DEF Held
  <2>2. CASE b.state_type = "SOFT" /\ b.current_attempt < b.max_attempts
    <3> DEFINE k == b.current_attempt + 1
    <3>1. c = [b EXCEPT !.current_attempt = k]
      BY <1>3, <2>2 DEF Counted
    <3> HIDE DEF k
    <3>2. /\ c.acknowledged = b.acknowledged /\ c.state_type = b.state_type
          /\ c.max_attempts = b.max_attempts /\ c.last_hard_state = b.last_hard_state
      BY <1>2, <3>1 DEF Shaped, Names
    <3> QED BY <1>2, <2>1, <2>2, <3>2 DEF Restated
  <2>3. CASE ~(b.state_type = "SOFT" /\ b.current_attempt < b.max_attempts)
    <3>1. c = b
      BY <1>3, <2>3 DEF Counted
    <3> QED BY <1>2, <2>1, <3>1
  <2> QED BY <2>2, <2>3
<1> DEFINE changed == StateChange(c) \/ HardStateChange(c)
<1>5. changed \in BOOLEAN /\ (~changed => c.current_state = x.current_state)
  BY <1>4 DEF StateChange, HardStateChange
<1>6. PICK t : t = IF changed THEN TimesReset(c) ELSE c
  OBVIOUS
<1>7. PICK a : a = ClearedAck(t)
  OBVIOUS
<1>8. PICK d : d = Dated(a, HardStateChange(c))
  OBVIOUS
<1>9. y = IF IsOk(d) THEN ServiceRecovers(Unacknowledged(d), HardStateChange(c))
          ELSE ServiceFails(d, HardStateChange(c))
  BY Zenon, <1>1, <1>3, <1>6, <1>7, <1>8 DEF ServiceResult
<1> HIDE DEF changed
<1>10. Sound(t, n) /\ Kept(t, c)
  <2>1. t = TimesReset(c) \/ t = c
    BY <1>6
  <2> QED BY <1>0, <1>4, <1>5, <1>6, <2>1, TurnedOk, KeptIs
<1>11. Sound(a, n) /\ Kept(a, t)
  <2>1. Shaped(t)
    BY <1>10 DEF Kept
  <2> QED BY <1>7, <1>10, <2>1, ClearedIs, KeptIs
<1>12. Sound(d, n) /\ Kept(d, a)
  <2>1. Shaped(a)
    BY <1>11 DEF Kept
  <2> QED BY <1>0, <1>8, <1>11, <2>1, DatedIs, KeptIs
<1>13. HardStateChange(c) \in BOOLEAN
  BY DEF HardStateChange
<1>14. SameWord(c, x)
  BY <1>4, GradedWord
<1>15. Kept(d, c)
  BY <1>10, <1>11, <1>12, KeptTwice
<1>16. /\ d.current_state = c.current_state /\ d.state_type = x.state_type
       /\ d.max_attempts = x.max_attempts
       /\ x.state_type = "HARD" => d.current_attempt = x.current_attempt
       /\ SameWord(d, x)
  BY <1>4, <1>14, <1>15 DEF Kept, SameState, SameWord
<1>17. Promised(d) /\ (Settled(x) <=> Settled(d))
  BY <1>16, WordSame DEF Worded
<1>18. ~Settled(x) => /\ ~IsOk(x) /\ x.state_type = "HARD" /\ x.current_attempt = x.max_attempts
                      /\ x.last_hard_state # "OK"
  BY DEF Worded, Waits, HardOk
<1>19. CASE IsOk(d)
  <2>1. PICK u : u = Unacknowledged(d)
    OBVIOUS
  <2>2. Sound(u, n) /\ Kept(u, d)
    <3>1. Restated(u, d) /\ Stated(u) /\ SameState(u, d)
      BY <1>12, <2>1, StatedIs, UnacknowledgedIs
    <3>2. Shaped(d)
      BY <1>15 DEF Kept
    <3> QED BY <1>12, <2>1, <3>1, <3>2, RestatedOk, KeptIs DEF SameState
  <2>3. y = ServiceRecovers(u, HardStateChange(c))
    BY <1>9, <1>19, <2>1
  <2>4. Promised(u) /\ (Settled(d) <=> Settled(u)) /\ IsOk(u) /\ u.calm = x.calm
    BY <1>16, <1>17, <1>19, <2>2, WordSame DEF Kept, SameState, SameWord, IsOk
  <2>5. HardStateChange(c) \/ Settled(u)
    <3> SUFFICES ASSUME ~Settled(u) PROVE HardStateChange(c)
      OBVIOUS
    <3>1. /\ x.state_type = "HARD" /\ x.current_attempt = x.max_attempts /\ x.last_hard_state # "OK"
      BY <1>17, <1>18, <2>4
    <3>2. c.current_attempt = c.max_attempts /\ c.last_hard_state # "OK"
      BY <1>4, <3>1
    <3>3. c.current_attempt >= c.max_attempts
      <4>1. c.current_attempt \in Int
        BY <1>0, <1>4, ConfigAssumption DEF Stated, StateOk
      <4> QED BY <3>2, <4>1
    <3>4. c.current_state = "OK"
      <4>1. c.current_state \in State /\ c.current_state \in Fine
        BY <1>4, <1>16, <1>19 DEF Stated, StateOk, IsOk
      <4> QED BY <4>1, StateAssumption DEF State, ServiceState, HostState, Fine
    <3> QED BY <3>2, <3>3, <3>4 DEF HardStateChange
  <2>6. IsOk(y) /\ Worded(y) /\ (u.calm => y.calm \/ y.is_flapping)
    BY <1>13, <2>2, <2>3, <2>4, <2>5, ServiceRecoversWord
  <2> QED BY <2>4, <2>6
<1>20. CASE ~IsOk(d)
  <2>1. y = ServiceFails(d, HardStateChange(c))
    BY <1>9, <1>20
  <2>2. ~Settled(d) => d.state_type = "HARD" /\ d.current_attempt = d.max_attempts
    BY <1>16, <1>17, <1>18
  <2>3. ~IsOk(y) /\ Worded(y)
    BY <1>12, <1>13, <1>17, <1>20, <2>1, <2>2, ServiceFailsWord
  <2> QED BY <2>3
<1> QED BY <1>19, <1>20

\* What a result makes of a host: nobody who waits is left by a problem that is soft.
LEMMA ProcessedWord ==
    ASSUME config \in Configs, ~IsService, NEW x, Shaped(x), Stated(x), Promised(x),
           x.last_state = x.current_state,
           ~Settled(x) => /\ x.current_state # "UP" /\ x.state_type = "HARD"
                          /\ x.current_attempt \in {1, x.max_attempts},
           NEW new \in {"UP", "DOWN"}, NEW route \in HostState, new = "UP" <=> route = "UP", NEW check,
           NEW y, y = Processed(x, new, route, check)
    PROVE  /\ HardOk(y) /\ Promised(y) /\ (Settled(x) <=> Settled(y)) /\ SameWord(y, x)
           /\ y.state_type # "HARD" => Settled(y)
           /\ IsOk(y) => Settled(y) \/ y.last_state # y.current_state
<1> DEFINE s == IF check.active \/ check.translate THEN route ELSE new
           t == IF HardAtOnce(check) THEN "HARD" ELSE x.state_type
           u == IF \/ HardAtOnce(check)
                   \/ x.current_attempt \in {1, x.max_attempts}
                THEN "HARD" ELSE "SOFT"
           v == IF x.max_attempts = 1 \/ HardAtOnce(check) THEN "HARD" ELSE "SOFT"
           k == IF HardAtOnce(check) THEN 1 ELSE x.current_attempt
           l == IF x.max_attempts > 1 /\ HardAtOnce(check) THEN 1 ELSE x.current_attempt
<1>1. \/ /\ y = Stays(x, "UP", t) /\ x.current_state # "UP" /\ new = "UP"
      \/ /\ y = Moves(x, s, u, k) /\ x.current_state # "UP" /\ new # "UP"
      \/ /\ y = Stays(x, "UP", "HARD") /\ x.current_state = "UP" /\ new = "UP"
      \/ /\ y = Moves(x, s, v, l) /\ x.current_state = "UP" /\ new # "UP"
  <2>1. \/ /\ y = Recovered(x, check) /\ x.current_state # "UP" /\ new = "UP"
        \/ /\ y = StillDown(x, new, route, check) /\ x.current_state # "UP" /\ new # "UP"
        \/ /\ y = StillUp(x) /\ x.current_state = "UP" /\ new = "UP"
        \/ /\ y = WentDown(x, new, route, check) /\ x.current_state = "UP" /\ new # "UP"
    BY DEF Processed
  <2>2. Recovered(x, check) = Stays(x, "UP", t)
    BY DEF Recovered, Stays
  <2>3. StillDown(x, new, route, check) = Moves(x, s, u, k)
    BY DEF StillDown, Moves
  <2>4. StillUp(x) = Stays(x, "UP", "HARD")
    BY DEF StillUp, Stays
  <2>5. WentDown(x, new, route, check) = Moves(x, s, v, l)
    BY DEF WentDown, Moves
  <2> QED BY Zenon, <2>1, <2>2, <2>3, <2>4, <2>5
<1>2. new # "UP" => s \in HostState /\ s # "UP"
  BY DEF HostState
<1>3. /\ x.state_type = "HARD" => t = "HARD"
      /\ x.current_attempt \in {1, x.max_attempts} => u = "HARD"
      /\ u = "HARD" => k \in {1, x.max_attempts}
      /\ v = "HARD" => l \in {1, x.max_attempts}
  <2>1. x.max_attempts = config.max_attempts /\ config.max_attempts \in Nat \ {0}
        /\ x.current_attempt \in 1 .. config.max_attempts
    BY ConfigAssumption DEF Stated, StateOk
  <2>2. x.max_attempts = 1 => x.current_attempt = 1
    BY <2>1
  <2>3. x.max_attempts # 1 => x.max_attempts > 1
    BY <2>1
  <2> QED BY <2>2, <2>3
<1> HIDE DEF s, t, u, v, k, l
<1>4. CASE y = Stays(x, "UP", t) /\ x.current_state # "UP" /\ new = "UP"
  <2>1. SameWord(y, x) /\ y.current_state = "UP" /\ y.state_type = t /\ y.last_state = x.last_state
    BY <1>4 DEF Stays, Shaped, Names, SameWord
  <2>2. Promised(y) /\ (Settled(x) <=> Settled(y))
    BY <2>1, WordSame
  <2>3. IsOk(y)
    BY <2>1 DEF IsOk, Fine
  <2>4. y.last_state # y.current_state
    BY <1>4, <2>1
  <2> QED BY <1>3, <1>4, <2>1, <2>2, <2>3, <2>4 DEF HardOk
<1>5. CASE y = Moves(x, s, u, k) /\ x.current_state # "UP" /\ new # "UP"
  <2>1. /\ SameWord(y, x) /\ y.current_state = s /\ y.state_type = u /\ y.current_attempt = k
        /\ y.max_attempts = x.max_attempts
    BY <1>5 DEF Moves, Shaped, Names, SameWord
  <2>2. Promised(y) /\ (Settled(x) <=> Settled(y))
    BY <2>1, WordSame
  <2>3. ~IsOk(y)
    BY <1>2, <1>5, <2>1 DEF IsOk, Fine, HostState
  <2> QED BY <1>3, <1>5, <2>1, <2>2, <2>3 DEF HardOk
<1>6. CASE y = Stays(x, "UP", "HARD") /\ x.current_state = "UP" /\ new = "UP"
  <2>1. SameWord(y, x) /\ y.current_state = "UP" /\ y.state_type = "HARD"
    BY <1>6 DEF Stays, Shaped, Names, SameWord
  <2>2. Promised(y) /\ Settled(y) /\ Settled(x)
    BY <1>6, <2>1, WordSame
  <2>3. IsOk(y)
    BY <2>1 DEF IsOk, Fine
  <2> QED BY <1>6, <2>1, <2>2, <2>3 DEF HardOk
<1>7. CASE y = Moves(x, s, v, l) /\ x.current_state = "UP" /\ new # "UP"
  <2>1. /\ SameWord(y, x) /\ y.current_state = s /\ y.state_type = v /\ y.current_attempt = l
        /\ y.max_attempts = x.max_attempts
    BY <1>7 DEF Moves, Shaped, Names, SameWord
  <2>2. Promised(y) /\ Settled(y) /\ Settled(x)
    BY <1>7, <2>1, WordSame
  <2>3. ~IsOk(y)
    BY <1>2, <1>7, <2>1 DEF IsOk, Fine, HostState
  <2> QED BY <1>3, <1>7, <2>1, <2>2, <2>3 DEF HardOk
<1> QED BY <1>1, <1>4, <1>5, <1>6, <1>7

\* A host that is told of its state.
LEMMA HandleHostStateWord ==
    ASSUME AllEscalate, Given0, ~IsService, NEW n \in Nat, NEW x, Sound(x, n), NEW h, Restated(h, x),
           Stated(h), h.last_state = x.current_state, "RECOVERY" \in config.notify_on,
           HardOk(h), Promised(h), h.state_type # "HARD" => Settled(h),
           IsOk(h) => Settled(h) \/ h.last_state # h.current_state,
           NEW y, y = HandleHostState(h)
    PROVE  Worded(y) /\ (IsOk(y) => (h.calm => y.calm))
<1> DEFINE hard == h.current_attempt >= h.max_attempts /\ HostHardChange(h)
           turned == HostStateChange(h) \/ hard
           changed == HostStateChange(h) \/ HostHardChange(h)
<1>0. config \in Configs /\ Shaped(h)
  BY DEF Given0, Restated
<1>1. turned \in BOOLEAN /\ (~turned => h.current_state = x.current_state)
      /\ (h.last_state # h.current_state => changed)
  BY DEF HostStateChange, HostHardChange
<1>2. PICK t : t = IF turned THEN TimesReset(h) ELSE h
  OBVIOUS
<1>3. PICK a : a = HostClearedAck(t)
  OBVIOUS
<1>4. PICK d : d = Dated(a, changed /\ h.state_type = "HARD")
  OBVIOUS
<1>5. PICK told : told = IF h.state_type = "HARD" THEN Notify(d, "NORMAL", None) ELSE d
  OBVIOUS
<1>6. y = CASE changed /\ IsOk(h) -> Forgotten([told EXCEPT !.current_attempt = 1])
            [] changed /\ ~IsOk(h) -> told
            [] ~changed /\ IsOk(h) -> d
            [] ~changed /\ ~IsOk(h) -> told
  BY Zenon, <1>2, <1>3, <1>4, <1>5 DEF HandleHostState
<1> HIDE DEF hard, turned, changed
<1>7. Sound(t, n) /\ Kept(t, h)
  <2>1. t = TimesReset(h) \/ t = h
    BY <1>2
  <2> QED BY <1>0, <1>1, <1>2, <2>1, TurnedOk, KeptIs
<1>8. Sound(a, n) /\ Kept(a, t)
  <2>1. Shaped(t)
    BY <1>7 DEF Kept
  <2> QED BY <1>3, <1>7, <2>1, ClearedIs, KeptIs
<1>9. Sound(d, n) /\ Kept(d, a)
  <2>1. Shaped(a)
    BY <1>8 DEF Kept
  <2> QED BY <1>0, <1>4, <1>8, <2>1, DatedIs, KeptIs
<1>10. Kept(d, h)
  BY <1>7, <1>8, <1>9, KeptTwice
<1>11. Promised(d) /\ (Settled(h) <=> Settled(d)) /\ d.calm = h.calm
  BY <1>10, WordSame DEF Kept, SameWord
<1>12. IsOk(d) <=> IsOk(h)
  BY <1>10 DEF Kept, SameState, IsOk
<1>13. Sound(told, n) /\ SameState(told, d) /\ Promised(told)
       /\ (IsOk(h) => Settled(told)) /\ (h.calm => told.calm)
       /\ (h.state_type # "HARD" => Settled(told))
  <2>1. CASE h.state_type = "HARD"
    <3>1. told = Notify(d, "NORMAL", None)
      BY <1>5, <2>1
    <3>2. Good(d) /\ d.state_type = "HARD"
      BY <1>9, <1>10, <2>1 DEF Sound, Kept, SameState
    <3>3. Sound(told, n) /\ SameState(told, d)
      BY <1>9, <3>1, <3>2, NotifySound, NotifyState
    <3>4. Promised(told) /\ (IsOk(d) => Settled(told)) /\ (d.calm => told.calm)
      BY <1>11, <3>1, <3>2, NotifyWord
    <3> QED BY <1>11, <1>12, <2>1, <3>3, <3>4
  <2>2. CASE h.state_type # "HARD"
    <3>1. told = d
      BY <1>5, <2>2
    <3> QED BY <1>9, <1>11, <2>2, <3>1 DEF SameState
  <2> QED BY <2>1, <2>2
<1>14. CASE changed /\ IsOk(h)
  <2>1. PICK p : p = [told EXCEPT !.current_attempt = 1]
    OBVIOUS
  <2>2. y = Forgotten(p)
    BY <1>6, <1>14, <2>1
  <2>3. Shaped(told)
    BY <1>13 DEF Sound, Good
  <2>4. /\ Shaped(p) /\ p.due = told.due /\ p.calm = told.calm /\ p.is_flapping = told.is_flapping
        /\ p.current_state = told.current_state
    BY <2>1, <2>3 DEF Shaped, Names
  <2>5. Steady(y, p) /\ SameFlap(y, p) /\ SamePhase(y, p)
    BY <2>2, <2>4, ForgottenIs
  <2>6. /\ y.due = told.due /\ y.calm = told.calm /\ y.is_flapping = told.is_flapping
        /\ y.current_state = told.current_state
    BY <2>4, <2>5 DEF Steady, SameState, SameFlap, SamePhase
  <2>7. Settled(y) /\ Promised(y)
    BY <1>13, <1>14, <2>6 DEF Settled, Promised
  <2>8. IsOk(y)
    BY <1>12, <1>13, <1>14, <2>6 DEF SameState, IsOk
  <2> QED BY <1>13, <2>6, <2>7, <2>8 DEF Worded, HardOk, Waits
<1>15. CASE ~changed /\ IsOk(h)
  <2>1. y = d
    BY <1>6, <1>15
  <2>2. Settled(h)
    BY <1>1, <1>15
  <2>3. IsOk(y) /\ Settled(y) /\ Promised(y) /\ y.calm = h.calm
    BY <1>11, <1>12, <1>15, <2>1, <2>2
  <2> QED BY <2>3 DEF Worded, HardOk, Waits
<1>16. CASE ~IsOk(h)
  <2>1. y = told
    BY <1>6, <1>16
  <2>2. SameState(y, h)
    BY <1>10, <1>13, <2>1 DEF Kept, SameState
  <2>3. ~IsOk(y)
    BY <1>16, <2>2 DEF SameState, IsOk
  <2>4. HardOk(y)
    BY <1>16, <2>2, <2>3 DEF SameState, HardOk
  <2>5. ~Settled(y) => y.state_type = "HARD"
    BY <1>13, <2>1, <2>2 DEF SameState
  <2> QED BY <1>13, <2>1, <2>3, <2>4, <2>5 DEF Worded, Waits
<1> QED BY <1>14, <1>15, <1>16

\* Looking for flapping keeps it.
LEMMA CheckedWorded ==
    ASSUME AllEscalate, Given0, NEW n \in Nat, NEW x, Sound(x, n), Worded(x),
           NEW update \in BOOLEAN, NEW announce \in BOOLEAN,
           NEW y, y \in {CheckHostFlapping(x, update, announce), CheckFlapping(x, update, announce)}
    PROVE  Worded(y) /\ SameState(y, x) /\ (x.calm => y.calm \/ y.is_flapping)
<1>1. /\ SameState(y, x) /\ Promised(y) /\ (Settled(x) => Settled(y))
      /\ x.calm => y.calm \/ y.is_flapping
  BY CheckFlappingWord DEF Worded
<1>2. IsOk(y) <=> IsOk(x)
  BY <1>1 DEF SameState, IsOk
<1>3. HardOk(y)
  BY <1>1, <1>2 DEF SameState, HardOk, Worded
<1>4. Waits(y)
  BY <1>1, <1>2 DEF SameState, Waits, Worded
<1> QED BY <1>1, <1>3, <1>4 DEF Worded

LEMMA HostResultWord ==
    ASSUME AllEscalate, Given0, ~IsService, NEW n \in Nat, NEW x, Sound(x, n), Worded(x),
           "RECOVERY" \in config.notify_on, NEW outcome \in HostState, NEW y, y = HostResult(x, outcome)
    PROVE  Worded(y) /\ (IsOk(y) => (x.calm => y.calm \/ y.is_flapping))
<1> DEFINE new == IF outcome = "UP" THEN "UP" ELSE "DOWN"
<1>0. config \in Configs /\ Shaped(x) /\ Stated(x)
  BY StatedIs DEF Given0
<1>1. PICK a : a = IF config.check.active THEN Adjusted(x, TRUE) ELSE x
  OBVIOUS
<1>2. PICK s : s = Saved(a)
  OBVIOUS
<1>3. PICK h : h = Processed(s, new, outcome, config.check)
  OBVIOUS
<1>4. PICK r : r = HandleHostState(h)
  OBVIOUS
<1>5. y = CheckHostFlapping(r, TRUE, TRUE)
  BY Zenon, <1>1, <1>2, <1>3, <1>4 DEF HostResult
<1>6. ~Settled(x) => /\ x.current_state # "UP" /\ x.state_type = "HARD"
                     /\ x.current_attempt \in {1, x.max_attempts}
  BY DEF Worded, Waits, HardOk, IsOk, Fine
<1>7. /\ Restated(a, x) /\ Stated(a) /\ Shaped(a) /\ a.current_state = x.current_state
      /\ SameWord(a, x) /\ a.state_type = x.state_type /\ a.max_attempts = x.max_attempts
      /\ ~Settled(x) => a.current_attempt \in {1, a.max_attempts}
  <2>1. CASE config.check.active
    <3>1. a = Adjusted(x, TRUE)
      BY <1>1, <2>1
    <3> DEFINE k == IF x.state_type = "HARD" \/ (TRUE /\ x.current_state = "UP") THEN 1
                    ELSE IF x.current_attempt < x.max_attempts THEN x.current_attempt + 1
                    ELSE x.current_attempt
    <3>2. a = [x EXCEPT !.current_attempt = k]
      BY <3>1 DEF Adjusted
    <3>3. ~Settled(x) => k = 1
      BY <1>6
    <3>4. Restated(a, x) /\ Stated(a) /\ a.current_state = x.current_state
      BY <1>0, <3>1, AdjustedIs DEF Held
    <3> HIDE DEF k
    <3>5. /\ SameWord(a, x) /\ a.state_type = x.state_type /\ a.max_attempts = x.max_attempts
          /\ a.current_attempt = k
      BY <1>0, <3>2 DEF Shaped, Names, SameWord
    <3> QED BY <3>3, <3>4, <3>5 DEF Restated
  <2>2. CASE ~config.check.active
    <3>1. a = x
      BY <1>1, <2>2
    <3> QED BY <1>0, <1>6, <3>1
            DEF Restated, SameSwitch, SameTold, SameTimes, SameFlap, SameSeen, SamePhase, SameWord
  <2> QED BY <2>1, <2>2
<1>8. /\ Restated(s, x) /\ Stated(s) /\ Shaped(s) /\ s.last_state = x.current_state
      /\ s.current_state = x.current_state /\ SameWord(s, x) /\ s.state_type = x.state_type
      /\ ~Settled(x) => s.current_attempt \in {1, s.max_attempts}
  <2>1. /\ Restated(s, a) /\ Stated(s) /\ s.last_state = a.current_state
        /\ s.current_state = a.current_state
    BY <1>2, <1>7, SavedIs
  <2> DEFINE v == IF a.state_type = "HARD" THEN a.current_state ELSE a.last_hard_state
             w == a.current_state
  <2>2. s = [a EXCEPT !.last_state = w, !.last_hard_state = v]
    BY <1>2 DEF Saved
  <2> HIDE DEF v, w
  <2>3. /\ SameWord(s, a) /\ s.state_type = a.state_type /\ s.max_attempts = a.max_attempts
        /\ s.current_attempt = a.current_attempt
    BY <1>7, <2>2 DEF Shaped, Names, SameWord
  <2>4. Restated(s, x) /\ SameWord(s, x)
    BY <1>7, <2>1, <2>3, RestatedTwice DEF SameWord
  <2> QED BY <1>7, <2>1, <2>3, <2>4 DEF Restated
<1>9. Promised(s) /\ (Settled(x) <=> Settled(s))
  BY <1>8, WordSame DEF Worded
<1>10. new \in {"UP", "DOWN"} /\ new \in HostState /\ (new = "UP" <=> outcome = "UP")
  BY DEF HostState
<1> HIDE DEF new
<1>11. Restated(h, x) /\ Stated(h) /\ h.last_state = x.current_state
  <2>1. Restated(h, s) /\ Stated(h) /\ h.last_state = s.last_state
    BY <1>0, <1>3, <1>8, <1>10, ProcessedIs
  <2> QED BY <1>8, <2>1, RestatedTwice
<1>12. /\ HardOk(h) /\ Promised(h) /\ SameWord(h, s)
       /\ h.state_type # "HARD" => Settled(h)
       /\ IsOk(h) => Settled(h) \/ h.last_state # h.current_state
  <2>1. s.last_state = s.current_state
    BY <1>8
  <2>2. ~Settled(s) => /\ s.current_state # "UP" /\ s.state_type = "HARD"
                       /\ s.current_attempt \in {1, s.max_attempts}
    BY <1>6, <1>8, <1>9
  <2> QED BY <1>0, <1>3, <1>8, <1>9, <1>10, <2>1, <2>2, ProcessedWord
<1>13. Sound(r, n)
  BY <1>4, <1>11, HandleHostStateOk
<1>14. Worded(r) /\ (IsOk(r) => (h.calm => r.calm))
  BY <1>4, <1>11, <1>12, HandleHostStateWord
<1>15. h.calm = x.calm
  BY <1>8, <1>12 DEF SameWord
<1>16. /\ Worded(y) /\ SameState(y, r) /\ (r.calm => y.calm \/ y.is_flapping)
  BY <1>5, <1>13, <1>14, CheckedWorded
<1>17. IsOk(y) => IsOk(r)
  BY <1>16 DEF SameState, IsOk
<1> QED BY <1>14, <1>15, <1>16, <1>17

\* A restart: the attempts are used up for a hard problem, and flapping is found again.
LEMMA RestartedWord ==
    ASSUME AllEscalate, Given0, NEW n \in Nat, NEW x, Sound(x, n), Worded(x), NEW y, y = Restarted(x)
    PROVE  Worded(y)
<1>1. PICK m : m = Recalled(x)
  OBVIOUS
<1>2. /\ Sound(m, n) /\ SameRecord(m, x) /\ ~m.is_flapping
      /\ ~IsOk(x) /\ x.state_type = "HARD" => m.current_attempt = m.max_attempts
  BY <1>1, RecalledOk
<1>3. IsOk(m) <=> IsOk(x)
  BY <1>2 DEF SameRecord, IsOk
<1>4. Settled(m) <=> Settled(x)
  BY <1>2 DEF SameRecord, SamePhase, Settled
<1>5. Promised(m)
  <2>1. Reachable(x) => Reachable(m)
    BY <1>2 DEF SameRecord, SameAck, SameSwitch, SameTold, SamePhase, Reachable
  <2> QED BY <1>2, <1>4, <2>1 DEF Promised, Worded
<1>6. HardOk(m)
  BY <1>2, <1>3 DEF HardOk, SameRecord, Worded
<1>7. Waits(m)
  BY <1>2, <1>3, <1>4 DEF Waits, SameRecord, Worded
<1>8. PICK s : s = CheckFlapping(m, FALSE, ~x.is_flapping)
  OBVIOUS
<1>9. Worded(s)
  <2>1. (~x.is_flapping) \in BOOLEAN /\ Worded(m)
    BY <1>5, <1>6, <1>7 DEF Worded
  <2> QED BY <1>2, <1>8, <2>1, CheckedWorded
<1> DEFINE k == s.check_flapping_recovery /\ ~(x.is_flapping /\ ~s.is_flapping)
<1>10. y = [s EXCEPT !.check_flapping_recovery = k]
  <2>1. y = Resumed(s, x)
    BY <1>1, <1>8, RestartedIs
  <2> QED BY <2>1 DEF Resumed
<1> HIDE DEF k
<1>11. Shaped(s)
  <2>1. (~x.is_flapping) \in BOOLEAN
    OBVIOUS
  <2>2. Sound(s, n)
    BY <1>2, <1>8, <2>1, CheckFlappingOk
  <2> QED BY <2>2 DEF Sound, Good
<1>12. Kept(y, s)
  BY <1>10, <1>11 DEF Shaped, Names, Kept, SameState, SameWord
<1> QED BY <1>9, <1>12, KeptWorded

---------------------------------------------------------------------------------
(* Every step keeps it *)

\* The word is kept if nothing around a calm object changes.
LEMMA NextWorded ==
    ASSUME config' = config, NEW x, o' = x, Worded(x),
           x.calm => /\ env'.enabled = env.enabled /\ env'.dependencies = env.dependencies
                     /\ env'.host_up = env.host_up /\ env'.muted = env.muted
                     /\ env'.resting = env.resting
    PROVE  Worded(o)'
<1>1. HardOk(o)'
  BY DEF Worded, HardOk, IsOk, IsService
<1>2. Settled(o)' <=> Settled(x)
  BY DEF Settled
<1>3. Waits(o)'
  BY <1>2 DEF Worded, Waits, IsOk, IsService
<1>4. Promised(o)'
  <2>1. CASE ~x.calm
    BY <2>1 DEF Promised, Settled
  <2>2. CASE x.calm
    <3>1. Reachable(x) => Reachable(o)'
      <4>1. Contacted(o.number)' = Contacted(x.number)
        BY <2>2 DEF Contacted
      <4> QED BY <2>2, <4>1 DEF Reachable, IsService
    <3> QED BY <1>2, <3>1 DEF Worded, Promised
  <2> QED BY <2>1, <2>2
<1> QED BY <1>1, <1>3, <1>4 DEF Worded

\* What is told of a state that stays.
WordedNext == Worded(o)' /\ o'.current_state = o.current_state

\* A command leaves the state as it is, and the object is calm no more.
LEMMA DisturbedWorded ==
    ASSUME IInv, Worded(o), NEW x, Shaped(x), SameState(x, o),
           o' = [x EXCEPT !.calm = FALSE], config' = config
    PROVE  WordedNext
<1>1. PICK y : y = [x EXCEPT !.calm = FALSE]
  OBVIOUS
<1>2. SameState(y, o) /\ ~y.calm
  BY <1>1 DEF Shaped, Names, SameState
<1>3. Worded(y)
  <2>1. Settled(y) /\ Promised(y)
    BY <1>2 DEF Settled, Promised
  <2>2. IsOk(y) <=> IsOk(o)
    BY <1>2 DEF SameState, IsOk
  <2> QED BY <1>2, <2>1, <2>2 DEF Worded, HardOk, Waits, SameState
<1>4. Worded(o)'
  BY <1>1, <1>2, <1>3, NextWorded
<1> QED BY <1>1, <1>2, <1>4 DEF WordedNext, SameState

LEMMA ChangeWorded ==
    ASSUME IInv, Worded(o), NEW x, Shaped(x), SameState(x, o), Change(x)
    PROVE  WordedNext
BY DisturbedWorded DEF Change

LEMMA SurroundWorded ==
    ASSUME IInv, Worded(o), NEW e, Surround(e)
    PROVE  WordedNext
<1>1. Shaped(o) /\ SameState(o, o)
  BY GivenIs DEF SameState
<1> QED BY <1>1, DisturbedWorded DEF Surround

\* A notification on the way of a command.
LEMMA ToldOnTheWay ==
    ASSUME IInv, NEW n \in Nat, NEW x, Sound(x, n), NEW type, NEW options, type # "NORMAL",
           NEW y, y = Notify(x, type, options)
    PROVE  Shaped(y) /\ SameState(y, x)
<1>1. Good(x) /\ Given0
  BY GivenIs DEF Sound
<1>2. Steady(y, x)
  BY <1>1, NotifyOk
<1> QED BY <1>2 DEF Steady

LEMMA AcknowledgeWorded ==
    ASSUME IInv, Worded(o), NEW type, Acknowledge(type)
    PROVE  WordedNext
<1>1. PICK r : r = Notify(o, "ACKNOWLEDGEMENT", None)
  OBVIOUS
<1>2. PICK x : x = [r EXCEPT !.acknowledged = TRUE, !.acknowledgement_type = type]
  OBVIOUS
<1>3. Change(x)
  BY <1>1, <1>2 DEF Acknowledge
<1>4. Shaped(r) /\ SameState(r, o)
  BY <1>1, GivenIs, ToldOnTheWay
<1>5. Shaped(x) /\ SameState(x, o)
  BY <1>2, <1>4 DEF Shaped, Names, SameState
<1> QED BY <1>3, <1>5, ChangeWorded

LEMMA SendCustomWorded ==
    ASSUME IInv, Worded(o), NEW options, SendCustom(options)
    PROVE  WordedNext
<1>1. PICK x : x = Notify(o, "CUSTOM", options)
  OBVIOUS
<1>2. Change(x)
  BY <1>1 DEF SendCustom
<1>3. Shaped(x) /\ SameState(x, o)
  BY <1>1, GivenIs, ToldOnTheWay
<1> QED BY <1>2, <1>3, ChangeWorded

LEMMA StartDowntimeWorded ==
    ASSUME IInv, Worded(o), StartDowntime
    PROVE  WordedNext
<1>1. PICK r : r = Notify(o, "DOWNTIMESTART", None)
  OBVIOUS
<1>2. PICK x : x = [r EXCEPT !.downtime = TRUE]
  OBVIOUS
<1>3. Change(x)
  BY <1>1, <1>2 DEF StartDowntime
<1>4. Shaped(r) /\ SameState(r, o)
  BY <1>1, GivenIs, ToldOnTheWay
<1>5. Shaped(x) /\ SameState(x, o)
  BY <1>2, <1>4 DEF Shaped, Names, SameState
<1> QED BY <1>3, <1>5, ChangeWorded

LEMMA EndDowntimeWorded ==
    ASSUME IInv, Worded(o), EndDowntime
    PROVE  WordedNext
<1>1. PICK r : r = [o EXCEPT !.downtime = FALSE]
  OBVIOUS
<1>2. PICK x : x = Notify(r, "DOWNTIMEEND", None)
  OBVIOUS
<1>3. Change(x)
  BY <1>1, <1>2 DEF EndDowntime
<1>4. Loose(r, o)
  BY <1>1, GivenIs DEF Shaped, Names, Loose, SameState, AckOk, SameHistory,
                     SameTold, SameTimes, SameFlap
<1>5. Sound(r, spent)
  BY <1>4, GivenIs, LooseOk
<1>6. Shaped(x) /\ SameState(x, r)
  BY <1>2, <1>5, GivenIs, ToldOnTheWay
<1>7. SameState(x, o)
  BY <1>4, <1>6 DEF Loose, SameState
<1> QED BY <1>3, <1>6, <1>7, ChangeWorded

\* A field is set by hand.
LEMMA SetWorded ==
    ASSUME IInv, Worded(o), \/ RemoveAcknowledgement
                            \/ \E number \in {0, NumberCap} : SetNumber(number)
                            \/ Delay(config.delays)
                            \/ SwitchNotifications
    PROVE  WordedNext
<1>0. Shaped(o)
  BY GivenIs
<1>1. CASE RemoveAcknowledgement
  <2>1. PICK x : x = [o EXCEPT !.acknowledged = FALSE]
    OBVIOUS
  <2>2. Shaped(x) /\ SameState(x, o)
    BY <1>0, <2>1 DEF Shaped, Names, SameState
  <2> QED BY <1>1, <2>1, <2>2, ChangeWorded DEF RemoveAcknowledgement
<1>2. ASSUME NEW number, SetNumber(number) PROVE WordedNext
  <2>1. PICK x : x = [o EXCEPT !.number = number, !.tampered = TRUE]
    OBVIOUS
  <2>2. Shaped(x) /\ SameState(x, o)
    BY <1>0, <2>1 DEF Shaped, Names, SameState
  <2> QED BY <1>2, <2>1, <2>2, ChangeWorded DEF SetNumber
<1>3. CASE Delay(config.delays)
  <2>1. PICK x : x = [o EXCEPT !.wait = config.delays]
    OBVIOUS
  <2>2. Shaped(x) /\ SameState(x, o)
    BY <1>0, <2>1 DEF Shaped, Names, SameState
  <2> QED BY <1>3, <2>1, <2>2, ChangeWorded DEF Delay
<1>4. CASE SwitchNotifications
  <2>1. PICK x : x = [o EXCEPT !.notifications_enabled = ~o.notifications_enabled]
    OBVIOUS
  <2>2. Shaped(x) /\ SameState(x, o)
    <3> DEFINE b == ~o.notifications_enabled
    <3>1. x = [o EXCEPT !.notifications_enabled = b]
      BY <2>1
    <3> HIDE DEF b
    <3> QED BY <1>0, <3>1 DEF Shaped, Names, SameState
  <2>3. Change(x)
    BY <1>4, <2>1 DEF SwitchNotifications
  <2> QED BY <2>2, <2>3, ChangeWorded
<1> QED BY <1>1, <1>2, <1>3, <1>4

LEMMA JudgedWorded ==
    ASSUME AllEscalate, IInv, Worded(o), NEW r, Loose(r, o), SameWord(r, o),
           Change(CheckFlapping(r, FALSE, TRUE))
    PROVE  WordedNext
<1>1. PICK x : x = CheckFlapping(r, FALSE, TRUE)
  OBVIOUS
<1>2. Sound(r, spent) /\ Given0 /\ spent \in Nat
  BY GivenIs, LooseOk
<1>3. Promised(r)
  BY WordSame DEF Worded
<1>4. SameState(x, r)
  BY <1>1, <1>2, <1>3, CheckFlappingWord
<1>5. Sound(x, spent)
  BY <1>1, <1>2, CheckFlappingOk
<1>6. Shaped(x) /\ SameState(x, o)
  BY <1>4, <1>5 DEF Sound, Good, Loose, SameState
<1>7. Change(x)
  BY <1>1
<1> QED BY <1>6, <1>7, ChangeWorded

\* Flap detection is switched on and off.
LEMMA FlapSwitchWorded ==
    ASSUME AllEscalate, IInv, Worded(o),
           EnableFlapDetection \/ EnableFlapping \/ DisableFlapDetection \/ DisableFlapping
    PROVE  WordedNext
<1>0. Shaped(o) /\ AckOk(o) /\ Sound(o, spent) /\ spent \in Nat /\ Given0
  BY GivenIs
<1>1. CASE EnableFlapDetection
  <2>1. PICK r : r = [o EXCEPT !.flap_detection_enabled = TRUE]
    OBVIOUS
  <2>2. Change(CheckFlapping(r, FALSE, TRUE))
    BY <1>1, <2>1 DEF EnableFlapDetection
  <2>3. Loose(r, o) /\ SameWord(r, o)
    BY <1>0, <2>1 DEF Shaped, Names, Loose, SameState, AckOk, SameHistory,
                      SameTold, SameTimes, SameFlap, SameWord
  <2> QED BY <2>2, <2>3, JudgedWorded
<1>2. CASE EnableFlapping
  <2>1. PICK r : r = [o EXCEPT !.enable_flap_detection = TRUE]
    OBVIOUS
  <2>2. Change(CheckFlapping(r, FALSE, TRUE))
    BY <1>2, <2>1 DEF EnableFlapping
  <2>3. Loose(r, o) /\ SameWord(r, o)
    BY <1>0, <2>1 DEF Shaped, Names, Loose, SameState, AckOk, SameHistory,
                      SameTold, SameTimes, SameFlap, SameWord
  <2> QED BY <2>2, <2>3, JudgedWorded
<1>3. CASE DisableFlapDetection
  <2> DEFINE b == o.abandoned \/ o.is_flapping
  <2>1. PICK r : r = [o EXCEPT !.flap_detection_enabled = FALSE, !.is_flapping = FALSE,
                               !.abandoned = b]
    OBVIOUS
  <2>2. Change(FlapDetectionDisabled(r))
    <3>1. Change(FlapDetectionDisabled([o EXCEPT !.flap_detection_enabled = FALSE,
                                                 !.is_flapping = FALSE,
                                                 !.abandoned = @ \/ o.is_flapping]))
      BY <1>3 DEF DisableFlapDetection
    <3> QED BY <2>1, <3>1
  <2> HIDE DEF b
  <2>3. Shaped(r) /\ SameState(r, o) /\ r.is_flapping = FALSE
    BY <1>0, <2>1 DEF Shaped, Names, SameState
  <2>4. FlapDetectionDisabled(r) = r
    BY <2>3 DEF FlapDetectionDisabled
  <2> QED BY <2>2, <2>3, <2>4, ChangeWorded
<1>4. CASE DisableFlapping
  <2>1. PICK r : r = [o EXCEPT !.enable_flap_detection = FALSE]
    OBVIOUS
  <2>2. PICK x : x = FlapDetectionDisabled(r)
    OBVIOUS
  <2>3. Change(x)
    BY <1>4, <2>1, <2>2 DEF DisableFlapping
  <2>4. Loose(r, o)
    BY <1>0, <2>1 DEF Shaped, Names, Loose, SameState, AckOk, SameHistory,
                      SameTold, SameTimes, SameFlap
  <2>5. Sound(r, spent)
    BY <1>0, <2>4, LooseOk
  <2>6. SameState(x, r) /\ Sound(x, spent)
    BY <1>0, <2>2, <2>5, FlapDetectionDisabledOk, FlapDetectionDisabledWord
  <2>7. Shaped(x) /\ SameState(x, o)
    BY <2>4, <2>6 DEF Sound, Good, Loose, SameState
  <2> QED BY <2>3, <2>7, ChangeWorded
<1> QED BY <1>1, <1>2, <1>3, <1>4

LEMMA RestartWorded ==
    ASSUME AllEscalate, IInv, Worded(o), Restart
    PROVE  WordedNext
<1>1. PICK x : x = Restarted(o)
  OBVIOUS
<1>2. o' = x /\ config' = config /\ env' = env
  BY <1>1 DEF Restart
<1>3. Worded(x) /\ Held(x, o)
  BY <1>1, GivenIs, RestartedOk, RestartedWord
<1>4. Worded(o)'
  BY <1>2, <1>3, NextWorded
<1> QED BY <1>2, <1>3, <1>4 DEF WordedNext, Held

LEMMA CommandWorded ==
    ASSUME AllEscalate, IInv, Worded(o), Command
    PROVE  WordedNext
<1>1. \/ Restart
      \/ \E type \in {"NORMAL", "STICKY"} : Acknowledge(type)
      \/ \/ RemoveAcknowledgement
         \/ \E number \in {0, NumberCap} : SetNumber(number)
         \/ Delay(config.delays)
         \/ SwitchNotifications
      \/ \E options \in SUBSET {"FORCED", "BROADCAST", "INCREMENT"} : SendCustom(options)
      \/ StartDowntime \/ EndDowntime
      \/ EnableFlapDetection \/ EnableFlapping \/ DisableFlapDetection \/ DisableFlapping
      \/ \/ SwitchAllNotifications \/ PeriodCloses \/ HostChanges \/ HostDowntimeChanges
         \/ DependencyChanges \/ VetoChanges
         \/ \E c \in DOMAIN config.listens : ContactChanges(c)
         \/ \E e \in config.escalations : EscalationChanges(e)
  BY Zenon DEF Command
<1>2. CASE Restart
  BY <1>2, RestartWorded
<1>3. CASE \E type \in {"NORMAL", "STICKY"} : Acknowledge(type)
  BY <1>3, AcknowledgeWorded
<1>4. CASE \/ RemoveAcknowledgement
           \/ \E number \in {0, NumberCap} : SetNumber(number)
           \/ Delay(config.delays)
           \/ SwitchNotifications
  BY <1>4, SetWorded
<1>5. CASE \E options \in SUBSET {"FORCED", "BROADCAST", "INCREMENT"} : SendCustom(options)
  BY <1>5, SendCustomWorded
<1>6. CASE StartDowntime
  BY <1>6, StartDowntimeWorded
<1>7. CASE EndDowntime
  BY <1>7, EndDowntimeWorded
<1>8. CASE EnableFlapDetection \/ EnableFlapping \/ DisableFlapDetection \/ DisableFlapping
  BY <1>8, FlapSwitchWorded
<1>9. CASE \/ SwitchAllNotifications \/ PeriodCloses \/ HostChanges \/ HostDowntimeChanges
           \/ DependencyChanges \/ VetoChanges
           \/ \E c \in DOMAIN config.listens : ContactChanges(c)
           \/ \E e \in config.escalations : EscalationChanges(e)
  <2>1. \E e : Surround(e)
    BY Zenon, <1>9 DEF SwitchAllNotifications, PeriodCloses, HostChanges, HostDowntimeChanges,
                       DependencyChanges, VetoChanges, ContactChanges, EscalationChanges
  <2> QED BY <2>1, SurroundWorded
<1> QED BY <1>1, <1>2, <1>3, <1>4, <1>5, <1>6, <1>7, <1>8, <1>9

LEMMA TickWorded ==
    ASSUME IInv, Worded(o), Tick
    PROVE  WordedNext
<1> DEFINE s == IF o.since = Never THEN Never ELSE Min({o.since + 1, LongestInterval(config)})
           w == IF o.wait = 0 THEN 0 ELSE o.wait - 1
           a == Min({o.age + 1, config.delay})
           c == IF env.closed = 0 THEN 0 ELSE env.closed - 1
<1>1. PICK y : y = [o EXCEPT !.since = s, !.wait = w, !.age = a]
  OBVIOUS
<1>2. o' = y /\ config' = config /\ env' = [env EXCEPT !.closed = c]
  BY <1>1 DEF Tick
<1> HIDE DEF s, w, a, c
<1>3. Kept(y, o) /\ y.current_state = o.current_state
  BY <1>1, GivenIs DEF Shaped, Names, Kept, SameState, SameWord
<1>4. Worded(y)
  BY <1>3, KeptWorded
<1>5. /\ env'.enabled = env.enabled /\ env'.dependencies = env.dependencies
      /\ env'.host_up = env.host_up /\ env'.muted = env.muted /\ env'.resting = env.resting
  BY <1>2 DEF IInv, EnvOk, EnvNames
<1>6. Worded(o)'
  BY <1>2, <1>4, <1>5, NextWorded
<1> QED BY <1>2, <1>3, <1>6 DEF WordedNext

LEMMA ServiceOfHostWorded ==
    ASSUME AllEscalate, IInv, Worded(o), NEW update \in BOOLEAN, ServiceOfHost(update)
    PROVE  WordedNext
<1>1. PICK r : r = IF IsOk(o) THEN o ELSE Notify(o, "NORMAL", None)
  OBVIOUS
<1>2. PICK y : y = CheckHostFlapping(r, update, TRUE)
  OBVIOUS
<1>3. o' = y /\ config' = config /\ env' = env /\ ~IsService
  BY <1>1, <1>2 DEF ServiceOfHost
<1>4. Sound(r, spent) /\ SameState(r, o) /\ Worded(r)
  <2>1. CASE IsOk(o)
    <3>1. r = o
      BY <1>1, <2>1
    <3> QED BY <3>1, GivenIs DEF SameState
  <2>2. CASE ~IsOk(o)
    <3>1. r = Notify(o, "NORMAL", None)
      BY <1>1, <2>2
    <3>2. Good(o) /\ Given0 /\ Sound(o, spent)
      BY GivenIs DEF Sound
    <3>3. Sound(r, spent) /\ SameState(r, o)
      BY <3>1, <3>2, NotifySound, NotifyState
    <3>4. Promised(r) /\ (~Settled(r) => ~Settled(o) \/ o.state_type = "HARD")
      BY <2>2, <3>1, <3>2, NotifyWord DEF Worded
    <3>5. ~IsOk(r)
      BY <2>2, <3>3 DEF SameState, IsOk
    <3>6. HardOk(r)
      BY <2>2, <3>3, <3>5 DEF HardOk, SameState, Worded
    <3>7. Waits(r)
      BY <1>3, <2>2, <3>3, <3>4, <3>5 DEF Waits, SameState, Worded
    <3> QED BY <3>3, <3>4, <3>6, <3>7 DEF Worded
  <2> QED BY <2>1, <2>2
<1>5. Worded(y) /\ SameState(y, r)
  BY <1>2, <1>4, GivenIs, CheckedWorded
<1>6. Worded(o)'
  BY <1>3, <1>5, NextWorded
<1> QED BY <1>3, <1>4, <1>5, <1>6 DEF WordedNext, SameState

\* A result: the state may change, and a recovery disturbs nothing but by flapping.
LEMMA ResultWorded ==
    ASSUME AllEscalate, IInv, "RECOVERY" \in config.notify_on, Worded(o),
           NEW outcome \in State, Result(outcome)
    PROVE  Worded(o)' /\ (IsOk(o') => (o.calm => o'.calm \/ o'.is_flapping))
<1>1. PICK r : r = IF IsService THEN ServiceResult(o, outcome) ELSE HostResult(o, outcome)
  OBVIOUS
<1>2. PICK y : y = AtRest(r)
  OBVIOUS
<1>3. o' = y /\ config' = config /\ env' = env
  BY <1>1, <1>2 DEF Result
<1>4. Worded(r) /\ (IsOk(r) => (o.calm => r.calm \/ r.is_flapping)) /\ Shaped(r)
  <2>1. CASE IsService
    <3>1. r = ServiceResult(o, outcome)
      BY <1>1, <2>1
    <3>2. Sound(r, spent)
      BY <2>1, <3>1, GivenIs, ServiceResultOk
    <3> QED BY <2>1, <3>1, <3>2, GivenIs, ServiceResultWord DEF Sound, Good
  <2>2. CASE ~IsService
    <3>1. r = HostResult(o, outcome) /\ outcome \in HostState
      BY <1>1, <2>2 DEF State
    <3>2. Sound(r, spent)
      BY <2>2, <3>1, GivenIs, HostResultOk
    <3> QED BY <2>2, <3>1, <3>2, GivenIs, HostResultWord DEF Sound, Good
  <2> QED BY <2>1, <2>2
<1>5. /\ SameWord(y, r) /\ y.current_state = r.current_state /\ y.state_type = r.state_type
      /\ y.current_attempt = r.current_attempt /\ y.max_attempts = r.max_attempts
      /\ y.last_hard_state = r.last_hard_state
      /\ y.host_problem_at_last_check = r.host_problem_at_last_check
  <2> DEFINE s == r.current_state
  <2>1. y = [r EXCEPT !.last_state = s]
    BY <1>2 DEF AtRest
  <2> HIDE DEF s
  <2> QED BY <1>4, <2>1 DEF Shaped, Names, SameWord
<1>6. Promised(y) /\ (Settled(r) <=> Settled(y)) /\ (IsOk(y) <=> IsOk(r))
  BY <1>4, <1>5, WordSame DEF Worded, IsOk
<1>7. Worded(y)
  BY <1>4, <1>5, <1>6 DEF Worded, HardOk, Waits
<1>8. Worded(o)'
  BY <1>3, <1>7, NextWorded
<1> QED BY <1>3, <1>4, <1>5, <1>6, <1>8 DEF SameWord

RecoveryInv == "RECOVERY" \in config.notify_on => Worded(o)

\* Every step keeps the word, and only a result changes the state.
LEMMA RecoveryStep ==
    ASSUME AllEscalate, IInv, RecoveryInv, [Next]_vars
    PROVE  /\ RecoveryInv'
           /\ "RECOVERY" \in config.notify_on /\ ~IsOk(o) /\ IsOk(o') =>
                Settled(o)' /\ (o.calm => o'.calm \/ o'.is_flapping)
<1>1. config' = config
  <2>1. CASE UNCHANGED vars
    BY <2>1 DEF vars
  <2>2. CASE Next
    BY Zenon, <2>2 DEF Next, Result, ServiceOfHost, Tick, Command, Restart, Acknowledge, Change,
                       Surround, RemoveAcknowledgement, SendCustom, SetNumber, Delay,
                       SwitchNotifications, StartDowntime, EndDowntime, EnableFlapDetection,
                       DisableFlapDetection, EnableFlapping, DisableFlapping,
                       SwitchAllNotifications, PeriodCloses, HostChanges, HostDowntimeChanges,
                       DependencyChanges, VetoChanges, ContactChanges, EscalationChanges
  <2> QED BY <2>1, <2>2
<1>2. CASE "RECOVERY" \notin config.notify_on
  BY <1>1, <1>2 DEF RecoveryInv
<1>3. CASE "RECOVERY" \in config.notify_on
  <2>1. Worded(o)
    BY <1>3 DEF RecoveryInv
  <2>2. CASE \E outcome \in State : Result(outcome)
    <3>1. Worded(o)' /\ (IsOk(o') => (o.calm => o'.calm \/ o'.is_flapping))
      BY <1>3, <2>1, <2>2, ResultWorded
    <3>2. IsOk(o') => Settled(o)'
      BY <3>1 DEF Worded, Waits, IsOk
    <3> QED BY <3>1, <3>2 DEF RecoveryInv
  <2>3. CASE WordedNext
    <3>1. IsOk(o') <=> IsOk(o)
      BY <2>3 DEF WordedNext, IsOk
    <3> QED BY <2>3, <3>1 DEF WordedNext, RecoveryInv
  <2>4. CASE UNCHANGED vars
    <3>1. o' = o /\ env' = env
      BY <2>4 DEF vars
    <3>2. PICK x : x = o
      OBVIOUS
    <3>3. Worded(o)'
      BY <1>1, <2>1, <3>1, <3>2, NextWorded
    <3> QED BY <2>3, <3>1, <3>3 DEF WordedNext
  <2>5. CASE \E update \in BOOLEAN : ServiceOfHost(update)
    BY <2>1, <2>3, <2>5, ServiceOfHostWorded
  <2>6. CASE Tick
    BY <2>1, <2>3, <2>6, TickWorded
  <2>7. CASE Command
    BY <2>1, <2>3, <2>7, CommandWorded
  <2> QED BY <2>2, <2>4, <2>5, <2>6, <2>7 DEF Next
<1> QED BY <1>2, <1>3

\* Whoever got the last notification of a hard problem, and wants to know, gets the
\* one of its end, whatever escalations take part and however many are told, over
\* restarts too, unless a command or flapping came between: if the escalations are
\* valid for every state, that of the recovery among them.
THEOREM RecoveryAlwaysReaches ==
    ASSUME AllEscalate
    PROVE  Spec => RecoveryReachesNotified
<1>1. Init => RecoveryInv
  <2> SUFFICES ASSUME Init PROVE Worded(o)
    BY DEF RecoveryInv
  <2>1. IsOk(o) /\ Settled(o) /\ ~o.is_flapping
    BY DEF Init, IsOk, Fine, Settled
  <2> QED BY <2>1 DEF Worded, HardOk, Waits, Promised
<1>2. IInv /\ RecoveryInv /\ [Next]_vars => RecoveryInv'
  BY RecoveryStep
<1>3. IInv /\ RecoveryInv /\ [Next]_vars =>
        [~IsOk(o) /\ o.state_type = "HARD" /\ IsOk(o') /\ o.phase = "problem" /\ o.calm
         /\ ~o.is_flapping /\ ~o'.is_flapping /\ "RECOVERY" \in config.notify_on
           => o'.due = {}]_vars
  <2> SUFFICES ASSUME IInv, RecoveryInv, [Next]_vars, ~IsOk(o), IsOk(o'), o.calm,
                      ~o'.is_flapping, "RECOVERY" \in config.notify_on
               PROVE  o'.due = {}
    OBVIOUS
  <2>1. Settled(o)' /\ (o.calm => o'.calm \/ o'.is_flapping)
    BY RecoveryStep
  <2> QED BY <2>1 DEF Settled
<1> QED BY <1>1, <1>2, <1>3, Inductive, PTL DEF Spec, RecoveryReachesNotified

---------------------------------------------------------------------------------
(* Recoveries are told once *)

\* A change recorded in the place of the oldest record weighs no less than it did:
\* every change but the oldest moves down by one place, and the new one has the
\* highest.
LEMMA WeighsMore ==
    ASSUME NEW C \in SUBSET (1 .. MAX_STATE_HISTORY_ENTRIES - 1),
           NEW D, D = {x - 1 : x \in C \ {1}} \cup {MAX_STATE_HISTORY_ENTRIES - 1}
    PROVE  /\ Cardinality(C) \in Nat /\ Cardinality(D) \in Nat
           /\ Cardinality(Before(C)) \in Nat /\ Cardinality(Before(D)) \in Nat
           /\ Cardinality(C) <= Cardinality(D)
           /\ Cardinality(Before(C)) <= Cardinality(Before(D))
<1> DEFINE N == MAX_STATE_HISTORY_ENTRIES
           P == 1 .. N - 1
<1>1. N \in Nat /\ N > 2
  BY HistoryAssumption
<1>2. C \in SUBSET P /\ D \in SUBSET P
  BY <1>1
<1>3. IsFiniteSet(P)
  <2>1. 1 \in Int /\ N - 1 \in Int
    BY <1>1
  <2> QED BY ONLY <2>1, FS_Interval
<1>4. IsFiniteSet(C) /\ IsFiniteSet(D)
  BY <1>2, <1>3, FS_Subset
<1>5. IsFiniteSet(Before(C)) /\ IsFiniteSet(Before(D))
  <2>1. IsFiniteSet(C \X P) /\ IsFiniteSet(D \X P)
    BY ONLY <1>3, <1>4, FS_Product
  <2>2. Before(C) \in SUBSET (C \X P) /\ Before(D) \in SUBSET (D \X P)
    BY DEF Before
  <2> QED BY ONLY <2>1, <2>2, FS_Subset
<1>6. Cardinality(C) <= Cardinality(D)
  <2> DEFINE f == [x \in C |-> IF x = 1 THEN N - 1 ELSE x - 1]
  <2>1. f \in [C -> D]
    BY <1>1, <1>2
  <2>2. \A x, y \in C : f[x] = f[y] => x = y
    BY <1>1, <1>2
  <2> HIDE DEF f
  <2>3. f \in Injection(C, D)
    BY <2>1, <2>2 DEF Injection, IsInjective
  <2> QED BY ONLY <1>4, <2>3, FS_Injection
<1>7. Cardinality(Before(C)) <= Cardinality(Before(D))
  <2> DEFINE g == [p \in Before(C) |-> IF p[2] = 1 THEN <<N - 1, p[1] - 1>>
                                                   ELSE <<p[1] - 1, p[2] - 1>>]
  <2>1. \A p \in Before(C) : /\ p[1] \in C /\ p[2] \in P /\ p[1] \in P /\ p[2] < p[1]
                             /\ p = <<p[1], p[2]>>
    <3> TAKE p \in Before(C)
    <3>1. p \in C \X P /\ p[2] < p[1]
      BY DEF Before
    <3>2. p[1] \in C /\ p[2] \in P /\ p = <<p[1], p[2]>>
      BY ONLY <3>1
    <3> QED BY <1>2, <3>1, <3>2
  <2>2. ASSUME NEW p \in Before(C) PROVE g[p] \in Before(D)
    <3>1. \A u \in D, v \in P : v < u => <<u, v>> \in Before(D)
      BY DEF Before
    <3>2. /\ p[1] \in C /\ p[1] \in Int /\ 1 < p[1] /\ p[1] <= N - 1
          /\ p[2] \in Int /\ 1 <= p[2] /\ p[2] < p[1]
      BY <1>1, <2>1
    <3>3. N - 1 \in D /\ p[1] - 1 \in D
      BY <1>1, <3>2
    <3>4. CASE p[2] = 1
      <4>1. g[p] = <<N - 1, p[1] - 1>>
        BY <3>4
      <4>2. p[1] - 1 \in P /\ p[1] - 1 < N - 1
        BY <1>1, <3>2
      <4> QED BY <3>1, <3>3, <4>1, <4>2
    <3>5. CASE p[2] # 1
      <4>1. g[p] = <<p[1] - 1, p[2] - 1>>
        BY <3>5
      <4>2. p[2] - 1 \in P /\ p[2] - 1 < p[1] - 1
        BY <1>1, <3>2, <3>5
      <4> QED BY <3>1, <3>3, <4>1, <4>2
    <3> QED BY <3>4, <3>5
  <2>3. ASSUME NEW p \in Before(C), NEW q \in Before(C), g[p] = g[q] PROVE p = q
    <3>1. /\ p[1] \in Int /\ p[2] \in Int /\ p[1] <= N - 1 /\ p = <<p[1], p[2]>>
          /\ q[1] \in Int /\ q[2] \in Int /\ q[1] <= N - 1 /\ q = <<q[1], q[2]>>
      BY <1>1, <2>1
    <3>2. p[1] = q[1] /\ p[2] = q[2]
      <4>1. /\ g[p] = IF p[2] = 1 THEN <<N - 1, p[1] - 1>> ELSE <<p[1] - 1, p[2] - 1>>
            /\ g[q] = IF q[2] = 1 THEN <<N - 1, q[1] - 1>> ELSE <<q[1] - 1, q[2] - 1>>
        OBVIOUS
      <4> QED BY <1>1, <2>3, <3>1, <4>1
    <3> QED BY <3>1, <3>2
  <2>4. g \in [Before(C) -> Before(D)]
    BY <2>2
  <2> HIDE DEF g
  <2>5. g \in Injection(Before(C), Before(D))
    BY <2>3, <2>4 DEF Injection, IsInjective
  <2> QED BY ONLY <1>5, <2>5, FS_Injection
<1>8. /\ Cardinality(C) \in Nat /\ Cardinality(D) \in Nat
      /\ Cardinality(Before(C)) \in Nat /\ Cardinality(Before(D)) \in Nat
  BY ONLY <1>4, <1>5, FS_CardinalityType
<1> QED BY <1>6, <1>7, <1>8

LEMMA ProductsGrow ==
    ASSUME NEW k \in Nat, NEW a \in Nat, NEW b \in Nat, a <= b
    PROVE  k * a \in Nat /\ k * b \in Nat /\ k * a <= k * b
<1>1. PICK d \in Nat : b = a + d
  <2>1. b - a \in Nat /\ b = a + (b - a)
    OBVIOUS
  <2> QED BY <2>1
<1>2. k * b = k * a + k * d
  BY <1>1
<1>3. k * a \in Nat /\ k * d \in Nat
  OBVIOUS
<1> QED BY <1>2, <1>3

LEMMA CurvedMore ==
    ASSUME NEW S, NEW h \in [1 .. MAX_STATE_HISTORY_ENTRIES -> S], NEW s \in S,
           s # h[MAX_STATE_HISTORY_ENTRIES], NEW r, r = Append(Tail(h), s)
    PROVE  Curved(h) \in Nat /\ Curved(r) \in Nat /\ Curved(h) <= Curved(r)
<1> DEFINE N == MAX_STATE_HISTORY_ENTRIES
           C == Changed(h)
           D == Changed(r)
<1>1. N \in Nat /\ N > 2
  BY HistoryAssumption
<1>2. \A i \in 1 .. N : r[i] = IF i = N THEN s ELSE h[i + 1]
  <2>1. h \in Seq(S) /\ Len(h) = N
    BY <1>1
  <2>2. /\ Tail(h) \in Seq(S) /\ Len(Tail(h)) = N - 1
        /\ \A i \in 1 .. N - 1 : Tail(h)[i] = h[i + 1]
    BY <1>1, <2>1
  <2> QED BY <1>1, <2>2
<1>3. D = {x - 1 : x \in C \ {1}} \cup {N - 1}
  <2>1. \A i \in 1 .. N - 1 : i \in D <=> i = N - 1 \/ i + 1 \in C
    <3> TAKE i \in 1 .. N - 1
    <3>1. i \in D <=> r[i] # r[i + 1]
      BY DEF Changed
    <3>2. r[i] = h[i + 1] /\ r[i + 1] = IF i = N - 1 THEN s ELSE h[i + 2]
      BY <1>1, <1>2
    <3>3. i + 1 \in C <=> i # N - 1 /\ h[i + 1] # h[i + 2]
      BY <1>1 DEF Changed
    <3>4. i = N - 1 => h[i + 1] = h[N]
      BY <1>1
    <3> QED BY <3>1, <3>2, <3>3, <3>4
  <2>2. D \in SUBSET (1 .. N - 1) /\ C \in SUBSET (1 .. N - 1)
    BY DEF Changed
  <2> HIDE DEF C, D
  <2>3. \A i \in 1 .. N - 1 : i \in {x - 1 : x \in C \ {1}} <=> i + 1 \in C
    <3> TAKE i \in 1 .. N - 1
    <3>1. ASSUME i + 1 \in C PROVE i \in {x - 1 : x \in C \ {1}}
      <4>1. i + 1 \in C \ {1} /\ i = (i + 1) - 1
        BY <1>1, <3>1
      <4> QED BY <4>1
    <3>2. ASSUME NEW x \in C \ {1}, i = x - 1 PROVE i + 1 \in C
      BY <2>2, <3>2
    <3> QED BY <3>1, <3>2
  <2>4. {x - 1 : x \in C \ {1}} \in SUBSET (1 .. N - 1) /\ N - 1 \in 1 .. N - 1
    BY <1>1, <2>2
  <2> QED BY <2>1, <2>2, <2>3, <2>4
<1>4. C \in SUBSET (1 .. N - 1)
  BY DEF Changed
<1> DEFINE k == 75 * (N - 2)
           c == Cardinality(C)
           d == Cardinality(D)
           u == Cardinality(Before(C))
           v == Cardinality(Before(D))
<1>5. k \in Nat
  BY <1>1
<1>6. Curved(h) = 100 * (50 * u + k * c) /\ Curved(r) = 100 * (50 * v + k * d)
  BY DEF Curved
<1> HIDE DEF C, D
<1>7. c \in Nat /\ d \in Nat /\ u \in Nat /\ v \in Nat /\ c <= d /\ u <= v
  BY <1>3, <1>4, WeighsMore
<1> HIDE DEF k, c, d, u, v
<1>8. k * c \in Nat /\ k * d \in Nat /\ k * c <= k * d
  BY <1>5, <1>7, ProductsGrow
<1> QED BY <1>6, <1>7, <1>8

\* The weight of a history is a number, and it is what the table says.
LEMMA PercentIs ==
    ASSUME NEW h \in [1 .. MAX_STATE_HISTORY_ENTRIES -> State]
    PROVE  Curved(h) \in Nat /\ PercentStateChange[h] = Curved(h)
<1> DEFINE N == MAX_STATE_HISTORY_ENTRIES
           C == Changed(h)
           D == {x - 1 : x \in C \ {1}} \cup {N - 1}
<1>1. N \in Nat /\ N > 2
  BY HistoryAssumption
<1>2. C \in SUBSET (1 .. N - 1)
  BY DEF Changed
<1> DEFINE k == 75 * (N - 2)
           c == Cardinality(C)
           u == Cardinality(Before(C))
<1>3. k \in Nat
  BY <1>1
<1>4. Curved(h) = 100 * (50 * u + k * c)
  BY DEF Curved
<1>5. c \in Nat /\ u \in Nat
  <2> HIDE DEF C
  <2>1. PICK d : d = D
    OBVIOUS
  <2> QED BY <1>2, <2>1, WeighsMore
<1> HIDE DEF C, k, c, u
<1>6. Curved(h) \in Nat
  <2>1. k * c \in Nat
    BY <1>3, <1>5
  <2> QED BY <1>4, <1>5, <2>1
<1>7. PercentStateChange[h] = Curved(h)
  BY Zenon DEF PercentStateChange, State
<1> QED BY <1>6, <1>7

LEMMA TimesMore ==
    ASSUME NEW a \in Nat, NEW b \in Nat, a < b, NEW k \in Nat, k > 0
    PROVE  a * k \in Nat /\ b * k \in Nat /\ a * k < b * k
<1>1. PICK d \in Nat : b = a + 1 + d
  <2>1. b - a - 1 \in Nat /\ b = a + 1 + (b - a - 1)
    OBVIOUS
  <2> QED BY <2>1
<1>2. b * k = a * k + k + d * k
  BY <1>1
<1>3. a * k \in Nat /\ d * k \in Nat
  OBVIOUS
<1> QED BY <1>2, <1>3

\* What is above the high threshold is not below the low one.
LEMMA ThresholdsApart ==
    ASSUME NEW p \in Nat, p >= Scaled(HighThreshold)
    PROVE  ~(p <= Scaled(LowThreshold))
<1> DEFINE l == LowThreshold
           h == HighThreshold
           a == MAX_STATE_HISTORY_ENTRIES - 2
           b == MAX_STATE_HISTORY_ENTRIES - 1
<1>1. l \in Nat /\ h \in Nat /\ l < h /\ a \in Nat /\ a > 0 /\ b \in Nat /\ b > 0
  BY HistoryAssumption, ThresholdAssumption
<1>2. Scaled(h) = ((h * 100) * a) * b /\ Scaled(l) = ((l * 100) * a) * b
  BY DEF Scaled
<1> HIDE DEF l, h, a, b
<1>3. l * 100 \in Nat /\ h * 100 \in Nat /\ l * 100 < h * 100
  BY <1>1
<1> DEFINE l1 == l * 100
           h1 == h * 100
<1>4. l1 \in Nat /\ h1 \in Nat /\ l1 < h1
  BY <1>3
<1>5. Scaled(h) = (h1 * a) * b /\ Scaled(l) = (l1 * a) * b
  BY <1>2
<1> HIDE DEF l1, h1
<1>6. l1 * a \in Nat /\ h1 * a \in Nat /\ l1 * a < h1 * a
  BY <1>1, <1>4, TimesMore
<1> DEFINE l2 == l1 * a
           h2 == h1 * a
<1>7. l2 \in Nat /\ h2 \in Nat /\ l2 < h2
  BY <1>6
<1>8. Scaled(h) = h2 * b /\ Scaled(l) = l2 * b
  BY <1>5
<1> HIDE DEF l2, h2
<1>9. l2 * b \in Nat /\ h2 * b \in Nat /\ l2 * b < h2 * b
  BY <1>1, <1>7, TimesMore
<1>10. Scaled(h) \in Nat /\ Scaled(l) \in Nat /\ Scaled(l) < Scaled(h)
  BY <1>8, <1>9
<1> QED BY <1>10 DEF l, h

\* What the configurations have to be like for it: where flap detection looks at
\* the OK of a service, it looks at its problems too.
FlapsAreSeen ==
    \A c \in Configs : c.kind = "service" /\ "OK" \in c.flap_on =>
        c.outcomes \ {"OK"} \subseteq c.flap_on

\* No end was told twice, and a problem that was told of has not ended.
ToldOnce(x) == x.phase # "again" /\ (x.notified_on # {} => x.phase = "problem")

\* Nothing is left to tell when flapping stops.
Quiet(x) == ~IsOk(x) \/ x.notified_on = {}

\* Flapping does not stop before the state changes.
Watching(x) == x.enable_flap_detection /\ x.flap_detection_enabled
Low(x) == PercentStateChange[x.state_history] <= Scaled(LowThreshold)
Restless(x) == x.is_flapping => Watching(x) /\ ~Low(x)

\* The last state recorded is one of the problem that was told of.
Marked(x) ==
    ~IsOk(x) /\ x.notified_on # {} =>
        /\ x.state_type = "HARD" /\ x.current_attempt = x.max_attempts
        /\ "OK" \in config.flap_on => x.state_history[MAX_STATE_HISTORY_ENTRIES] # "OK"

Once(x) ==
    /\ ToldOnce(x) /\ (IsOk(x) => x.notified_on = {})
    /\ IsService => Restless(x) /\ Marked(x)

\* What is told, what is recorded, and flapping.
SameOnce(y, x) == y.phase = x.phase /\ y.notified_on = x.notified_on
Unmoved(y, x) ==
    /\ SameOnce(y, x) /\ y.state_history = x.state_history /\ y.is_flapping = x.is_flapping
    /\ y.enable_flap_detection = x.enable_flap_detection
    /\ y.flap_detection_enabled = x.flap_detection_enabled

LEMMA UnmovedAs ==
    ASSUME NEW x, NEW y, Unmoved(y, x)
    PROVE  (ToldOnce(x) => ToldOnce(y)) /\ (Restless(x) => Restless(y))
BY DEF Unmoved, SameOnce, ToldOnce, Restless, Watching, Low

LEMMA SteadyUnmoved ==
    ASSUME NEW x, NEW y, Steady(y, x), SameFlap(y, x), SameOnce(y, x)
    PROVE  Unmoved(y, x)
BY DEF Steady, SameFlap, SameSwitch, SameHistory, Unmoved

LEMMA RestatedUnmoved ==
    ASSUME NEW x, NEW y, Restated(y, x)
    PROVE  Unmoved(y, x)
BY DEF Restated, SameTold, SamePhase, SameFlap, SameSwitch, SameOnce, Unmoved

LEMMA UnmovedTwice ==
    ASSUME NEW x, NEW y, NEW z, Unmoved(y, x), Unmoved(z, y)
    PROVE  Unmoved(z, x)
BY DEF Unmoved, SameOnce

\* A notification: only one of a recovery that is told ends the problem that was.
LEMMA NotifyOnce ==
    ASSUME Given0, NEW x, Good(x), NEW type, NEW options, type = "NORMAL" => options = None,
           NEW y, y = Notify(x, type, options)
    PROVE  /\ type # "NORMAL" \/ (IsOk(x) /\ x.notified_on = {}) => SameOnce(y, x)
           /\ ToldOnce(x) => y.phase # "again"
           /\ ToldOnce(x) /\ ~IsOk(x) => ToldOnce(y)
<1> DEFINE counts == type = "NORMAL" \/ "INCREMENT" \in options
           p == IF counts THEN CountedUp(x) ELSE x
           to == Recipients(p, type, options)
<1>1. Shaped(x) /\ (SameOnce(y, x) => (ToldOnce(x) => ToldOnce(y) /\ y.phase # "again"))
  BY DEF Good, SameOnce, ToldOnce
<1>2. Steady(p, x) /\ SamePhase(p, x) /\ p.notified_on = x.notified_on /\ Shaped(p)
  <2>1. counts \in BOOLEAN
    OBVIOUS
  <2> HIDE DEF counts
  <2> QED BY <1>1, <2>1, SentIs DEF Steady
<1>3. CASE ~Viable(x, type, options)
  <2>1. y = Deferred(x, type)
    BY <1>3 DEF Notify
  <2>2. SameOnce(y, x)
    <3>1. CASE type = "NORMAL" /\ env.enabled /\ env.closed > 0
      <4>1. y = [x EXCEPT !.wait = env.closed]
        BY <2>1, <3>1 DEF Deferred
      <4> QED BY <1>1, <4>1 DEF Shaped, Names, SameOnce
    <3>2. CASE ~(type = "NORMAL" /\ env.enabled /\ env.closed > 0)
      <4>1. y = x
        BY <2>1, <3>2 DEF Deferred
      <4> QED BY <4>1 DEF SameOnce
    <3> QED BY <3>1, <3>2
  <2> QED BY <1>1, <2>2
<1>4. CASE Viable(x, type, options) /\ env.veto
  <2>1. y = [p EXCEPT !.tampered = TRUE]
    BY <1>4 DEF Notify
  <2> HIDE DEF p, to, counts
  <2>2. SameOnce(y, x)
    BY <1>2, <2>1 DEF Shaped, Names, SamePhase, SameOnce
  <2> QED BY <1>1, <2>2
<1>5. CASE Viable(x, type, options) /\ ~env.veto /\ to = {}
  <2>1. y = x
    BY <1>5 DEF Notify
  <2> HIDE DEF p, to, counts
  <2> QED BY <1>1, <2>1 DEF SameOnce
<1>6. CASE Viable(x, type, options) /\ ~env.veto /\ to # {} /\ type = "NORMAL"
  <2>1. y = Delivered(p, to)
    BY <1>6 DEF Notify
  <2>2. IsOk(x) => x.notified_on # {}
    <3>1. options = None
      BY <1>6
    <3> HIDE DEF p, to, counts
    <3> QED BY <1>6, <3>1 DEF Viable, None, ServiceFilters, HostFilters, NormalFilters,
                              Flapping, InDowntime
  <2> HIDE DEF p, to, counts
  <2>3. DeliveredAs(y, p, to)
    BY <1>2, <2>1, DeliveredIs
  <2>4. (IsOk(p) <=> IsOk(x)) /\ p.phase = x.phase
    BY <1>2 DEF Steady, SameState, IsOk, SamePhase
  <2>5. CASE IsOk(x)
    <3>1. y.phase = IF x.phase = "problem" THEN "recovered" ELSE "again"
      BY <2>3, <2>4, <2>5 DEF DeliveredAs
    <3> QED BY <1>6, <2>2, <2>5, <3>1 DEF ToldOnce
  <2>6. CASE ~IsOk(x)
    <3>1. y.phase = "problem"
      BY <2>3, <2>4, <2>6 DEF DeliveredAs
    <3> QED BY <1>6, <2>6, <3>1 DEF ToldOnce
  <2> QED BY <2>5, <2>6
<1>7. CASE Viable(x, type, options) /\ ~env.veto /\ to # {} /\ type # "NORMAL"
  <2>1. y = [p EXCEPT !.tampered = @ \/ counts, !.calm = @ /\ ~counts]
    BY <1>7 DEF Notify
  <2> HIDE DEF p, to, counts
  <2> DEFINE m == p.tampered \/ counts
             c == p.calm /\ ~counts
  <2>2. y = [p EXCEPT !.tampered = m, !.calm = c]
    BY <2>1
  <2> HIDE DEF m, c
  <2>3. SameOnce(y, x)
    BY <1>2, <2>2 DEF Shaped, Names, SamePhase, SameOnce
  <2> QED BY <1>1, <2>3
<1> QED BY <1>3, <1>4, <1>5, <1>6, <1>7

\* Flapping begins, and nothing is told of the problem.
LEMMA SetFlapOnce ==
    ASSUME Given0, NEW n \in Nat, NEW x, Sound(x, n), ~x.is_flapping, NEW announce \in BOOLEAN,
           NEW y, y = SetFlap(x, announce)
    PROVE  Steady(y, x) /\ SameOnce(y, x)
<1> DEFINE k == x.comments + 1
           s == ~IsOk(x) /\ x.number > 0
           f == [x EXCEPT !.is_flapping = TRUE, !.linked = TRUE, !.comments = k,
                          !.check_flapping_recovery = s, !.calm = FALSE]
<1>1. y = IF announce THEN Notify(f, "FLAPPINGSTART", None) ELSE f
  BY DEF SetFlap
<1>2. f = SetFlap(x, FALSE)
  BY DEF SetFlap
<1>3. Shaped(x)
  BY DEF Sound, Good
<1> HIDE DEF k, s
<1>4. Steady(f, x) /\ SameOnce(f, x)
  BY <1>3 DEF Shaped, Names, Steady, SameState, SameAck, SameSwitch, SameHistory, SameOnce
<1> HIDE DEF f
<1>5. Good(f)
  BY <1>2, SetFlapOk DEF Sound
<1>6. CASE announce
  <2>1. y = Notify(f, "FLAPPINGSTART", None)
    BY <1>1, <1>6
  <2>2. Steady(y, f) /\ SameOnce(y, f)
    BY <1>5, <2>1, NotifyOk, NotifyOnce
  <2> QED BY <1>4, <2>2 DEF Steady, SameState, SameAck, SameSwitch, SameHistory, SameOnce
<1>7. CASE ~announce
  BY <1>1, <1>4, <1>7
<1> QED BY <1>6, <1>7

\* Flapping stops while there is nothing left to tell.
LEMMA FlapRecoveryOnce ==
    ASSUME Given0, NEW n \in Nat, NEW x, Sound(x, n), Quiet(x), NEW y, y = FlapRecovery(x)
    PROVE  Steady(y, x) /\ SameOnce(y, x) /\ y.is_flapping = x.is_flapping
<1>1. PICK r : r = IF x.check_flapping_recovery /\ IsOk(x) THEN Notify(x, "NORMAL", None) ELSE x
  OBVIOUS
<1>2. y = [r EXCEPT !.check_flapping_recovery = FALSE]
  BY Zenon, <1>1 DEF FlapRecovery
<1>3. Steady(r, x) /\ SameOnce(r, x) /\ r.is_flapping = x.is_flapping
  <2>1. Good(x) /\ Shaped(x)
    BY DEF Sound, Good
  <2>2. CASE x.check_flapping_recovery /\ IsOk(x)
    <3>1. r = Notify(x, "NORMAL", None)
      BY <1>1, <2>2
    <3>2. Steady(r, x) /\ SameFlap(r, x) /\ SameOnce(r, x)
      BY <2>1, <2>2, <3>1, NotifyOk, NotifyOnce DEF Quiet
    <3> QED BY <3>2 DEF SameFlap
  <2>3. CASE ~(x.check_flapping_recovery /\ IsOk(x))
    <3>1. r = x
      BY <1>1, <2>3
    <3> QED BY <2>1, <3>1 DEF Steady, SameState, SameAck, SameSwitch, SameHistory, SameOnce
  <2> QED BY <2>2, <2>3
<1>4. Shaped(r)
  BY <1>3 DEF Steady
<1>5. Steady(y, r) /\ SameOnce(y, r) /\ y.is_flapping = r.is_flapping
  BY <1>2, <1>4 DEF Shaped, Names, Steady, SameState, SameAck, SameSwitch, SameHistory, SameOnce
<1> QED BY <1>3, <1>5 DEF Steady, SameState, SameAck, SameSwitch, SameHistory, SameOnce

LEMMA StoppedOnce ==
    ASSUME Given0, NEW n \in Nat, NEW x, Sound(x, n), Quiet(x), x.is_flapping,
           NEW type \in {"FLAPPINGSTOP", "FLAPPINGDISABLED"},
           NEW y, y = FlapRecovery(Notify([Uncommented(x) EXCEPT !.is_flapping = FALSE], type, None))
    PROVE  Steady(y, x) /\ SameOnce(y, x) /\ y.is_flapping = FALSE
<1>1. PICK c : c = [Uncommented(x) EXCEPT !.is_flapping = FALSE]
  OBVIOUS
<1>2. Sound(c, n) /\ Steady(c, x) /\ SameOnce(c, x) /\ c.is_flapping = FALSE
  <2>1. Sound(c, n) /\ c.is_flapping = FALSE /\ Steady(c, x) /\ SameTold(c, x) /\ SamePhase(c, x)
    BY <1>1, UncommentedOk
  <2> QED BY <2>1 DEF SameTold, SamePhase, SameOnce
<1>3. PICK m : m = Notify(c, type, None)
  OBVIOUS
<1>4. Good(c)
  BY <1>2 DEF Sound
<1>5. Sound(m, n) /\ Steady(m, c) /\ SameFlap(m, c) /\ SameOnce(m, c)
  BY <1>2, <1>3, <1>4, NotifySound, NotifyOk, NotifyOnce
<1>6. Quiet(m)
  BY <1>2, <1>5 DEF Quiet, IsOk, Steady, SameState, SameOnce
<1>7. y = FlapRecovery(m)
  BY <1>1, <1>3
<1>8. Steady(y, m) /\ SameOnce(y, m) /\ y.is_flapping = m.is_flapping
  BY <1>5, <1>6, <1>7, FlapRecoveryOnce
<1> QED BY <1>2, <1>5, <1>8
        DEF Steady, SameState, SameAck, SameSwitch, SameHistory, SameFlap, SameOnce

\* The decision about flapping, with its reasons.
LEMMA JudgedAs ==
    ASSUME NEW x, NEW announce, NEW y, y = JudgeFlapping(x, announce)
    PROVE  \/ y = x /\ (x.is_flapping /\ Watching(x) => ~Low(x))
           \/ /\ y = SetFlap(x, announce) /\ ~x.is_flapping /\ Watching(x)
              /\ PercentStateChange[x.state_history] >= Scaled(HighThreshold)
           \/ y = ClearFlap(x) /\ x.is_flapping /\ Watching(x) /\ Low(x)
<1> DEFINE A == ~x.enable_flap_detection \/ ~x.flap_detection_enabled
           B == PercentStateChange[x.state_history] >= Scaled(HighThreshold)
           C == PercentStateChange[x.state_history] <= Scaled(LowThreshold)
           D == x.enable_flap_detection /\ x.flap_detection_enabled
<1>1. y = CASE A -> x [] D /\ B /\ ~x.is_flapping -> SetFlap(x, announce)
            [] D /\ C /\ x.is_flapping -> ClearFlap(x) [] OTHER -> x
  BY DEF JudgeFlapping
<1>2. (Low(x) <=> C) /\ (Watching(x) <=> ~A) /\ (D <=> ~A)
  BY DEF Low, Watching
<1> HIDE DEF B, C
<1>3. CASE A
  BY <1>1, <1>2, <1>3
<1>4. CASE ~A
  <2>1. y = CASE B /\ ~x.is_flapping -> SetFlap(x, announce)
              [] C /\ x.is_flapping -> ClearFlap(x) [] OTHER -> x
    BY <1>1, <1>4
  <2>2. CASE B /\ ~x.is_flapping
    <3>1. y = SetFlap(x, announce)
      BY <2>1, <2>2
    <3> QED BY <1>2, <1>4, <2>2, <3>1 DEF B
  <2>3. CASE ~(B /\ ~x.is_flapping) /\ C /\ x.is_flapping
    <3>1. y = ClearFlap(x)
      BY <2>1, <2>3
    <3> QED BY <1>2, <1>4, <2>3, <3>1
  <2>4. CASE ~(B /\ ~x.is_flapping) /\ ~(C /\ x.is_flapping)
    <3>1. y = x
      BY <2>1, <2>4
    <3> QED BY <1>2, <2>4, <3>1
  <2> QED BY <2>2, <2>3, <2>4
<1> QED BY <1>3, <1>4

LEMMA JudgeFlappingOnce ==
    ASSUME Given0, NEW n \in Nat, NEW x, Sound(x, n), NEW announce \in BOOLEAN,
           Quiet(x) \/ (x.is_flapping => ~Low(x)),
           NEW y, y = JudgeFlapping(x, announce)
    PROVE  /\ Steady(y, x) /\ SameOnce(y, x)
           /\ (x.is_flapping => Watching(x)) => Restless(y)
<1>1. Shaped(x) /\ x.state_history \in [1 .. MAX_STATE_HISTORY_ENTRIES -> State]
  BY DEF Sound, Good, HistoryOk
<1>2. CASE /\ y = SetFlap(x, announce) /\ ~x.is_flapping /\ Watching(x)
           /\ PercentStateChange[x.state_history] >= Scaled(HighThreshold)
  <2>1. Steady(y, x) /\ SameOnce(y, x)
    BY <1>2, SetFlapOnce
  <2>2. ~Low(x)
    <3>1. PercentStateChange[x.state_history] \in Nat
      BY <1>1, PercentIs
    <3> QED BY <1>2, <3>1, ThresholdsApart DEF Low
  <2>3. Watching(y) /\ ~Low(y)
    BY <1>2, <2>1, <2>2 DEF Steady, SameSwitch, SameHistory, Watching, Low
  <2> QED BY <2>1, <2>3 DEF Restless
<1>3. CASE y = ClearFlap(x) /\ x.is_flapping /\ Watching(x) /\ Low(x)
  <2>1. y = FlapRecovery(Notify([Uncommented(x) EXCEPT !.is_flapping = FALSE], "FLAPPINGSTOP", None))
    BY <1>3 DEF ClearFlap
  <2>2. Steady(y, x) /\ SameOnce(y, x) /\ y.is_flapping = FALSE
    BY <1>3, <2>1, StoppedOnce
  <2> QED BY <2>2 DEF Restless
<1>4. CASE y = x /\ (x.is_flapping /\ Watching(x) => ~Low(x))
  <2>1. Steady(y, x) /\ SameOnce(y, x)
    BY <1>1, <1>4 DEF Steady, SameState, SameAck, SameSwitch, SameHistory, SameOnce
  <2> QED BY <1>4, <2>1 DEF Restless
<1> QED BY <1>2, <1>3, <1>4, JudgedAs

\* The state is recorded if it is one of those that flap detection looks at.
LEMMA RecordedAs ==
    ASSUME NEW n, NEW x, Sound(x, n), NEW y, y = Recorded(x)
    PROVE  /\ Shaped(y) /\ SameState(y, x) /\ SameOnce(y, x) /\ SameSwitch(y, x)
           /\ y.is_flapping = x.is_flapping
           /\ y.state_history[MAX_STATE_HISTORY_ENTRIES] = x.current_state
           /\ x.state_history[MAX_STATE_HISTORY_ENTRIES] # x.current_state /\ ~Low(x) => ~Low(y)
<1> DEFINE N == MAX_STATE_HISTORY_ENTRIES
           h == Append(Tail(x.state_history), x.current_state)
<1>1. y = [x EXCEPT !.state_history = h]
  BY DEF Recorded
<1>2. /\ Shaped(x) /\ x.state_history \in [1 .. N -> State] /\ x.current_state \in State
      /\ N \in Nat /\ N > 2
  BY HistoryAssumption DEF Sound, Good, HistoryOk, StateOk
<1>3. h[N] = x.current_state /\ h \in [1 .. N -> State]
  <2>1. h \in [1 .. N -> State]
    BY <1>2, HistoryIs
  <2>2. x.state_history \in Seq(State) /\ Len(x.state_history) = N
    BY <1>2
  <2>3. Tail(x.state_history) \in Seq(State) /\ Len(Tail(x.state_history)) = N - 1
    BY <1>2, <2>2
  <2>4. h[N] = x.current_state
    BY <1>2, <2>3
  <2> QED BY <2>1, <2>4
<1>4. PICK s : s = h
  OBVIOUS
<1>5. y = [x EXCEPT !.state_history = s]
  BY <1>1, <1>4
<1>6. /\ Shaped(y) /\ SameState(y, x) /\ SameOnce(y, x) /\ SameSwitch(y, x)
      /\ y.is_flapping = x.is_flapping /\ y.state_history = s
  <2> HIDE DEF h
  <2> QED BY <1>2, <1>5 DEF Shaped, Names, SameState, SameSwitch, SameOnce
<1>7. ASSUME x.state_history[N] # x.current_state, ~Low(x) PROVE ~Low(y)
  <2>1. Curved(x.state_history) \in Nat /\ Curved(s) \in Nat /\ Curved(x.state_history) <= Curved(s)
    BY <1>2, <1>4, <1>7, CurvedMore
  <2>2. /\ PercentStateChange[x.state_history] = Curved(x.state_history)
        /\ PercentStateChange[s] = Curved(s)
    BY <1>2, <1>3, <1>4, PercentIs
  <2>3. Scaled(LowThreshold) \in Nat
    <3>1. /\ LowThreshold \in Nat /\ N - 2 \in Nat /\ N - 1 \in Nat
      BY <1>2, ThresholdAssumption
    <3> DEFINE l == LowThreshold
               a == N - 2
               b == N - 1
    <3>2. Scaled(l) = ((l * 100) * a) * b
      BY DEF Scaled
    <3>3. l \in Nat /\ a \in Nat /\ b \in Nat
      BY <3>1
    <3> HIDE DEF a, b
    <3>4. l * 100 \in Nat
      BY <3>3
    <3>5. (l * 100) * a \in Nat
      BY <3>3, <3>4
    <3>6. ((l * 100) * a) * b \in Nat
      BY <3>3, <3>5
    <3> QED BY <3>2, <3>6
  <2>4. ~(PercentStateChange[s] <= Scaled(LowThreshold))
    BY <1>7, <2>1, <2>2, <2>3 DEF Low
  <2> QED BY <1>6, <2>4 DEF Low
<1> QED BY <1>3, <1>4, <1>6, <1>7

\* Looking for flapping tells nothing of the problem, if there is nothing to tell or
\* the state is a new one.
Unwatched(x) == x.state_type = "SOFT" /\ ~IsOk(x)

LEMMA CheckFlappingOnce ==
    ASSUME Given0, NEW n \in Nat, NEW x, Sound(x, n), NEW update \in BOOLEAN,
           NEW announce \in BOOLEAN,
           \/ Quiet(x)
           \/ /\ Restless(x)
              /\ update /\ x.current_state \in config.flap_on =>
                   x.state_history[MAX_STATE_HISTORY_ENTRIES] # x.current_state,
           NEW y, y \in {CheckServiceFlapping(x, update, announce),
                         CheckHostFlapping(x, update, announce),
                         CheckFlapping(x, update, announce)}
    PROVE  /\ Sound(y, n) /\ SameState(y, x) /\ SameOnce(y, x)
           /\ Restless(x) => Restless(y)
           /\ ~update => y.state_history = x.state_history
           /\ /\ y = CheckServiceFlapping(x, update, announce) /\ update /\ ~Unwatched(x)
              /\ x.current_state \in config.flap_on
              => y.state_history[MAX_STATE_HISTORY_ENTRIES] = x.current_state
<1> DEFINE N == MAX_STATE_HISTORY_ENTRIES
           U == update /\ x.current_state \in config.flap_on
<1>1. PICK r : r = IF U THEN Recorded(x) ELSE x
  OBVIOUS
<1>2. PICK j : j = JudgeFlapping(r, announce)
  OBVIOUS
<1>3. CheckHostFlapping(x, update, announce) = j
  BY Zenon, <1>1, <1>2 DEF CheckHostFlapping
<1>4. CheckServiceFlapping(x, update, announce) = IF Unwatched(x) THEN x ELSE j
  BY Zenon, <1>1, <1>2 DEF CheckServiceFlapping, Unwatched
<1>5. y \in {x, j} /\ (~Unwatched(x) /\ y = CheckServiceFlapping(x, update, announce) => y = j)
  BY <1>3, <1>4 DEF CheckFlapping
<1>6. Shaped(x)
  BY DEF Sound, Good
<1>7. /\ Sound(r, n) /\ SameState(r, x) /\ SameOnce(r, x) /\ SameSwitch(r, x)
      /\ r.is_flapping = x.is_flapping
      /\ U => r.state_history[N] = x.current_state
      /\ ~U => r.state_history = x.state_history
      /\ Low(r) => Low(x) \/ (U /\ x.state_history[N] = x.current_state)
  <2>1. CASE U
    <3>1. r = Recorded(x)
      BY <1>1, <2>1
    <3> QED BY <2>1, <3>1, RecordedOk, RecordedAs
  <2>2. CASE ~U
    <3>1. r = x
      BY <1>1, <2>2
    <3> QED BY <2>2, <3>1 DEF SameState, SameOnce, SameSwitch
  <2> QED BY <2>1, <2>2
<1>8. (Quiet(x) => Quiet(r)) /\ (Watching(x) => Watching(r))
  BY <1>7 DEF Quiet, IsOk, Watching, SameState, SameOnce, SameSwitch
<1>9. Quiet(r) \/ (r.is_flapping => ~Low(r))
  BY <1>7, <1>8 DEF Restless
<1>10. Steady(j, r) /\ SameOnce(j, r) /\ ((r.is_flapping => Watching(r)) => Restless(j))
  BY <1>2, <1>7, <1>9, JudgeFlappingOnce
<1>11. Sound(j, n)
  BY <1>2, <1>7, JudgeFlappingOk
<1>12. CASE y = j
  <2>1. Restless(x) => Restless(j)
    BY <1>7, <1>8, <1>10 DEF Restless
  <2>2. SameState(j, x) /\ SameOnce(j, x) /\ j.state_history = r.state_history
    BY <1>7, <1>10 DEF Steady, SameHistory, SameState, SameOnce
  <2>3. (~update => ~U) /\ (update /\ x.current_state \in config.flap_on => U)
    OBVIOUS
  <2> HIDE DEF U
  <2> QED BY <1>7, <1>11, <1>12, <2>1, <2>2, <2>3
<1>13. CASE y = x /\ y # j
  BY <1>5, <1>13 DEF SameState, SameOnce
<1> QED BY <1>5, <1>12, <1>13

LEMMA QuietlyChecked ==
    ASSUME Given0, NEW n \in Nat, NEW x, Sound(x, n), Quiet(x),
           NEW y, y = CheckServiceFlapping(x, TRUE, TRUE)
    PROVE  SameState(y, x) /\ SameOnce(y, x) /\ (Restless(x) => Restless(y))
BY CheckFlappingOnce

\* What a result does before and after it tells of the state.
LEMMA UnmovedIs ==
    ASSUME NEW x, Shaped(x), NEW hard,
           NEW y, \/ y = x
                  \/ y = TimesReset(x)
                  \/ y = Unacknowledged(x)
                  \/ y = ClearedAck(x)
                  \/ y = HostClearedAck(x)
                  \/ y = Dated(x, hard)
    PROVE  Unmoved(y, x)
<1>1. CASE y = x
  BY <1>1 DEF Unmoved, SameOnce
<1>2. CASE y = TimesReset(x)
  <2>1. Steady(y, x) /\ SameTold(y, x) /\ SameFlap(y, x) /\ SamePhase(y, x)
    BY <1>2, TimesResetIs
  <2> QED BY <2>1, SteadyUnmoved DEF SameTold, SamePhase, SameOnce
<1>3. CASE y = Unacknowledged(x)
  BY <1>3 DEF Unacknowledged, Shaped, Names, Unmoved, SameOnce
<1>4. CASE y = ClearedAck(x) \/ y = HostClearedAck(x)
  <2>1. y = x \/ y = Unacknowledged(x)
    BY <1>4 DEF ClearedAck, HostClearedAck, HostUnacknowledged, Unacknowledged
  <2> QED BY <1>1, <1>3, <2>1
<1>5. CASE y = Dated(x, hard)
  <2> DEFINE a == IF hard \/ IsOk(x) THEN 0 ELSE x.age
  <2>1. y = [x EXCEPT !.age = a]
    BY <1>5 DEF Dated
  <2> HIDE DEF a
  <2> QED BY <2>1 DEF Shaped, Names, Unmoved, SameOnce
<1> QED BY <1>1, <1>2, <1>3, <1>4, <1>5

LEMMA TypeOnce ==
    ASSUME NEW n, NEW x, Sound(x, n), NEW type \in StateType,
           NEW y, y = [x EXCEPT !.state_type = type]
    PROVE  Unmoved(y, x)
<1>1. Shaped(x)
  BY DEF Sound, Good
<1> QED BY <1>1 DEF Shaped, Names, Unmoved, SameOnce

\* The problem is over, and forgotten.
LEMMA EndedOnce ==
    ASSUME config \in Configs, IsService, NEW n, NEW x, Sound(x, n),
           NEW y, y = Forgotten(TimesReset(Reset(x)))
    PROVE  /\ Sound(y, n) /\ y.current_state = x.current_state /\ y.notified_on = {}
           /\ y.phase = x.phase /\ (Restless(x) => Restless(y))
<1>1. PICK u : u = Unacknowledged(x)
  OBVIOUS
<1>2. Shaped(x) /\ Shaped(u) /\ Unmoved(u, x)
  BY <1>1, KeptIs, UnmovedIs DEF Sound, Good, Kept
<1>3. PICK r : r = [u EXCEPT !.host_problem_at_last_check = FALSE, !.current_attempt = 1,
                             !.state_type = "HARD", !.last_hard_state = "OK"]
  OBVIOUS
<1>4. Shaped(r) /\ Unmoved(r, u)
  BY <1>2, <1>3 DEF Shaped, Names, Unmoved, SameOnce
<1>5. PICK t : t = TimesReset(r)
  OBVIOUS
<1>6. Shaped(t) /\ Unmoved(t, r)
  BY <1>4, <1>5, TimesResetIs, UnmovedIs DEF Steady
<1>7. y = Forgotten(t)
  BY Zenon, <1>1, <1>3, <1>5 DEF Reset
<1>8. Steady(y, t) /\ SameFlap(y, t) /\ SamePhase(y, t) /\ y.notified_on = {}
  BY <1>6, <1>7, ForgottenIs
<1>9. /\ y.phase = x.phase /\ y.is_flapping = x.is_flapping /\ y.state_history = x.state_history
      /\ y.enable_flap_detection = x.enable_flap_detection
      /\ y.flap_detection_enabled = x.flap_detection_enabled
  BY <1>2, <1>4, <1>6, <1>8 DEF Unmoved, SameOnce, SamePhase, Steady, SameFlap, SameSwitch, SameHistory
<1>10. Restless(x) => Restless(y)
  BY <1>9 DEF Restless, Watching, Low
<1>11. Sound(y, n) /\ Held(y, x)
  BY EndedIs
<1> QED BY <1>8, <1>9, <1>10, <1>11 DEF Held

\* A recovery of a service is told once: flapping does not stop before it is.
LEMMA ServiceRecoversOnce ==
    ASSUME Given0, IsService, NEW n \in Nat, NEW x, Sound(x, n), IsOk(x), ToldOnce(x), Restless(x),
           \/ x.notified_on = {}
           \/ "OK" \in config.flap_on => x.state_history[MAX_STATE_HISTORY_ENTRIES] # "OK",
           NEW hard \in BOOLEAN, NEW y, y = ServiceRecovers(x, hard)
    PROVE  IsOk(y) /\ y.notified_on = {} /\ y.phase # "again" /\ Restless(y)
<1> DEFINE a == [x EXCEPT !.state_type = "HARD"]
           b == CheckServiceFlapping(a, TRUE, TRUE)
           c == Notify(b, "NORMAL", None)
           d == Forgotten(TimesReset(Reset(c)))
           e == Forgotten(TimesReset(Reset(x)))
<1>0. config \in Configs /\ x.phase # "again"
  BY DEF Given0, ToldOnce
<1>1. y = IF hard THEN d ELSE CheckServiceFlapping(e, TRUE, TRUE)
  BY DEF ServiceRecovers
<1>2. CASE hard
  <2>1. y = d
    BY <1>1, <1>2
  <2>2. PICK p : p = a
    OBVIOUS
  <2>3. Sound(p, n) /\ Unmoved(p, x) /\ p.current_state = x.current_state
    BY <2>2, TypeWord, TypeOnce DEF StateType
  <2>4. ToldOnce(p) /\ Restless(p) /\ IsOk(p)
    BY <2>3, UnmovedAs DEF IsOk
  <2>5. p.current_state = "OK"
    <3>1. p.current_state \in State /\ p.current_state \in Fine
      BY <2>3, <2>4 DEF Sound, Good, StateOk, IsOk
    <3> QED BY <3>1, StateAssumption DEF State, ServiceState, HostState, Fine
  <2>6. \/ Quiet(p)
        \/ /\ Restless(p)
           /\ TRUE /\ p.current_state \in config.flap_on =>
                p.state_history[MAX_STATE_HISTORY_ENTRIES] # p.current_state
    BY <2>3, <2>4, <2>5 DEF Quiet, Unmoved, SameOnce
  <2>7. PICK q : q = CheckServiceFlapping(p, TRUE, TRUE)
    OBVIOUS
  <2>8. Sound(q, n) /\ SameState(q, p) /\ SameOnce(q, p) /\ Restless(q)
    BY <2>3, <2>4, <2>6, <2>7, CheckFlappingOnce
  <2>9. ToldOnce(q) /\ Good(q) /\ IsOk(q)
    BY <2>4, <2>8 DEF ToldOnce, SameOnce, Sound, SameState, IsOk
  <2>10. PICK r : r = Notify(q, "NORMAL", None)
    OBVIOUS
  <2>11. Sound(r, n) /\ Steady(r, q) /\ SameFlap(r, q) /\ r.phase # "again"
    BY <2>8, <2>9, <2>10, NotifySound, NotifyOk, NotifyOnce
  <2>12. Restless(r) /\ IsOk(r)
    BY <2>8, <2>9, <2>11 DEF Steady, SameFlap, SameSwitch, SameHistory, SameState, Restless,
                             Watching, Low, IsOk
  <2>13. y = Forgotten(TimesReset(Reset(r)))
    BY Zenon, <2>1, <2>2, <2>7, <2>10
  <2>14. /\ y.current_state = r.current_state /\ y.notified_on = {} /\ y.phase = r.phase
         /\ Restless(y)
    <3>1. config \in Configs /\ Sound(r, n)
      BY <1>0, <2>11
    <3>2. /\ y.current_state = r.current_state /\ y.notified_on = {} /\ y.phase = r.phase
          /\ Restless(r) => Restless(y)
      BY <2>13, <3>1, EndedOnce
    <3> QED BY <2>12, <3>2
  <2> QED BY <2>11, <2>12, <2>14 DEF IsOk
<1>3. CASE ~hard
  <2>1. y = CheckServiceFlapping(e, TRUE, TRUE)
    BY <1>1, <1>3
  <2>2. PICK p : p = e
    OBVIOUS
  <2>3. /\ Sound(p, n) /\ p.current_state = x.current_state /\ p.notified_on = {}
        /\ p.phase = x.phase /\ Restless(p)
    BY <1>0, <2>2, EndedOnce
  <2>4. y = CheckServiceFlapping(p, TRUE, TRUE)
    BY Zenon, <2>1, <2>2
  <2>5. Quiet(p)
    BY <2>3 DEF Quiet
  <2>6. SameState(y, p) /\ SameOnce(y, p) /\ Restless(y)
    BY <2>3, <2>4, <2>5, CheckFlappingOnce
  <2> QED BY <1>0, <2>3, <2>6 DEF SameState, SameOnce, IsOk
<1> QED BY <1>2, <1>3

\* A problem of a service is told of at the last attempt, after it was recorded.
LEMMA ServiceFailsOnce ==
    ASSUME Given0, IsService, NEW n \in Nat, NEW x, Sound(x, n), ~IsOk(x), ToldOnce(x), Restless(x),
           x.notified_on # {} => x.state_type = "HARD" /\ x.current_attempt = x.max_attempts,
           "OK" \in config.flap_on => x.current_state \in config.flap_on,
           NEW hardbefore \in BOOLEAN, NEW y, y = ServiceFails(x, hardbefore)
    PROVE  ~IsOk(y) /\ ToldOnce(y) /\ Restless(y) /\ Marked(y)
<1> DEFINE hard == hardbefore \/ (~env.host_up /\ x.last_hard_state # x.current_state)
           d == Dated(x, hard)
           f == IF env.host_up THEN HostUp(d) ELSE HostDown(d, hard)
           s == IF env.host_up THEN [f EXCEPT !.state_type = "SOFT"] ELSE f
           g == [f EXCEPT !.state_type = "HARD"]
           h == CheckServiceFlapping(g, TRUE, TRUE)
           m == Notify(h, "NORMAL", None)
<1>1. y = IF f.current_attempt < f.max_attempts THEN CheckServiceFlapping(s, TRUE, TRUE)
          ELSE [m EXCEPT !.last_hard_state = h.current_state]
  BY DEF ServiceFails
<1>2. config \in Configs /\ hard \in BOOLEAN
  BY DEF Given0
<1> HIDE DEF hard
<1>3. PICK p : p = d
  OBVIOUS
<1>4. Sound(p, n) /\ Kept(p, x) /\ Unmoved(p, x)
  BY <1>2, <1>3, DatedIs, KeptIs, UnmovedIs DEF Sound, Good
<1>5. PICK q : q = f
  OBVIOUS
<1>6. q = IF env.host_up THEN HostUp(p) ELSE HostDown(p, hard)
  BY <1>3, <1>5
<1>7. y = IF q.current_attempt < q.max_attempts
          THEN CheckServiceFlapping(IF env.host_up THEN [q EXCEPT !.state_type = "SOFT"] ELSE q,
                                    TRUE, TRUE)
          ELSE [Notify(CheckServiceFlapping([q EXCEPT !.state_type = "HARD"], TRUE, TRUE), "NORMAL", None)
                  EXCEPT !.last_hard_state =
                    CheckServiceFlapping([q EXCEPT !.state_type = "HARD"], TRUE, TRUE).current_state]
  BY Zenon, <1>1, <1>5
<1> HIDE DEF d, f, s, g, h, m
<1>8. p.current_state = x.current_state /\ p.state_type = x.state_type
      /\ p.current_attempt = x.current_attempt /\ p.max_attempts = x.max_attempts
  BY <1>4 DEF Kept, SameState
<1>9. /\ Sound(q, n) /\ Unmoved(q, p) /\ q.current_state = x.current_state
      /\ q.max_attempts = x.max_attempts
      /\ x.state_type = "HARD" => q.current_attempt = x.current_attempt
  <2>1. Shaped(p)
    BY <1>4 DEF Kept
  <2>2. CASE env.host_up
    <3>1. q = HostUp(p)
      BY <1>6, <2>2
    <3>2. Unmoved(q, p)
      <4> DEFINE k == IF p.host_problem_at_last_check /\ p.state_type = "SOFT" THEN 1
                      ELSE p.current_attempt
      <4>1. q = [p EXCEPT !.host_problem_at_last_check = FALSE, !.current_attempt = k]
        BY <3>1 DEF HostUp
      <4> HIDE DEF k
      <4> QED BY <2>1, <4>1 DEF Shaped, Names, Unmoved, SameOnce
    <3> QED BY <1>2, <1>4, <1>8, <3>1, <3>2, HostUpWord
  <2>3. CASE ~env.host_up
    <3>1. q = HostDown(p, hard)
      BY <1>6, <2>3
    <3>2. Unmoved(q, p)
      <4> DEFINE k == IF hard THEN "HARD" ELSE p.state_type
                 v == IF hard THEN p.current_state ELSE p.last_hard_state
      <4>1. q = [p EXCEPT !.host_problem_at_last_check = TRUE, !.state_type = k,
                          !.last_hard_state = v]
        BY <3>1 DEF HostDown
      <4> HIDE DEF k, v
      <4> QED BY <2>1, <4>1 DEF Shaped, Names, Unmoved, SameOnce
    <3> QED BY <1>2, <1>4, <1>8, <3>1, <3>2, HostDownWord
  <2> QED BY <2>2, <2>3
<1>10. ToldOnce(q) /\ Restless(q) /\ SameOnce(q, x)
  BY <1>4, <1>9, UnmovedAs DEF Unmoved, SameOnce
<1>11. ~IsOk(q) /\ q.current_state # "OK"
  BY <1>9 DEF IsOk, Fine
<1>12. CASE q.current_attempt < q.max_attempts
  <2>1. PICK r : r = IF env.host_up THEN [q EXCEPT !.state_type = "SOFT"] ELSE q
    OBVIOUS
  <2>2. Sound(r, n) /\ Unmoved(r, q) /\ r.current_state = q.current_state
    <3>1. CASE env.host_up
      <4>1. r = [q EXCEPT !.state_type = "SOFT"]
        BY <2>1, <3>1
      <4> QED BY <1>9, <4>1, TypeWord, TypeOnce DEF StateType
    <3>2. CASE ~env.host_up
      <4>1. r = q
        BY <2>1, <3>2
      <4> QED BY <1>9, <4>1 DEF Unmoved, SameOnce
    <3> QED BY <3>1, <3>2
  <2>3. x.notified_on = {}
    <3> SUFFICES ASSUME x.notified_on # {} PROVE FALSE
      OBVIOUS
    <3>1. q.current_attempt = q.max_attempts
      BY <1>9
    <3>2. q.current_attempt \in Int
      BY <1>9, ConfigAssumption DEF Sound, Good, StateOk
    <3> QED BY <1>12, <3>1, <3>2
  <2>4. ToldOnce(r) /\ Restless(r) /\ r.notified_on = {} /\ ~IsOk(r)
    BY <1>10, <1>11, <2>2, <2>3, UnmovedAs DEF Unmoved, SameOnce, IsOk
  <2>5. y = CheckServiceFlapping(r, TRUE, TRUE)
    BY <1>7, <1>12, <2>1
  <2>6. SameState(y, r) /\ SameOnce(y, r) /\ Restless(y)
    <3>1. Quiet(r)
      BY <2>4 DEF Quiet
    <3> QED BY <2>2, <2>4, <2>5, <3>1, QuietlyChecked
  <2> QED BY <2>4, <2>6 DEF SameState, SameOnce, IsOk, ToldOnce, Marked
<1>13. CASE ~(q.current_attempt < q.max_attempts)
  <2>1. PICK r : r = [q EXCEPT !.state_type = "HARD"]
    OBVIOUS
  <2>2. /\ Sound(r, n) /\ Unmoved(r, q) /\ r.current_state = q.current_state
        /\ r.state_type = "HARD" /\ r.current_attempt = r.max_attempts
    <3>1. /\ Sound(r, n) /\ Unmoved(r, q) /\ r.current_state = q.current_state
          /\ r.state_type = "HARD" /\ r.current_attempt = q.current_attempt
          /\ r.max_attempts = q.max_attempts
      BY <1>9, <2>1, TypeWord, TypeOnce DEF StateType
    <3>2. q.current_attempt \in 1 .. config.max_attempts /\ q.max_attempts = config.max_attempts
          /\ config.max_attempts \in Nat
      BY <1>2, <1>9, ConfigAssumption DEF Sound, Good, StateOk
    <3> QED BY <1>13, <3>1, <3>2
  <2>3. ToldOnce(r) /\ Restless(r) /\ ~IsOk(r) /\ ~Unwatched(r)
    BY <1>10, <1>11, <2>2, UnmovedAs DEF IsOk, Unwatched
  <2>4. PICK t : t = CheckServiceFlapping(r, TRUE, TRUE)
    OBVIOUS
  <2>5. /\ Sound(t, n) /\ SameState(t, r) /\ SameOnce(t, r) /\ Restless(t)
        /\ r.current_state \in config.flap_on =>
             t.state_history[MAX_STATE_HISTORY_ENTRIES] = r.current_state
    <3>1. Quiet(r)
      BY <2>3 DEF Quiet
    <3> QED BY <2>2, <2>3, <2>4, <3>1, CheckFlappingOnce
  <2>6. Good(t) /\ ToldOnce(t) /\ ~IsOk(t)
    BY <2>3, <2>5 DEF Sound, SameOnce, ToldOnce, SameState, IsOk
  <2>7. PICK u : u = Notify(t, "NORMAL", None)
    OBVIOUS
  <2>8. Steady(u, t) /\ SameFlap(u, t) /\ ToldOnce(u)
    BY <2>6, <2>7, NotifyOk, NotifyOnce
  <2>9. y = [u EXCEPT !.last_hard_state = t.current_state]
    BY <1>7, <1>13, <2>1, <2>4, <2>7
  <2> DEFINE v == t.current_state
  <2>10. y = [u EXCEPT !.last_hard_state = v]
    BY <2>9
  <2> HIDE DEF v
  <2>11. /\ Unmoved(y, u) /\ y.current_state = u.current_state /\ y.state_type = u.state_type
         /\ y.current_attempt = u.current_attempt /\ y.max_attempts = u.max_attempts
    BY <2>8, <2>10 DEF Steady, Shaped, Names, Unmoved, SameOnce
  <2>12. Restless(u)
    BY <2>5, <2>8 DEF Steady, SameFlap, SameSwitch, SameHistory, Restless, Watching, Low
  <2>13. ToldOnce(y) /\ Restless(y)
    BY <2>8, <2>11, <2>12, UnmovedAs
  <2>14. ~IsOk(y) /\ y.state_type = "HARD" /\ y.current_attempt = y.max_attempts
    BY <2>2, <2>5, <2>6, <2>8, <2>11 DEF Steady, SameState, IsOk
  <2>15. "OK" \in config.flap_on => y.state_history[MAX_STATE_HISTORY_ENTRIES] # "OK"
    <3>1. y.state_history = t.state_history
      BY <2>8, <2>11 DEF Steady, SameHistory, Unmoved
    <3> QED BY <1>9, <1>11, <2>2, <2>5, <3>1
  <2> QED BY <2>13, <2>14, <2>15 DEF Marked
<1> QED BY <1>12, <1>13

LEMMA ServiceResultOnce ==
    ASSUME FlapsAreSeen, Given0, IsService, NEW n \in Nat, NEW x, Sound(x, n), Once(x),
           NEW outcome \in config.outcomes, outcome \in State,
           NEW y, y = ServiceResult(x, outcome)
    PROVE  Once(y)
<1>0. config \in Configs /\ Shaped(x) /\ Stated(x)
  BY StatedIs DEF Given0
<1>1. PICK b : b = Received(x, outcome)
  OBVIOUS
<1>2. /\ Restated(b, x) /\ Stated(b) /\ Shaped(b) /\ b.last_state = x.current_state
      /\ b.state_type = x.state_type /\ b.current_state = outcome
      /\ b.current_attempt = x.current_attempt /\ b.max_attempts = x.max_attempts
  <2>1. Restated(b, x) /\ Stated(b) /\ b.last_state = x.current_state
    BY <1>0, <1>1, ReceivedIs
  <2>2. b = [x EXCEPT !.last_state = x.current_state, !.current_state = outcome]
    BY <1>1 DEF Received, State
  <2>3. /\ b.state_type = x.state_type /\ b.current_state = outcome
        /\ b.current_attempt = x.current_attempt /\ b.max_attempts = x.max_attempts
    BY <1>0, <2>2 DEF Shaped, Names
  <2> QED BY <2>1, <2>3 DEF Restated
<1>3. PICK c : c = Counted(b)
  OBVIOUS
<1>4. /\ Restated(c, x) /\ Stated(c) /\ Shaped(c) /\ c.last_state = x.current_state
      /\ c.state_type = x.state_type /\ c.max_attempts = x.max_attempts
      /\ c.current_state = outcome
      /\ x.state_type = "HARD" => c.current_attempt = x.current_attempt
  <2>1. Restated(c, b) /\ Stated(c) /\ Held(c, b)
    BY <1>0, <1>2, <1>3, CountedIs
  <2>2. CASE b.state_type = "SOFT" /\ b.current_attempt < b.max_attempts
    <3> DEFINE k == b.current_attempt + 1
    <3>1. c = [b EXCEPT !.current_attempt = k]
      BY <1>3, <2>2 DEF Counted
    <3> HIDE DEF k
    <3>2. c.state_type = b.state_type /\ c.max_attempts = b.max_attempts
      BY <1>2, <3>1 DEF Shaped, Names
    <3> QED BY <1>2, <2>1, <2>2, <3>2, RestatedTwice DEF Restated, Held
  <2>3. CASE ~(b.state_type = "SOFT" /\ b.current_attempt < b.max_attempts)
    <3>1. c = b
      BY <1>3, <2>3 DEF Counted
    <3> QED BY <1>2, <2>1, <3>1
  <2> QED BY <2>2, <2>3
<1> DEFINE changed == StateChange(c) \/ HardStateChange(c)
<1>5. changed \in BOOLEAN /\ (~changed => c.current_state = x.current_state)
  BY <1>4 DEF StateChange, HardStateChange
<1>6. PICK t : t = IF changed THEN TimesReset(c) ELSE c
  OBVIOUS
<1>7. PICK a : a = ClearedAck(t)
  OBVIOUS
<1>8. PICK d : d = Dated(a, HardStateChange(c))
  OBVIOUS
<1>9. y = IF IsOk(d) THEN ServiceRecovers(Unacknowledged(d), HardStateChange(c))
          ELSE ServiceFails(d, HardStateChange(c))
  BY Zenon, <1>1, <1>3, <1>6, <1>7, <1>8 DEF ServiceResult
<1> HIDE DEF changed
<1>10. Sound(t, n) /\ Kept(t, c) /\ Unmoved(t, c)
  <2>1. t = TimesReset(c) \/ t = c
    BY <1>6
  <2> QED BY <1>0, <1>4, <1>5, <1>6, <2>1, TurnedOk, KeptIs, UnmovedIs
<1>11. Sound(a, n) /\ Kept(a, t) /\ Unmoved(a, t)
  <2>1. Shaped(t)
    BY <1>10 DEF Kept
  <2> QED BY <1>7, <1>10, <2>1, ClearedIs, KeptIs, UnmovedIs
<1>12. Sound(d, n) /\ Kept(d, a) /\ Unmoved(d, a)
  <2>1. Shaped(a)
    BY <1>11 DEF Kept
  <2> QED BY <1>0, <1>8, <1>11, <2>1, DatedIs, KeptIs, UnmovedIs
<1>13. HardStateChange(c) \in BOOLEAN
  BY DEF HardStateChange
<1>14. Kept(d, c) /\ Unmoved(d, x)
  <2>1. Unmoved(c, x)
    BY <1>4, RestatedUnmoved
  <2>2. Unmoved(d, c)
    BY <1>10, <1>11, <1>12 DEF Unmoved, SameOnce
  <2> QED BY <1>10, <1>11, <1>12, <2>1, <2>2, KeptTwice, UnmovedTwice
<1>15. /\ d.current_state = outcome /\ d.state_type = x.state_type
       /\ d.max_attempts = x.max_attempts
       /\ x.state_type = "HARD" => d.current_attempt = x.current_attempt
       /\ ToldOnce(d) /\ Restless(d)
  BY <1>4, <1>14, UnmovedAs DEF Kept, SameState, Once
<1>16. d.notified_on # {} =>
         /\ x.state_type = "HARD" /\ x.current_attempt = x.max_attempts
         /\ "OK" \in config.flap_on => d.state_history[MAX_STATE_HISTORY_ENTRIES] # "OK"
  BY <1>14 DEF Unmoved, SameOnce, Once, Marked
<1>17. CASE IsOk(d)
  <2>1. PICK u : u = Unacknowledged(d)
    OBVIOUS
  <2>2. Sound(u, n) /\ Unmoved(u, d) /\ SameState(u, d)
    <3>1. Restated(u, d) /\ Stated(u) /\ SameState(u, d)
      BY <1>12, <2>1, StatedIs, UnacknowledgedIs
    <3> QED BY <1>12, <3>1, RestatedOk, RestatedUnmoved DEF SameState
  <2>3. y = ServiceRecovers(u, HardStateChange(c))
    BY <1>9, <1>17, <2>1
  <2>4. ToldOnce(u) /\ Restless(u) /\ IsOk(u)
    BY <1>15, <1>17, <2>2, UnmovedAs DEF SameState, IsOk
  <2>5. \/ u.notified_on = {}
        \/ "OK" \in config.flap_on => u.state_history[MAX_STATE_HISTORY_ENTRIES] # "OK"
    BY <1>16, <2>2 DEF Unmoved, SameOnce
  <2>6. IsOk(y) /\ y.notified_on = {} /\ y.phase # "again" /\ Restless(y)
    BY <1>13, <2>2, <2>3, <2>4, <2>5, ServiceRecoversOnce
  <2> QED BY <2>6 DEF Once, ToldOnce, Marked
<1>18. CASE ~IsOk(d)
  <2>1. y = ServiceFails(d, HardStateChange(c))
    BY <1>9, <1>18
  <2>2. d.notified_on # {} => d.state_type = "HARD" /\ d.current_attempt = d.max_attempts
    BY <1>15, <1>16
  <2>3. "OK" \in config.flap_on => d.current_state \in config.flap_on
    <3>1. outcome # "OK"
      BY <1>15, <1>18 DEF IsOk, Fine
    <3> QED BY <1>0, <1>15, <3>1 DEF FlapsAreSeen, IsService
  <2>4. ~IsOk(y) /\ ToldOnce(y) /\ Restless(y) /\ Marked(y)
    BY <1>12, <1>13, <1>15, <1>18, <2>1, <2>2, <2>3, ServiceFailsOnce
  <2> QED BY <2>4 DEF Once
<1> QED BY <1>17, <1>18

\* The state stays, and all that was told and recorded.
LEMMA OnceSame ==
    ASSUME NEW x, NEW y, Once(x), Unmoved(y, x), y.current_state = x.current_state,
           y.state_type = x.state_type, y.current_attempt = x.current_attempt,
           y.max_attempts = x.max_attempts
    PROVE  Once(y)
<1>1. ToldOnce(y) /\ (Restless(x) => Restless(y))
  BY UnmovedAs DEF Once
<1>2. IsOk(y) <=> IsOk(x)
  BY DEF IsOk
<1>3. Marked(x) => Marked(y)
  BY <1>2 DEF Marked, Unmoved, SameOnce
<1> QED BY <1>1, <1>2, <1>3 DEF Once, Unmoved, SameOnce

\* A host that is told of its state: the record of what was told goes with the problem.
LEMMA HandleHostStateOnce ==
    ASSUME Given0, ~IsService, NEW n \in Nat, NEW x, Sound(x, n), NEW h, Restated(h, x), Stated(h),
           h.last_state = x.current_state, Once(x), NEW y, y = HandleHostState(h)
    PROVE  Once(y)
<1> DEFINE hard == h.current_attempt >= h.max_attempts /\ HostHardChange(h)
           turned == HostStateChange(h) \/ hard
           changed == HostStateChange(h) \/ HostHardChange(h)
<1>0. config \in Configs /\ Shaped(h)
  BY DEF Given0, Restated
<1>1. turned \in BOOLEAN /\ (~turned => h.current_state = x.current_state)
      /\ (~changed => h.current_state = x.current_state)
  BY DEF HostStateChange, HostHardChange
<1>2. PICK t : t = IF turned THEN TimesReset(h) ELSE h
  OBVIOUS
<1>3. PICK a : a = HostClearedAck(t)
  OBVIOUS
<1>4. PICK d : d = Dated(a, changed /\ h.state_type = "HARD")
  OBVIOUS
<1>5. PICK told : told = IF h.state_type = "HARD" THEN Notify(d, "NORMAL", None) ELSE d
  OBVIOUS
<1>6. y = CASE changed /\ IsOk(h) -> Forgotten([told EXCEPT !.current_attempt = 1])
            [] changed /\ ~IsOk(h) -> told
            [] ~changed /\ IsOk(h) -> d
            [] ~changed /\ ~IsOk(h) -> told
  BY Zenon, <1>2, <1>3, <1>4, <1>5 DEF HandleHostState
<1> HIDE DEF hard, turned, changed
<1>7. Sound(t, n) /\ Kept(t, h) /\ Unmoved(t, h)
  <2>1. t = TimesReset(h) \/ t = h
    BY <1>2
  <2> QED BY <1>0, <1>1, <1>2, <2>1, TurnedOk, KeptIs, UnmovedIs
<1>8. Sound(a, n) /\ Kept(a, t) /\ Unmoved(a, t)
  <2>1. Shaped(t)
    BY <1>7 DEF Kept
  <2> QED BY <1>3, <1>7, <2>1, ClearedIs, KeptIs, UnmovedIs
<1>9. Sound(d, n) /\ Kept(d, a) /\ Unmoved(d, a)
  <2>1. Shaped(a)
    BY <1>8 DEF Kept
  <2> QED BY <1>0, <1>4, <1>8, <2>1, DatedIs, KeptIs, UnmovedIs
<1>10. Kept(d, h) /\ Unmoved(d, x)
  <2>1. Unmoved(h, x)
    BY RestatedUnmoved
  <2>2. Unmoved(d, h)
    BY <1>7, <1>8, <1>9 DEF Unmoved, SameOnce
  <2> QED BY <1>7, <1>8, <1>9, <2>1, <2>2, KeptTwice, UnmovedTwice
<1>11. ToldOnce(d) /\ (IsOk(d) <=> IsOk(h))
  BY <1>10, UnmovedAs DEF Once, Kept, SameState, IsOk
<1>12. /\ Sound(told, n) /\ SameState(told, d)
       /\ told.phase # "again" /\ (~IsOk(h) => ToldOnce(told))
  <2>1. Good(d)
    BY <1>9 DEF Sound
  <2>2. CASE h.state_type = "HARD"
    <3>1. told = Notify(d, "NORMAL", None)
      BY <1>5, <2>2
    <3> QED BY <1>9, <1>11, <2>1, <3>1, NotifySound, NotifyState, NotifyOnce
  <2>3. CASE h.state_type # "HARD"
    <3>1. told = d
      BY <1>5, <2>3
    <3> QED BY <1>9, <1>11, <3>1 DEF SameState, ToldOnce
  <2> QED BY <2>2, <2>3
<1>13. IsOk(told) <=> IsOk(h)
  BY <1>11, <1>12 DEF SameState, IsOk
<1>14. CASE changed /\ IsOk(h)
  <2>1. PICK p : p = [told EXCEPT !.current_attempt = 1]
    OBVIOUS
  <2>2. y = Forgotten(p)
    BY <1>6, <1>14, <2>1
  <2>3. Shaped(told)
    BY <1>12 DEF Sound, Good
  <2>4. Shaped(p) /\ p.phase = told.phase
    BY <2>1, <2>3 DEF Shaped, Names
  <2>5. SamePhase(y, p) /\ y.notified_on = {}
    BY <2>2, <2>4, ForgottenIs
  <2> QED BY <1>12, <2>4, <2>5 DEF SamePhase, Once, ToldOnce
<1>15. CASE ~changed /\ IsOk(h)
  <2>1. y = d
    BY <1>6, <1>15
  <2>2. x.notified_on = {}
    BY <1>1, <1>15 DEF Once, IsOk
  <2>3. d.notified_on = {}
    BY <1>10, <2>2 DEF Unmoved, SameOnce
  <2> QED BY <1>11, <2>1, <2>3 DEF Once
<1>16. CASE ~IsOk(h)
  <2>1. y = told
    BY <1>6, <1>16
  <2> QED BY <1>12, <1>13, <1>16, <2>1 DEF Once
<1> QED BY <1>14, <1>15, <1>16

\* Looking for flapping when nothing is left to tell.
LEMMA CheckedOnce ==
    ASSUME Given0, NEW n \in Nat, NEW x, Sound(x, n), Once(x), NEW update \in BOOLEAN,
           IsService => ~update, NEW announce \in BOOLEAN,
           NEW y, y \in {CheckHostFlapping(x, update, announce), CheckFlapping(x, update, announce)}
    PROVE  Sound(y, n) /\ Once(y) /\ SameState(y, x)
<1>1. Quiet(x)
  BY DEF Once, Quiet
<1>2. /\ Sound(y, n) /\ SameState(y, x) /\ SameOnce(y, x) /\ (Restless(x) => Restless(y))
      /\ ~update => y.state_history = x.state_history
  BY <1>1, CheckFlappingOnce
<1>3. ToldOnce(y) /\ (IsOk(y) <=> IsOk(x)) /\ (IsOk(y) => y.notified_on = {})
  BY <1>2 DEF Once, ToldOnce, SameOnce, SameState, IsOk
<1>4. IsService => Restless(y) /\ Marked(y)
  BY <1>2, <1>3 DEF Once, Marked, SameOnce, SameState
<1> QED BY <1>2, <1>3, <1>4 DEF Once

LEMMA HostResultOnce ==
    ASSUME Given0, ~IsService, NEW n \in Nat, NEW x, Sound(x, n), Once(x),
           NEW outcome \in HostState, NEW y, y = HostResult(x, outcome)
    PROVE  Once(y)
<1> DEFINE new == IF outcome = "UP" THEN "UP" ELSE "DOWN"
<1>0. config \in Configs /\ Shaped(x) /\ Stated(x)
  BY StatedIs DEF Given0
<1>1. PICK a : a = IF config.check.active THEN Adjusted(x, TRUE) ELSE x
  OBVIOUS
<1>2. PICK s : s = Saved(a)
  OBVIOUS
<1>3. PICK h : h = Processed(s, new, outcome, config.check)
  OBVIOUS
<1>4. PICK r : r = HandleHostState(h)
  OBVIOUS
<1>5. y = CheckHostFlapping(r, TRUE, TRUE)
  BY Zenon, <1>1, <1>2, <1>3, <1>4 DEF HostResult
<1>6. Restated(a, x) /\ Stated(a) /\ Shaped(a) /\ a.current_state = x.current_state
  <2>1. CASE config.check.active
    <3>1. a = Adjusted(x, TRUE)
      BY <1>1, <2>1
    <3> QED BY <1>0, <3>1, AdjustedIs DEF Restated, Held
  <2>2. CASE ~config.check.active
    <3>1. a = x
      BY <1>1, <2>2
    <3> QED BY <1>0, <3>1 DEF Restated, SameSwitch, SameTold, SameTimes, SameFlap, SameSeen, SamePhase
  <2> QED BY <2>1, <2>2
<1>7. Restated(s, x) /\ Stated(s) /\ Shaped(s) /\ s.last_state = x.current_state
  <2>1. Restated(s, a) /\ Stated(s) /\ s.last_state = a.current_state
    BY <1>2, <1>6, SavedIs
  <2> QED BY <1>6, <2>1, RestatedTwice DEF Restated
<1>8. new \in HostState
  BY DEF HostState
<1> HIDE DEF new
<1>9. Restated(h, x) /\ Stated(h) /\ h.last_state = x.current_state
  <2>1. Restated(h, s) /\ Stated(h) /\ h.last_state = s.last_state
    BY <1>0, <1>3, <1>7, <1>8, ProcessedIs
  <2> QED BY <1>7, <2>1, RestatedTwice
<1>10. Sound(r, n)
  BY <1>4, <1>9, HandleHostStateOk
<1>11. Once(r)
  BY <1>4, <1>9, HandleHostStateOnce
<1> QED BY <1>5, <1>10, <1>11, CheckedOnce

\* A restart forgets that the object was flapping, and records nothing.
LEMMA RestartedOnce ==
    ASSUME Given0, NEW n \in Nat, NEW x, Sound(x, n), Once(x), NEW y, y = Restarted(x)
    PROVE  Once(y)
<1>1. PICK m : m = Recalled(x)
  OBVIOUS
<1>2. /\ Sound(m, n) /\ SameRecord(m, x) /\ ~m.is_flapping
      /\ ~IsOk(x) /\ x.state_type = "HARD" => m.current_attempt = m.max_attempts
  BY <1>1, RecalledOk
<1>3. /\ IsOk(m) <=> IsOk(x)
      /\ SameOnce(m, x) /\ m.state_type = x.state_type /\ m.state_history = x.state_history
  BY <1>2 DEF SameRecord, SameTold, SamePhase, SameOnce, IsOk
<1>4. Once(m)
  <2>1. ToldOnce(m) /\ (IsOk(m) => m.notified_on = {})
    BY <1>3 DEF Once, ToldOnce, SameOnce
  <2>2. Restless(m)
    BY <1>2 DEF Restless
  <2>3. IsService => Marked(m)
    BY <1>2, <1>3 DEF Once, Marked, SameOnce
  <2> QED BY <2>1, <2>2, <2>3 DEF Once
<1>5. PICK s : s = CheckFlapping(m, FALSE, ~x.is_flapping)
  OBVIOUS
<1>6. Sound(s, n) /\ Once(s)
  <2>1. (~x.is_flapping) \in BOOLEAN
    OBVIOUS
  <2> QED BY <1>2, <1>4, <1>5, <2>1, CheckedOnce
<1> DEFINE k == s.check_flapping_recovery /\ ~(x.is_flapping /\ ~s.is_flapping)
<1>7. y = [s EXCEPT !.check_flapping_recovery = k]
  <2>1. y = Resumed(s, x)
    BY <1>1, <1>5, RestartedIs
  <2> QED BY <2>1 DEF Resumed
<1> HIDE DEF k
<1>8. Shaped(s)
  BY <1>6 DEF Sound, Good
<1>9. Unmoved(y, s) /\ SameState(y, s)
  BY <1>7, <1>8 DEF Shaped, Names, SameState, Unmoved, SameOnce
<1> QED BY <1>6, <1>9, OnceSame DEF SameState

LEMMA NextOnce ==
    ASSUME config' = config, NEW x, o' = x, Once(x)
    PROVE  Once(o)'
<1>1. (IsOk(o)' <=> IsOk(x)) /\ (IsService' <=> IsService)
  BY DEF IsOk, IsService
<1>2. ToldOnce(o)' /\ (IsOk(o)' => o'.notified_on = {})
  BY <1>1 DEF Once, ToldOnce
<1>3. IsService => Restless(o)'
  BY DEF Once, Restless, Watching, Low, PercentStateChange, Scaled, Curved, Changed, Before
<1>4. IsService => Marked(o)'
  BY <1>1 DEF Once, Marked
<1> QED BY <1>1, <1>2, <1>3, <1>4 DEF Once

\* A field that is set says nothing of flapping or of what was told.
Beside(y, x) == Shaped(y) /\ Unmoved(y, x) /\ SameState(y, x)

LEMMA BesideOnce ==
    ASSUME NEW x, NEW y, Beside(y, x), Once(x)
    PROVE  Shaped(y) /\ Once(y)
BY OnceSame DEF Beside, SameState

LEMMA ChangeOnce ==
    ASSUME NEW x, Shaped(x), Once(x), Change(x)
    PROVE  Once(o)'
<1>1. PICK y : y = [x EXCEPT !.calm = FALSE]
  OBVIOUS
<1>2. Once(y)
  <2>1. Beside(y, x)
    BY <1>1 DEF Shaped, Names, Beside, Unmoved, SameOnce, SameState
  <2> QED BY <1>1, <2>1, BesideOnce
<1>3. o' = y /\ config' = config
  BY <1>1 DEF Change
<1> QED BY <1>2, <1>3, NextOnce

\* A notification on the way of a command.
LEMMA ToldAside ==
    ASSUME IInv, NEW n \in Nat, NEW x, Sound(x, n), Once(x), NEW type, NEW options,
           type # "NORMAL", NEW y, y = Notify(x, type, options)
    PROVE  Shaped(y) /\ Once(y)
<1>1. Good(x) /\ Given0
  BY GivenIs DEF Sound
<1>2. Steady(y, x) /\ SameFlap(y, x) /\ SameOnce(y, x)
  BY <1>1, NotifyOk, NotifyOnce
<1>3. Unmoved(y, x)
  BY <1>2, SteadyUnmoved
<1> QED BY <1>2, <1>3, OnceSame DEF Steady, SameState

LEMMA SurroundOnce ==
    ASSUME IInv, Once(o), NEW e, Surround(e)
    PROVE  Once(o)'
<1>1. Shaped(o)
  BY GivenIs
<1>2. PICK y : y = [o EXCEPT !.calm = FALSE]
  OBVIOUS
<1>3. Once(y)
  <2>1. Beside(y, o)
    BY <1>1, <1>2 DEF Shaped, Names, Beside, Unmoved, SameOnce, SameState
  <2> QED BY <1>1, <1>2, <2>1, BesideOnce
<1>4. o' = y /\ config' = config
  BY <1>2 DEF Surround
<1> QED BY <1>3, <1>4, NextOnce

LEMMA SwitchedOnce ==
    ASSUME IInv, Once(o), \/ \E type : Acknowledge(type)
                          \/ RemoveAcknowledgement
                          \/ \E options : SendCustom(options)
                          \/ \E number : SetNumber(number)
                          \/ Delay(config.delays)
                          \/ SwitchNotifications
                          \/ StartDowntime
                          \/ EndDowntime
    PROVE  Once(o)'
<1>0. Shaped(o) /\ AckOk(o) /\ Sound(o, spent) /\ spent \in Nat
  BY GivenIs
<1>1. ASSUME NEW type, Acknowledge(type) PROVE Once(o)'
  <2>1. PICK r : r = Notify(o, "ACKNOWLEDGEMENT", None)
    OBVIOUS
  <2>2. PICK x : x = [r EXCEPT !.acknowledged = TRUE, !.acknowledgement_type = type]
    OBVIOUS
  <2>3. Shaped(r) /\ Once(r)
    BY <1>0, <2>1, ToldAside
  <2>4. Shaped(x) /\ Once(x)
    <3>1. Beside(x, r)
      BY <2>2, <2>3 DEF Shaped, Names, Beside, Unmoved, SameOnce, SameState
    <3> QED BY <2>2, <2>3, <3>1, BesideOnce
  <2>5. Change(x)
    BY <1>1, <2>1, <2>2 DEF Acknowledge
  <2> QED BY <2>4, <2>5, ChangeOnce
<1>2. CASE RemoveAcknowledgement
  <2>1. PICK x : x = [o EXCEPT !.acknowledged = FALSE]
    OBVIOUS
  <2>2. Shaped(x) /\ Once(x)
    <3>1. Beside(x, o)
      BY <1>0, <2>1 DEF Shaped, Names, Beside, Unmoved, SameOnce, SameState
    <3> QED BY <1>0, <2>1, <3>1, BesideOnce
  <2> QED BY <1>2, <2>1, <2>2, ChangeOnce DEF RemoveAcknowledgement
<1>3. ASSUME NEW options, SendCustom(options) PROVE Once(o)'
  <2>1. PICK x : x = Notify(o, "CUSTOM", options)
    OBVIOUS
  <2>2. Shaped(x) /\ Once(x)
    BY <1>0, <2>1, ToldAside
  <2> QED BY <1>3, <2>1, <2>2, ChangeOnce DEF SendCustom
<1>4. ASSUME NEW number, SetNumber(number) PROVE Once(o)'
  <2>1. PICK x : x = [o EXCEPT !.number = number, !.tampered = TRUE]
    OBVIOUS
  <2>2. Shaped(x) /\ Once(x)
    <3>1. Beside(x, o)
      BY <1>0, <2>1 DEF Shaped, Names, Beside, Unmoved, SameOnce, SameState
    <3> QED BY <1>0, <2>1, <3>1, BesideOnce
  <2> QED BY <1>4, <2>1, <2>2, ChangeOnce DEF SetNumber
<1>5. CASE Delay(config.delays)
  <2>1. PICK x : x = [o EXCEPT !.wait = config.delays]
    OBVIOUS
  <2>2. Shaped(x) /\ Once(x)
    <3>1. Beside(x, o)
      BY <1>0, <2>1 DEF Shaped, Names, Beside, Unmoved, SameOnce, SameState
    <3> QED BY <1>0, <2>1, <3>1, BesideOnce
  <2> QED BY <1>5, <2>1, <2>2, ChangeOnce DEF Delay
<1>6. CASE SwitchNotifications
  <2> DEFINE b == ~o.notifications_enabled
  <2>1. PICK x : x = [o EXCEPT !.notifications_enabled = b]
    OBVIOUS
  <2>2. Change(x)
    BY <1>6, <2>1 DEF SwitchNotifications
  <2> HIDE DEF b
  <2>3. Shaped(x) /\ Once(x)
    <3>1. Beside(x, o)
      BY <1>0, <2>1 DEF Shaped, Names, Beside, Unmoved, SameOnce, SameState
    <3> QED BY <1>0, <2>1, <3>1, BesideOnce
  <2> QED BY <2>2, <2>3, ChangeOnce
<1>7. CASE StartDowntime
  <2>1. PICK r : r = Notify(o, "DOWNTIMESTART", None)
    OBVIOUS
  <2>2. PICK x : x = [r EXCEPT !.downtime = TRUE]
    OBVIOUS
  <2>3. Shaped(r) /\ Once(r)
    BY <1>0, <2>1, ToldAside
  <2>4. Shaped(x) /\ Once(x)
    <3>1. Beside(x, r)
      BY <2>2, <2>3 DEF Shaped, Names, Beside, Unmoved, SameOnce, SameState
    <3> QED BY <2>2, <2>3, <3>1, BesideOnce
  <2>5. Change(x)
    BY <1>7, <2>1, <2>2 DEF StartDowntime
  <2> QED BY <2>4, <2>5, ChangeOnce
<1>8. CASE EndDowntime
  <2>1. PICK r : r = [o EXCEPT !.downtime = FALSE]
    OBVIOUS
  <2>2. PICK x : x = Notify(r, "DOWNTIMEEND", None)
    OBVIOUS
  <2>3. Once(r)
    <3>1. Beside(r, o)
      BY <1>0, <2>1 DEF Shaped, Names, Beside, Unmoved, SameOnce, SameState
    <3> QED BY <1>0, <2>1, <3>1, BesideOnce
  <2>4. Loose(r, o)
    BY <1>0, <2>1 DEF Shaped, Names, Loose, SameState, AckOk, SameHistory,
                      SameTold, SameTimes, SameFlap
  <2>5. Sound(r, spent)
    BY <1>0, <2>4, LooseOk
  <2>6. Shaped(x) /\ Once(x)
    BY <1>0, <2>2, <2>3, <2>5, ToldAside
  <2>7. Change(x)
    BY <1>8, <2>1, <2>2 DEF EndDowntime
  <2> QED BY <2>6, <2>7, ChangeOnce
<1> QED BY <1>1, <1>2, <1>3, <1>4, <1>5, <1>6, <1>7, <1>8

\* The switch of flap detection is all that is changed.
LooseFlap(y, x) ==
    Loose(y, x) /\ SameOnce(y, x) /\ y.state_history = x.state_history
                /\ y.is_flapping = x.is_flapping

LEMMA JudgedOnce ==
    ASSUME IInv, Once(o), NEW r, LooseFlap(r, o), ~Watching(o),
           Change(CheckFlapping(r, FALSE, TRUE))
    PROVE  Once(o)'
<1>1. PICK x : x = CheckFlapping(r, FALSE, TRUE)
  OBVIOUS
<1>2. Sound(r, spent) /\ Given0 /\ spent \in Nat
  BY GivenIs, LooseOk DEF LooseFlap
<1>3. Once(r)
  <2>1. SameState(r, o) /\ SameOnce(r, o) /\ r.state_history = o.state_history
    BY DEF LooseFlap, Loose
  <2>2. ToldOnce(r) /\ (IsOk(r) <=> IsOk(o)) /\ (IsOk(r) => r.notified_on = {})
    BY <2>1 DEF Once, ToldOnce, SameOnce, SameState, IsOk
  <2>3. IsService => Restless(r)
    BY DEF Once, Restless, LooseFlap
  <2>4. IsService => Marked(r)
    BY <2>1, <2>2 DEF Once, Marked, SameOnce, SameState
  <2> QED BY <2>2, <2>3, <2>4 DEF Once
<1>4. Sound(x, spent) /\ Once(x)
  BY <1>1, <1>2, <1>3, CheckedOnce
<1>5. Shaped(x)
  BY <1>4 DEF Sound, Good
<1>6. Change(x)
  BY <1>1
<1> QED BY <1>4, <1>5, <1>6, ChangeOnce

\* Flap detection is switched off: what was told stays, and there is no flapping.
LEMMA SwitchedOffOnce ==
    ASSUME IInv, Once(o), NEW x, Shaped(x), SameState(x, o), SameOnce(x, o),
           x.state_history = o.state_history, ~x.is_flapping, Change(x)
    PROVE  Once(o)'
<1>1. ToldOnce(x) /\ (IsOk(x) <=> IsOk(o)) /\ (IsOk(x) => x.notified_on = {})
  BY DEF Once, ToldOnce, SameOnce, SameState, IsOk
<1>2. Restless(x)
  BY DEF Restless
<1>3. IsService => Marked(x)
  BY <1>1 DEF Once, Marked, SameOnce, SameState
<1>4. Once(x)
  BY <1>1, <1>2, <1>3 DEF Once
<1> QED BY <1>4, ChangeOnce

LEMMA FlapSwitchOnce ==
    ASSUME IInv, Once(o),
           EnableFlapDetection \/ EnableFlapping \/ DisableFlapDetection \/ DisableFlapping
    PROVE  Once(o)'
<1>0. Shaped(o) /\ AckOk(o) /\ Sound(o, spent) /\ spent \in Nat /\ Given0
  BY GivenIs
<1>1. CASE EnableFlapDetection
  <2>1. PICK r : r = [o EXCEPT !.flap_detection_enabled = TRUE]
    OBVIOUS
  <2>2. Change(CheckFlapping(r, FALSE, TRUE)) /\ ~Watching(o)
    BY <1>1, <2>1 DEF EnableFlapDetection, Watching
  <2>3. Loose(r, o)
    BY <1>0, <2>1 DEF Shaped, Names, Loose, SameState, AckOk, SameHistory,
                      SameTold, SameTimes, SameFlap
  <2>4. LooseFlap(r, o)
    BY <1>0, <2>1, <2>3 DEF Shaped, Names, LooseFlap, SameOnce
  <2> QED BY <2>2, <2>4, JudgedOnce
<1>2. CASE EnableFlapping
  <2>1. PICK r : r = [o EXCEPT !.enable_flap_detection = TRUE]
    OBVIOUS
  <2>2. Change(CheckFlapping(r, FALSE, TRUE)) /\ ~Watching(o)
    BY <1>2, <2>1 DEF EnableFlapping, Watching
  <2>3. Loose(r, o)
    BY <1>0, <2>1 DEF Shaped, Names, Loose, SameState, AckOk, SameHistory,
                      SameTold, SameTimes, SameFlap
  <2>4. LooseFlap(r, o)
    BY <1>0, <2>1, <2>3 DEF Shaped, Names, LooseFlap, SameOnce
  <2> QED BY <2>2, <2>4, JudgedOnce
<1>3. CASE DisableFlapDetection
  <2> DEFINE b == o.abandoned \/ o.is_flapping
  <2>1. PICK r : r = [o EXCEPT !.flap_detection_enabled = FALSE, !.is_flapping = FALSE,
                               !.abandoned = b]
    OBVIOUS
  <2>2. Change(FlapDetectionDisabled(r))
    <3>1. Change(FlapDetectionDisabled([o EXCEPT !.flap_detection_enabled = FALSE,
                                                 !.is_flapping = FALSE,
                                                 !.abandoned = @ \/ o.is_flapping]))
      BY <1>3 DEF DisableFlapDetection
    <3> QED BY <2>1, <3>1
  <2> HIDE DEF b
  <2>3. /\ Shaped(r) /\ SameState(r, o) /\ SameOnce(r, o)
        /\ r.state_history = o.state_history /\ r.is_flapping = FALSE
    BY <1>0, <2>1 DEF Shaped, Names, SameState, SameOnce
  <2>4. FlapDetectionDisabled(r) = r
    BY <2>3 DEF FlapDetectionDisabled
  <2> QED BY <2>2, <2>3, <2>4, SwitchedOffOnce
<1>4. CASE DisableFlapping
  <2>1. PICK r : r = [o EXCEPT !.enable_flap_detection = FALSE]
    OBVIOUS
  <2>2. PICK x : x = FlapDetectionDisabled(r)
    OBVIOUS
  <2>3. Change(x)
    BY <1>4, <2>1, <2>2 DEF DisableFlapping
  <2>4. Loose(r, o)
    BY <1>0, <2>1 DEF Shaped, Names, Loose, SameState, AckOk, SameHistory,
                      SameTold, SameTimes, SameFlap
  <2>5. LooseFlap(r, o)
    BY <1>0, <2>1, <2>4 DEF Shaped, Names, LooseFlap, SameOnce
  <2>6. Sound(r, spent)
    BY <1>0, <2>4, LooseOk
  <2>7. CASE ~r.is_flapping
    <3>1. x = r
      BY <2>2, <2>7 DEF FlapDetectionDisabled
    <3> QED BY <2>3, <2>5, <2>6, <2>7, <3>1, SwitchedOffOnce DEF Sound, Good, LooseFlap, Loose
  <2>8. CASE r.is_flapping
    <3>1. x = FlapRecovery(Notify([Uncommented(r) EXCEPT !.is_flapping = FALSE],
                                  "FLAPPINGDISABLED", None))
      BY <2>2, <2>8 DEF FlapDetectionDisabled
    <3>2. Quiet(r)
      BY <2>5 DEF Once, Quiet, LooseFlap, Loose, SameState, SameOnce, IsOk
    <3>3. Steady(x, r) /\ SameOnce(x, r) /\ x.is_flapping = FALSE
      BY <1>0, <2>6, <2>8, <3>1, <3>2, StoppedOnce
    <3>4. /\ Shaped(x) /\ SameState(x, o) /\ SameOnce(x, o)
          /\ x.state_history = o.state_history
      BY <2>5, <3>3 DEF Steady, SameHistory, LooseFlap, Loose, SameState, SameOnce
    <3> QED BY <2>3, <3>3, <3>4, SwitchedOffOnce
  <2> QED BY <2>7, <2>8
<1> QED BY <1>1, <1>2, <1>3, <1>4

LEMMA CommandOnce ==
    ASSUME IInv, Once(o), Command
    PROVE  Once(o)'
<1>1. \/ Restart
      \/ \/ \E type : Acknowledge(type)
         \/ RemoveAcknowledgement
         \/ \E options : SendCustom(options)
         \/ \E number : SetNumber(number)
         \/ Delay(config.delays)
         \/ SwitchNotifications
         \/ StartDowntime
         \/ EndDowntime
      \/ EnableFlapDetection \/ EnableFlapping \/ DisableFlapDetection \/ DisableFlapping
      \/ \/ SwitchAllNotifications \/ PeriodCloses \/ HostChanges \/ HostDowntimeChanges
         \/ DependencyChanges \/ VetoChanges
         \/ \E c \in DOMAIN config.listens : ContactChanges(c)
         \/ \E e \in config.escalations : EscalationChanges(e)
  BY Zenon DEF Command
<1>2. CASE Restart
  <2>1. PICK x : x = Restarted(o)
    OBVIOUS
  <2>2. Once(x)
    BY <2>1, GivenIs, RestartedOnce
  <2>3. o' = x /\ config' = config
    BY <1>2, <2>1 DEF Restart
  <2> QED BY <2>2, <2>3, NextOnce
<1>3. CASE \/ \E type : Acknowledge(type)
           \/ RemoveAcknowledgement
           \/ \E options : SendCustom(options)
           \/ \E number : SetNumber(number)
           \/ Delay(config.delays)
           \/ SwitchNotifications
           \/ StartDowntime
           \/ EndDowntime
  BY <1>3, SwitchedOnce
<1>4. CASE EnableFlapDetection \/ EnableFlapping \/ DisableFlapDetection \/ DisableFlapping
  BY <1>4, FlapSwitchOnce
<1>5. CASE \/ SwitchAllNotifications \/ PeriodCloses \/ HostChanges \/ HostDowntimeChanges
           \/ DependencyChanges \/ VetoChanges
           \/ \E c \in DOMAIN config.listens : ContactChanges(c)
           \/ \E e \in config.escalations : EscalationChanges(e)
  <2>1. \E e : Surround(e)
    BY Zenon, <1>5 DEF SwitchAllNotifications, PeriodCloses, HostChanges, HostDowntimeChanges,
                       DependencyChanges, VetoChanges, ContactChanges, EscalationChanges
  <2> QED BY <2>1, SurroundOnce
<1> QED BY <1>1, <1>2, <1>3, <1>4, <1>5

LEMMA TickOnce ==
    ASSUME IInv, Once(o), Tick
    PROVE  Once(o)'
<1> DEFINE s == IF o.since = Never THEN Never ELSE Min({o.since + 1, LongestInterval(config)})
           w == IF o.wait = 0 THEN 0 ELSE o.wait - 1
           a == Min({o.age + 1, config.delay})
<1>1. PICK y : y = [o EXCEPT !.since = s, !.wait = w, !.age = a]
  OBVIOUS
<1>2. o' = y /\ config' = config
  BY <1>1 DEF Tick
<1> HIDE DEF s, w, a
<1>3. Unmoved(y, o) /\ SameState(y, o)
  BY <1>1, GivenIs DEF Shaped, Names, Unmoved, SameOnce, SameState
<1>4. Once(y)
  BY <1>3, OnceSame DEF SameState
<1> QED BY <1>2, <1>4, NextOnce

LEMMA ServiceOfHostIsOnce ==
    ASSUME IInv, Once(o), NEW update \in BOOLEAN, ServiceOfHost(update)
    PROVE  Once(o)'
<1>1. PICK r : r = IF IsOk(o) THEN o ELSE Notify(o, "NORMAL", None)
  OBVIOUS
<1>2. PICK y : y = CheckHostFlapping(r, update, TRUE)
  OBVIOUS
<1>3. o' = y /\ config' = config /\ ~IsService
  BY <1>1, <1>2 DEF ServiceOfHost
<1>4. Good(o) /\ Given0 /\ Sound(o, spent) /\ spent \in Nat
  BY GivenIs DEF Sound
<1>5. Sound(r, spent) /\ Once(r)
  <2>1. CASE IsOk(o)
    BY <1>1, <1>4, <2>1
  <2>2. CASE ~IsOk(o)
    <3>1. r = Notify(o, "NORMAL", None)
      BY <1>1, <2>2
    <3>2. Sound(r, spent) /\ SameState(r, o) /\ ToldOnce(r)
      BY <1>4, <2>2, <3>1, NotifySound, NotifyState, NotifyOnce DEF Once
    <3>3. ~IsOk(r)
      BY <2>2, <3>2 DEF SameState, IsOk
    <3> QED BY <1>3, <3>2, <3>3 DEF Once
  <2> QED BY <2>1, <2>2
<1>6. Once(y)
  BY <1>2, <1>3, <1>4, <1>5, CheckedOnce
<1> QED BY <1>3, <1>6, NextOnce

LEMMA ResultOnce ==
    ASSUME FlapsAreSeen, IInv, Once(o), NEW outcome \in State, Result(outcome)
    PROVE  Once(o)'
<1>1. PICK r : r = IF IsService THEN ServiceResult(o, outcome) ELSE HostResult(o, outcome)
  OBVIOUS
<1>2. PICK y : y = AtRest(r)
  OBVIOUS
<1>3. o' = y /\ config' = config /\ outcome \in config.outcomes
  BY <1>1, <1>2 DEF Result
<1>4. Given0 /\ Sound(o, spent) /\ spent \in Nat
  BY GivenIs
<1>5. Once(r) /\ Shaped(r)
  <2>1. CASE IsService
    <3>1. r = ServiceResult(o, outcome)
      BY <1>1, <2>1
    <3>2. Sound(r, spent)
      BY <1>4, <2>1, <3>1, ServiceResultOk
    <3> QED BY <1>3, <1>4, <2>1, <3>1, <3>2, ServiceResultOnce DEF Sound, Good
  <2>2. CASE ~IsService
    <3>1. r = HostResult(o, outcome) /\ outcome \in HostState
      BY <1>1, <2>2 DEF State
    <3>2. Sound(r, spent)
      BY <1>4, <2>2, <3>1, HostResultOk
    <3> QED BY <1>4, <2>2, <3>1, <3>2, HostResultOnce DEF Sound, Good
  <2> QED BY <2>1, <2>2
<1> DEFINE s == r.current_state
<1>6. y = [r EXCEPT !.last_state = s]
  BY <1>2 DEF AtRest
<1> HIDE DEF s
<1>7. Once(y)
  <2>1. /\ Unmoved(y, r)
        /\ y.current_state = r.current_state /\ y.state_type = r.state_type
        /\ y.current_attempt = r.current_attempt /\ y.max_attempts = r.max_attempts
    BY <1>5, <1>6 DEF Shaped, Names, Unmoved, SameOnce
  <2> QED BY <1>5, <2>1, OnceSame
<1> QED BY <1>3, <1>7, NextOnce

LEMMA OnceStep ==
    ASSUME FlapsAreSeen, IInv, Once(o), [Next]_vars
    PROVE  Once(o)'
<1>1. CASE UNCHANGED vars
  <2>1. PICK x : x = o
    OBVIOUS
  <2> QED BY <1>1, <2>1, NextOnce DEF vars
<1>2. CASE \E outcome \in State : Result(outcome)
  BY <1>2, ResultOnce
<1>3. CASE \E update \in BOOLEAN : ServiceOfHost(update)
  BY <1>3, ServiceOfHostIsOnce
<1>4. CASE Tick
  BY <1>4, TickOnce
<1>5. CASE Command
  BY <1>5, CommandOnce
<1> QED BY <1>1, <1>2, <1>3, <1>4, <1>5 DEF Next

\* A problem that was told of is followed by at most one notification of its end,
\* and no end is told of a problem that was not, whatever commands and restarts come
\* between and however flap detection is switched: if flap detection looks at the
\* problems of a service where it looks at its OK.
THEOREM AlwaysOneRecovery ==
    ASSUME FlapsAreSeen
    PROVE  Spec => []OneRecovery
<1>1. Init => Once(o)
  <2> SUFFICES ASSUME Init PROVE Once(o)
    OBVIOUS
  <2>1. /\ IsOk(o) /\ o.phase = "none" /\ o.notified_on = {} /\ o.is_flapping = FALSE
    BY DEF Init, IsOk, Fine
  <2> QED BY <2>1 DEF Once, ToldOnce, Restless, Marked
<1>2. IInv /\ Once(o) /\ [Next]_vars => Once(o)'
  BY OnceStep
<1>3. Once(o) => OneRecovery
  BY DEF Once, ToldOnce, OneRecovery
<1> QED BY <1>1, <1>2, <1>3, Inductive, PTL DEF Spec
=================================================================================
