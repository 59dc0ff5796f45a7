------------------------------ MODULE HostCheckProofs -----------------------------
(***************************************************************************)
(* Hard problems of hosts are earned, hosts know of their checks and hard  *)
(* problems stay hard, for every network of hosts, number of attempts and  *)
(* bound on commands and mishaps.                                          *)
(***************************************************************************)
EXTENDS HostCheck, SequenceTheorems, FiniteSetTheorems, TLAPS

\* A level of each host with its parents below it.
Level(c) == CHOOSE level \in [Host -> 1 .. Cardinality(Host)] : IsLevel(level, c)

\* The counting of attempts, for a host whose check has begun (it was counted) and for
\* one without a check: the failed checks are as many as the attempts.
CountedAs(state, type, k, max, f) ==
    /\ state = "UP" => k = 1
    /\ state # "UP" /\ type = "HARD" => f >= max /\ k = 1
    /\ state # "UP" /\ type = "SOFT" => 2 <= k /\ k <= max /\ f >= k - 1

IdleAs(state, type, k, max, f) ==
    /\ state = "UP" => k = 1
    /\ state # "UP" /\ type = "HARD" => f >= max
    /\ state # "UP" /\ type = "SOFT" => k < max /\ f >= k

Counted(r, f) == CountedAs(r.current_state, r.state_type, r.current_attempt, r.max_attempts, f)
Idle(r, f) == IdleAs(r.current_state, r.state_type, r.current_attempt, r.max_attempts, f)

Earned(r, f) == IF r.is_executing THEN Counted(r, f) ELSE Idle(r, f)

\* A host x and the bag b of checks: at most one check, in time and not forced, and
\* the host is executing if there is one.
Tracked(b, x, executing) ==
    /\ \A c \in BagToSet(b) : c.host = x =>
          b[c] = 1 /\ ~c.late /\ ~c.event.forced /\ executing
    /\ \A c, d \in BagToSet(b) : c.host = x /\ d.host = x => c = d
    /\ executing => \E c \in BagToSet(b) : c.host = x

CleanInv ==
    \A h \in Host : clean[h] =>
        Earned(hosts[h], fails[h]) /\ Tracked(out, h, hosts[h].is_executing)

\* Each of the calls checks parents of its host, for a host that has just failed its only
\* attempt; the call below it is the one that asked for that host.
CallsOK(stack, hs, fs, c) ==
    /\ \A i \in 1 .. Len(stack) :
          LET r == hs[stack[i].host]
          IN /\ r.current_state = "UP" /\ r.state_type = "HARD" /\ r.max_attempts = 1
             /\ fs[stack[i].host] >= 1
             /\ ToSet(stack[i].rest) \subseteq ToSet(c.parents[stack[i].host])
    /\ \A i, j \in 1 .. Len(stack) : i < j =>
          Level(c)[stack[i].host] < Level(c)[stack[j].host]

CallInv == CallsOK(calls, hosts, fails, config)

\* A host x that has an interval has its next check in sight, if it is to be checked: it is
\* on the event list, or will be put there when the check or the call that is under way for
\* the host ends.  And it is not executing when the time of its next check is long past.
Due(b, stack, x) ==
    \/ \E i \in 1 .. Len(stack) : stack[i].host = x
    \/ \E c \in BagToSet(b) : c.host = x /\ c.reschedule

Planned(b, stack, x, r) ==
    /\ r.is_executing => r.next_check # "past"
    /\ r.checks_enabled => /\ r.should_be_scheduled /\ r.next_check = "event"
                           /\ r.event # NoEvent \/ Due(b, stack, x)

PlanInv == \A h \in Host : clean[h] /\ h \notin OnDemand => Planned(out, calls, h, hosts[h])

CoreInv == TypeOK /\ CleanInv /\ CallInv

IInv == CoreInv /\ PlanInv

\* Where soft passive results and changes of the number of attempts do not meet: an
\* attempt is never beyond the last, or a host that is up is at attempt 1.
NeverBeyond == \A c \in Configs : ~c.soft \/ "attempts" \notin c.events

CalmAs(state, type, k, max, soft) ==
    /\ soft => k <= max
    /\ ~soft => (state = "UP" => k = 1)
    /\ state # "UP" /\ type = "HARD" => k \in {1, max}

Calm(r, soft) == CalmAs(r.current_state, r.state_type, r.current_attempt, r.max_attempts, soft)

CalmInv == \A h \in Host : Calm(hosts[h], config.soft)

FInv == IInv /\ CalmInv

---------------------------------------------------------------------------------
(* Bags of checks. *)

LEMMA BagAdd ==
    ASSUME NEW b, IsABag(b), NEW S
    PROVE  /\ IsABag(b (+) SetToBag(S))
           /\ BagToSet(b (+) SetToBag(S)) = BagToSet(b) \cup S
           /\ \A e \in S : e \notin BagToSet(b) => (b (+) SetToBag(S))[e] = 1
           /\ \A e \in BagToSet(b) : e \notin S => (b (+) SetToBag(S))[e] = b[e]
<1> DEFINE s == SetToBag(S)
           n == b (+) s
<1>1. DOMAIN s = S /\ \A e \in S : s[e] = 1
  BY DEF SetToBag
<1> HIDE DEF s
<1>2. n = [e \in (DOMAIN b) \cup S |->
             (IF e \in DOMAIN b THEN b[e] ELSE 0) + (IF e \in S THEN s[e] ELSE 0)]
  BY <1>1 DEF (+)
<1>3. b \in [DOMAIN b -> {k \in Nat : k > 0}]
  BY DEF IsABag
<1> HIDE DEF n
<1>4. DOMAIN n = (DOMAIN b) \cup S
  BY <1>2
<1>5. ASSUME NEW e \in DOMAIN n PROVE n[e] \in {k \in Nat : k > 0}
  BY <1>1, <1>2, <1>3, <1>4, <1>5
<1>6. n \in [DOMAIN n -> {k \in Nat : k > 0}]
  BY <1>2, <1>4, <1>5
<1>7. \A e \in S : e \notin DOMAIN b => n[e] = 1
  BY <1>1, <1>2
<1>8. \A e \in DOMAIN b : e \notin S => n[e] = b[e]
  BY <1>2, <1>3
<1> QED BY <1>4, <1>6, <1>7, <1>8 DEF n, s, IsABag, BagToSet

LEMMA BagTake ==
    ASSUME NEW b, IsABag(b), NEW c \in BagToSet(b)
    PROVE  /\ IsABag(b (-) SetToBag({c}))
           /\ BagToSet(b (-) SetToBag({c})) \subseteq BagToSet(b)
           /\ \A e \in BagToSet(b) : e # c =>
                /\ e \in BagToSet(b (-) SetToBag({c}))
                /\ (b (-) SetToBag({c}))[e] = b[e]
           /\ b[c] = 1 => c \notin BagToSet(b (-) SetToBag({c}))
<1> DEFINE s == SetToBag({c})
           n == b (-) s
           m == [e \in DOMAIN b |-> IF e = c THEN b[e] - 1 ELSE b[e]]
<1>1. DOMAIN s = {c} /\ s[c] = 1
  BY DEF SetToBag
<1> HIDE DEF s
<1>2. b \in [DOMAIN b -> {k \in Nat : k > 0}] /\ c \in DOMAIN b
  BY DEF IsABag, BagToSet
<1>3. [e \in DOMAIN b |-> IF e \in DOMAIN s THEN b[e] - s[e] ELSE b[e]] = m
  BY <1>1
<1>4. n = [e \in {d \in DOMAIN m : m[d] > 0} |-> m[e]]
  BY <1>3 DEF (-)
<1> HIDE DEF n
<1>5. /\ \A e \in DOMAIN n : e \in DOMAIN b /\ n[e] > 0 /\ n[e] \in Nat
      /\ \A e \in DOMAIN b : e # c => e \in DOMAIN n /\ n[e] = b[e]
      /\ b[c] = 1 => c \notin DOMAIN n
  BY <1>2, <1>4
<1>6. n = [e \in DOMAIN n |-> n[e]]
  BY <1>4
<1>7. n \in [DOMAIN n -> {k \in Nat : k > 0}]
  BY <1>5, <1>6
<1> QED BY <1>2, <1>5, <1>7 DEF n, s, IsABag, BagToSet

LEMMA BagSame ==
    ASSUME NEW b, IsABag(b)
    PROVE  b (+) SetToBag({}) = b
<1>1. b = [e \in DOMAIN b |-> b[e]] /\ \A e \in DOMAIN b : b[e] \in Nat
  BY DEF IsABag
<1>2. b (+) SetToBag({}) = [e \in DOMAIN b |-> b[e] + 0]
  BY DEF (+), SetToBag
<1> QED BY <1>1, <1>2

\* Checks S join the bag: x has one of them if it had none.
LEMMA TrackedAdd ==
    ASSUME NEW b, IsABag(b), NEW x, NEW executing \in BOOLEAN, Tracked(b, x, executing),
           NEW S,
           \A c \in S : c.host = x => ~c.late /\ ~c.event.forced,
           \A c, d \in S : c.host = x /\ d.host = x => c = d,
           (\E c \in S : c.host = x) => ~executing
    PROVE  Tracked(b (+) SetToBag(S), x, executing \/ \E c \in S : c.host = x)
<1> DEFINE n == b (+) SetToBag(S)
<1>1. /\ BagToSet(n) = BagToSet(b) \cup S
      /\ \A e \in S : e \notin BagToSet(b) => n[e] = 1
      /\ \A e \in BagToSet(b) : e \notin S => n[e] = b[e]
  BY BagAdd
<1> HIDE DEF n
<1>2. \A c \in BagToSet(b) : c.host = x => c \notin S
  BY DEF Tracked
<1>3. \A c \in S : c.host = x => \A d \in BagToSet(b) : d.host # x
  BY DEF Tracked
<1>4. Tracked(n, x, executing \/ \E c \in S : c.host = x)
  BY <1>1, <1>2, <1>3 DEF Tracked
<1> QED BY <1>4 DEF n

\* A check leaves the bag.
LEMMA TrackedTake ==
    ASSUME NEW b, IsABag(b), NEW x, NEW executing \in BOOLEAN, Tracked(b, x, executing),
           NEW c \in BagToSet(b)
    PROVE  Tracked(b (-) SetToBag({c}), x, IF c.host = x THEN FALSE ELSE executing)
<1> DEFINE n == b (-) SetToBag({c})
<1>1. /\ BagToSet(n) \subseteq BagToSet(b)
      /\ \A e \in BagToSet(b) : e # c => e \in BagToSet(n) /\ n[e] = b[e]
      /\ b[c] = 1 => c \notin BagToSet(n)
  BY BagTake
<1> HIDE DEF n
<1>2. CASE c.host = x
  <2>1. \A d \in BagToSet(n) : d.host # x
    BY <1>1, <1>2 DEF Tracked
  <2> QED BY <2>1, <1>2 DEF Tracked, n
<1>3. CASE c.host # x
  <2>1. \A d \in BagToSet(b) : d.host = x => d \in BagToSet(n) /\ n[d] = b[d]
    BY <1>1, <1>3
  <2>2. Tracked(n, x, executing)
    BY <1>1, <2>1 DEF Tracked
  <2> QED BY <2>2, <1>3 DEF n
<1> QED BY <1>2, <1>3

---------------------------------------------------------------------------------
(* What the rules make of a host. *)

\* What counting and scheduling of attempts look at.
SameCore(a, b) ==
    /\ a.current_state = b.current_state /\ a.state_type = b.state_type
    /\ a.current_attempt = b.current_attempt /\ a.max_attempts = b.max_attempts
    /\ a.is_executing = b.is_executing

CheckOptions == [active : BOOLEAN, soft : BOOLEAN, translate : BOOLEAN]

LEMMA Events ==
    /\ Plain # NoEvent /\ Forced # NoEvent /\ Freshened # NoEvent
    /\ ~Plain.forced /\ Forced.forced /\ Freshened.forced
    /\ ~Plain.fresh /\ ~Forced.fresh /\ Freshened.fresh
BY DEF NoEvent, Plain, Forced, Freshened

LEMMA AdjustedIs ==
    ASSUME NEW r \in HostType, NEW active \in BOOLEAN
    PROVE  /\ Adjusted(r, active) \in HostType
           /\ Adjusted(r, active) = [r EXCEPT !.current_attempt = Adjusted(r, active).current_attempt]
           /\ Adjusted(r, active).current_attempt =
                IF r.state_type = "HARD" \/ (active /\ r.current_state = "UP") THEN 1
                ELSE IF r.current_attempt < r.max_attempts THEN r.current_attempt + 1
                ELSE r.current_attempt
BY HighestAssumption DEF Adjusted, HostType

LEMMA AdjustedFields ==
    ASSUME NEW r \in HostType, NEW active \in BOOLEAN
    PROVE  /\ Adjusted(r, active).current_state = r.current_state
           /\ Adjusted(r, active).last_state = r.last_state
           /\ Adjusted(r, active).state_type = r.state_type
           /\ Adjusted(r, active).max_attempts = r.max_attempts
           /\ Adjusted(r, active).is_executing = r.is_executing
BY DEF Adjusted, HostType

LEMMA SavedIs ==
    ASSUME NEW r \in HostType
    PROVE  /\ Saved(r) \in HostType /\ SameCore(Saved(r), r)
           /\ Saved(r).last_state = r.current_state
BY DEF Saved, HostType, SameCore

LEMMA StartedIs ==
    ASSUME NEW r \in HostType
    PROVE  /\ Started(r) \in HostType
           /\ Started(r).current_state = r.current_state
           /\ Started(r).state_type = r.state_type
           /\ Started(r).max_attempts = r.max_attempts
           /\ Started(r).current_attempt = Adjusted(r, TRUE).current_attempt
           /\ Started(r).is_executing
<1>1. Adjusted(r, TRUE) \in HostType
  BY AdjustedIs
<1>2. Started(r) \in HostType
  BY <1>1 DEF Started, HostType
<1>3. /\ Started(r).current_state = Adjusted(r, TRUE).current_state
      /\ Started(r).state_type = Adjusted(r, TRUE).state_type
      /\ Started(r).max_attempts = Adjusted(r, TRUE).max_attempts
      /\ Started(r).current_attempt = Adjusted(r, TRUE).current_attempt
      /\ Started(r).is_executing
  BY <1>1 DEF Started, HostType
<1> QED BY <1>2, <1>3, AdjustedFields

LEMMA ScheduledIs ==
    ASSUME NEW r \in HostType, NEW e \in {Plain, Forced, Freshened}, NEW x \in Scheduled(r, e)
    PROVE  x \in HostType /\ SameCore(x, r)
<1> DEFINE kept == [r EXCEPT !.next_check = "event"]
           new == [kept EXCEPT !.event = e, !.options = e]
<1>1. x \in {r, kept, new}
  BY DEF Scheduled
<1>2. kept \in HostType /\ SameCore(kept, r)
  BY DEF HostType, NextCheck, SameCore
<1>3. new \in HostType /\ SameCore(new, r)
  <2> HIDE DEF kept
  <2> QED BY <1>2 DEF HostType, SameCore
<1> HIDE DEF kept, new
<1> QED BY <1>1, <1>2, <1>3 DEF SameCore

LEMMA ClearedIs ==
    ASSUME NEW r \in HostType
    PROVE  Cleared(r) \in HostType /\ SameCore(Cleared(r), r)
BY DEF Cleared, HostType, SameCore

LEMMA PostponedIs ==
    ASSUME NEW r \in HostType, NEW e \in {Plain, Forced, Freshened}, NEW x \in Postponed(r, e)
    PROVE  x \in HostType /\ SameCore(x, r)
BY ScheduledIs DEF Postponed, SameCore

LEMMA HandledIs ==
    ASSUME NEW r \in HostType
    PROVE  /\ Handled(r) \in HostType
           /\ Handled(r).current_state = r.current_state
           /\ Handled(r).state_type = r.state_type
           /\ Handled(r).max_attempts = r.max_attempts
           /\ Handled(r).is_executing = r.is_executing
           /\ r.current_state # "UP" => Handled(r).current_attempt = r.current_attempt
           /\ Handled(r).current_attempt \in {1, r.current_attempt}
           /\ r.current_state = "UP" /\ r.last_state # "UP" => Handled(r).current_attempt = 1
BY HighestAssumption DEF Handled, HostType, HostStateChange

WithState(r, state, type, k) ==
    [r EXCEPT !.current_state = state, !.state_type = type, !.current_attempt = k]

\* The two results that are not UP, with the fields they set.
LEMMA DownIs ==
    ASSUME NEW r \in HostType, NEW new \in HostState, new # "UP",
           NEW route \in {"DOWN", "UNREACHABLE"}, NEW check \in CheckOptions,
           NEW x, x = StillDown(r, new, route, check) \/ x = WentDown(r, new, route, check)
    PROVE  /\ x \in HostType /\ x.current_state # "UP"
           /\ x.max_attempts = r.max_attempts /\ x.is_executing = r.is_executing
           /\ x.last_state = r.last_state
           /\ x = StillDown(r, new, route, check) =>
                /\ x.state_type = IF HardAtOnce(check) \/ r.current_attempt \in {1, r.max_attempts}
                                  THEN "HARD" ELSE "SOFT"
                /\ x.current_attempt = IF HardAtOnce(check) THEN 1 ELSE r.current_attempt
           /\ x = WentDown(r, new, route, check) =>
                /\ x.state_type = IF HardAtOnce(check) \/ r.max_attempts = 1 THEN "HARD" ELSE "SOFT"
                /\ x.current_attempt = IF HardAtOnce(check) /\ r.max_attempts > 1 THEN 1
                                       ELSE r.current_attempt
<1> DEFINE state == IF check.active \/ check.translate THEN route ELSE new
           still == IF HardAtOnce(check) \/ r.current_attempt \in {1, r.max_attempts}
                    THEN "HARD" ELSE "SOFT"
           went == IF r.max_attempts = 1 \/ HardAtOnce(check) THEN "HARD" ELSE "SOFT"
           k == IF HardAtOnce(check) THEN 1 ELSE r.current_attempt
           m == IF r.max_attempts > 1 /\ HardAtOnce(check) THEN 1 ELSE r.current_attempt
<1>1. /\ state \in HostState /\ state # "UP" /\ still \in {"SOFT", "HARD"} /\ went \in {"SOFT", "HARD"}
      /\ k \in 1 .. Highest /\ m \in 1 .. Highest
  BY HighestAssumption DEF HostState, HostType
<1>2. /\ StillDown(r, new, route, check) = WithState(r, state, still, k)
      /\ WentDown(r, new, route, check) = WithState(r, state, went, m)
  BY DEF StillDown, WentDown, HostType, WithState
<1> HIDE DEF state, still, went, k, m
<1>3. ASSUME x = StillDown(r, new, route, check)
      PROVE  /\ x \in HostType /\ x.current_state = state /\ x.state_type = still
             /\ x.current_attempt = k /\ x.max_attempts = r.max_attempts
             /\ x.is_executing = r.is_executing /\ x.last_state = r.last_state
  <2>1. x = WithState(r, state, still, k)
    BY <1>2, <1>3
  <2> DEFINE y == WithState(r, state, still, k)
  <2>2. /\ y \in HostType /\ y.current_state = state /\ y.state_type = still
        /\ y.current_attempt = k /\ y.max_attempts = r.max_attempts
        /\ y.is_executing = r.is_executing /\ y.last_state = r.last_state
    BY <1>1 DEF HostType, WithState
  <2>3. x = y
    BY <2>1
  <2> HIDE DEF y
  <2> QED BY <2>2, <2>3, Zenon
<1>4. ASSUME x = WentDown(r, new, route, check)
      PROVE  /\ x \in HostType /\ x.current_state = state /\ x.state_type = went
             /\ x.current_attempt = m /\ x.max_attempts = r.max_attempts
             /\ x.is_executing = r.is_executing /\ x.last_state = r.last_state
  <2>1. x = WithState(r, state, went, m)
    BY <1>2, <1>4
  <2> DEFINE y == WithState(r, state, went, m)
  <2>2. /\ y \in HostType /\ y.current_state = state /\ y.state_type = went
        /\ y.current_attempt = m /\ y.max_attempts = r.max_attempts
        /\ y.is_executing = r.is_executing /\ y.last_state = r.last_state
    BY <1>1 DEF HostType, WithState
  <2>3. x = y
    BY <2>1
  <2> HIDE DEF y
  <2> QED BY <2>2, <2>3, Zenon
<1> QED BY <1>1, <1>3, <1>4 DEF still, went, k, m

LEMMA ProcessedIs ==
    ASSUME NEW r \in HostType, NEW new \in HostState, NEW route \in {"DOWN", "UNREACHABLE"},
           NEW check \in CheckOptions
    PROVE  /\ Processed(r, new, route, check) \in HostType
           /\ Processed(r, new, route, check).max_attempts = r.max_attempts
           /\ Processed(r, new, route, check).is_executing = r.is_executing
           /\ Processed(r, new, route, check).last_state = r.last_state
           /\ (Processed(r, new, route, check).current_state = "UP" <=> new = "UP")
<1>1. CASE r.current_state # "UP" /\ new = "UP"
  <2>1. Processed(r, new, route, check) = Recovered(r, check)
    BY <1>1 DEF Processed
  <2> QED BY <2>1, <1>1 DEF Recovered, HostType, HostState
<1>2. CASE r.current_state # "UP" /\ new # "UP"
  <2>1. Processed(r, new, route, check) = StillDown(r, new, route, check)
    BY <1>2 DEF Processed
  <2> QED BY <2>1, <1>2, DownIs
<1>3. CASE r.current_state = "UP" /\ new = "UP"
  <2>1. Processed(r, new, route, check) = StillUp(r)
    BY <1>3 DEF Processed
  <2> QED BY <2>1, <1>3 DEF StillUp, HostType, HostState
<1>4. CASE r.current_state = "UP" /\ new # "UP"
  <2>1. Processed(r, new, route, check) = WentDown(r, new, route, check)
    BY <1>4 DEF Processed
  <2> QED BY <2>1, <1>4, DownIs
<1> QED BY <1>1, <1>2, <1>3, <1>4

Fields(r) ==
    /\ r.current_attempt \in 1 .. Highest /\ r.max_attempts \in 1 .. Highest
    /\ r.state_type \in {"SOFT", "HARD"} /\ r.current_state \in HostState

LEMMA HostFields == ASSUME NEW r \in HostType PROVE Fields(r)
BY DEF HostType, Fields

\* Counting: what a host is when its check begins.
LEMMA BeginsAs ==
    ASSUME NEW state, NEW type \in {"SOFT", "HARD"}, NEW k \in 1 .. Highest,
           NEW max \in 1 .. Highest, NEW f \in 0 .. Highest, IdleAs(state, type, k, max, f),
           NEW n, n = IF type = "HARD" \/ state = "UP" THEN 1 ELSE IF k < max THEN k + 1 ELSE k
    PROVE  CountedAs(state, type, n, max, f)
BY HighestAssumption DEF CountedAs, IdleAs

LEMMA Begins ==
    ASSUME NEW r \in HostType, NEW f \in 0 .. Highest, Idle(r, f)
    PROVE  Counted(Adjusted(r, TRUE), f) /\ Earned(Started(r), f)
<1> DEFINE n == Adjusted(r, TRUE).current_attempt
<1>1. n = IF r.state_type = "HARD" \/ r.current_state = "UP" THEN 1
          ELSE IF r.current_attempt < r.max_attempts THEN r.current_attempt + 1
          ELSE r.current_attempt
  BY AdjustedIs
<1> HIDE DEF n
<1>2. CountedAs(r.current_state, r.state_type, n, r.max_attempts, f)
  BY <1>1, HostFields, BeginsAs DEF Idle, Fields
<1>3. /\ Adjusted(r, TRUE).current_state = r.current_state
      /\ Adjusted(r, TRUE).state_type = r.state_type
      /\ Adjusted(r, TRUE).max_attempts = r.max_attempts
      /\ Adjusted(r, TRUE).current_attempt = n
  BY AdjustedFields DEF n
<1>4. Counted(Adjusted(r, TRUE), f)
  BY <1>2, <1>3, Zenon DEF Counted
<1>5. /\ Started(r).current_state = r.current_state
      /\ Started(r).state_type = r.state_type
      /\ Started(r).max_attempts = r.max_attempts
      /\ Started(r).current_attempt = n
      /\ Started(r).is_executing
  BY StartedIs DEF n
<1>6. Counted(Started(r), f)
  BY <1>2, <1>5, Zenon DEF Counted
<1> QED BY <1>4, <1>5, <1>6 DEF Earned

\* What a result makes of the attempts: state, type and k before it, then n after it.
LEMMA DownAs ==
    ASSUME NEW state, NEW type \in {"SOFT", "HARD"}, NEW k \in 1 .. Highest,
           NEW max \in 1 .. Highest, NEW f \in 0 .. Highest, CountedAs(state, type, k, max, f),
           NEW new, new # "UP",
           NEW hard, hard = IF IF state = "UP" THEN max = 1 ELSE k \in {1, max}
                            THEN "HARD" ELSE "SOFT"
    PROVE  IdleAs(new, hard, k, max, CappedInc(f))
<1>1. /\ CappedInc(f) \in Nat /\ CappedInc(f) >= 1
      /\ (f < Highest => CappedInc(f) = f + 1) /\ (f >= Highest => CappedInc(f) = Highest)
  BY HighestAssumption DEF CappedInc
<1>2. CASE state = "UP"
  BY <1>1, <1>2, HighestAssumption DEF CountedAs, IdleAs
<1>3. CASE state # "UP" /\ type = "HARD"
  BY <1>1, <1>3, HighestAssumption DEF CountedAs, IdleAs
<1>4. CASE state # "UP" /\ type = "SOFT"
  BY <1>1, <1>4, HighestAssumption DEF CountedAs, IdleAs
<1> QED BY <1>2, <1>3, <1>4

\* The result of a check that was counted.
LEMMA Outcome ==
    ASSUME NEW r \in HostType, NEW f \in 0 .. Highest, Counted(r, f), ~r.is_executing,
           r.last_state = r.current_state,
           NEW new \in {"UP", "DOWN"}, NEW route \in {"DOWN", "UNREACHABLE"}
    PROVE  Earned(Handled(Processed(r, new, route, Active)),
                  IF new = "UP" THEN 0 ELSE CappedInc(f))
<1> DEFINE p == Processed(r, new, route, Active)
           x == Handled(p)
<1>0. Active \in CheckOptions /\ ~HardAtOnce(Active) /\ new \in HostState
  BY DEF Active, CheckOptions, HardAtOnce, HostState
<1>1. /\ p \in HostType /\ p.max_attempts = r.max_attempts /\ ~p.is_executing
      /\ p.last_state = r.current_state /\ (p.current_state = "UP" <=> new = "UP")
  BY <1>0, ProcessedIs
<1>2. /\ x \in HostType /\ x.current_state = p.current_state /\ x.state_type = p.state_type
      /\ x.max_attempts = r.max_attempts /\ ~x.is_executing
      /\ x.current_state # "UP" => x.current_attempt = p.current_attempt
      /\ x.current_attempt \in {1, p.current_attempt}
      /\ p.current_state = "UP" /\ p.last_state # "UP" => x.current_attempt = 1
  <2> HIDE DEF p
  <2> QED BY <1>1, HandledIs
<1>3. CASE new = "UP"
  <2>1. x.current_attempt = 1
    <3>1. CASE r.current_state = "UP"
      <4>1. p = StillUp(r)
        BY <1>3, <3>1 DEF Processed
      <4>2. p.current_attempt = r.current_attempt
        BY <4>1 DEF StillUp, HostType
      <4>3. r.current_attempt = 1
        BY <3>1 DEF Counted, CountedAs
      <4> QED BY <4>2, <4>3, <1>2
    <3>2. CASE r.current_state # "UP"
      BY <3>2, <1>1, <1>2, <1>3
    <3> QED BY <3>1, <3>2
  <2>2. x.current_state = "UP"
    BY <1>1, <1>2, <1>3
  <2>3. Idle(x, 0)
    <3> HIDE DEF x
    <3> QED BY <2>1, <2>2 DEF Idle, IdleAs
  <2> QED BY <2>3, <1>2, <1>3 DEF Earned
<1>4. CASE new = "DOWN"
  <2> DEFINE hard == IF IF r.current_state = "UP" THEN r.max_attempts = 1
                        ELSE r.current_attempt \in {1, r.max_attempts}
                     THEN "HARD" ELSE "SOFT"
  <2>1. p.current_attempt = r.current_attempt /\ p.state_type = hard
    <3>1. CASE r.current_state = "UP"
      <4>1. p = WentDown(r, new, route, Active)
        BY <1>4, <3>1 DEF Processed
      <4> QED BY <4>1, <1>0, <1>4, <3>1, DownIs
    <3>2. CASE r.current_state # "UP"
      <4>1. p = StillDown(r, new, route, Active)
        BY <1>4, <3>2 DEF Processed
      <4> QED BY <4>1, <1>0, <1>4, <3>2, DownIs
    <3> QED BY <3>1, <3>2
  <2>2. IdleAs(p.current_state, hard, r.current_attempt, r.max_attempts, CappedInc(f))
    <3>1. p.current_state # "UP"
      BY <1>1, <1>4
    <3> HIDE DEF p
    <3> QED BY <3>1, HostFields, DownAs DEF Counted, Fields
  <2>3. /\ x.current_state = p.current_state /\ x.state_type = hard
        /\ x.current_attempt = r.current_attempt /\ x.max_attempts = r.max_attempts
    BY <2>1, <1>1, <1>2, <1>4
  <2>4. Idle(x, CappedInc(f))
    <3> HIDE DEF x, p, hard
    <3> QED BY <2>2, <2>3, Zenon DEF Idle
  <2> QED BY <2>4, <1>2, <1>4 DEF Earned
<1> QED BY <1>3, <1>4

\* A host goes on as it was as far as attempts are concerned.
LEMMA EarnedSame ==
    ASSUME NEW r, NEW x, NEW f, Earned(r, f), SameCore(x, r)
    PROVE  Earned(x, f)
BY Zenon DEF Earned, Counted, Idle, SameCore

---------------------------------------------------------------------------------
(* The stack of calls. *)

\* The host is on a lower level than those of the calls.
Below(h, stack, c) ==
    \A i \in 1 .. Len(stack) : Level(c)[h] < Level(c)[stack[i].host]

\* What the calls ask of their hosts.
SameFrame(a, b) ==
    /\ a.current_state = b.current_state /\ a.state_type = b.state_type
    /\ a.max_attempts = b.max_attempts

LEMMA LevelIs ==
    ASSUME NEW c \in Configs
    PROVE  /\ \A h \in Host : Level(c)[h] \in Nat
           /\ \A h \in Host : \A p \in ToSet(c.parents[h]) :
                 p \in Host /\ Level(c)[p] < Level(c)[h]
<1>1. Level(c) \in [Host -> 1 .. Cardinality(Host)] /\ IsLevel(Level(c), c)
  BY LevelsAssumption DEF Level
<1>2. Cardinality(Host) \in Nat
  BY LevelsAssumption, FS_CardinalityType
<1>3. \A h \in Host : \A p \in ToSet(c.parents[h]) : p \in Host
  <2> TAKE h \in Host
  <2>1. c.parents[h] \in Seq(Host)
    BY ConfigsAssumption
  <2> QED BY <2>1 DEF ToSet
<1> QED BY <1>1, <1>2, <1>3 DEF IsLevel

LEMMA BelowDiffers ==
    ASSUME NEW c \in Configs, NEW stack \in Seq(CallType), NEW h \in Host, Below(h, stack, c)
    PROVE  \A i \in 1 .. Len(stack) : stack[i].host \in Host /\ stack[i].host # h
<1> TAKE i \in 1 .. Len(stack)
<1>1. stack[i] \in CallType
  OBVIOUS
<1>2. stack[i].host \in Host
  BY <1>1 DEF CallType
<1> QED BY <1>2, LevelIs DEF Below

LEMMA CallsKeep ==
    ASSUME NEW stack, NEW hs, NEW fs, NEW hs2, NEW fs2, NEW c, CallsOK(stack, hs, fs, c),
           \A i \in 1 .. Len(stack) : /\ SameFrame(hs2[stack[i].host], hs[stack[i].host])
                                      /\ fs2[stack[i].host] = fs[stack[i].host]
    PROVE  CallsOK(stack, hs2, fs2, c)
BY DEF CallsOK, SameFrame

LEMMA CallsNone ==
    ASSUME NEW hs, NEW fs, NEW c
    PROVE  CallsOK(<<>>, hs, fs, c) /\ <<>> \in Seq(CallType) /\ \A h : Below(h, <<>>, c)
BY DEF CallsOK, Below

LEMMA CallsPush ==
    ASSUME NEW stack \in Seq(CallType), NEW hs, NEW fs, NEW c, CallsOK(stack, hs, fs, c),
           NEW f \in CallType, Below(f.host, stack, c),
           hs[f.host].current_state = "UP", hs[f.host].state_type = "HARD",
           hs[f.host].max_attempts = 1, fs[f.host] >= 1,
           ToSet(f.rest) \subseteq ToSet(c.parents[f.host])
    PROVE  /\ CallsOK(<<f>> \o stack, hs, fs, c) /\ <<f>> \o stack \in Seq(CallType)
<1> DEFINE n == <<f>> \o stack
<1>1. /\ n \in Seq(CallType) /\ Len(n) = Len(stack) + 1 /\ n[1] = f
      /\ \A i \in 2 .. Len(n) : n[i] = stack[i - 1] /\ i - 1 \in 1 .. Len(stack)
  OBVIOUS
<1>2. Len(stack) \in Nat
  OBVIOUS
<1> HIDE DEF n
<1>3. ASSUME NEW i \in 1 .. Len(n)
      PROVE  LET r == hs[n[i].host]
             IN /\ r.current_state = "UP" /\ r.state_type = "HARD" /\ r.max_attempts = 1
                /\ fs[n[i].host] >= 1
                /\ ToSet(n[i].rest) \subseteq ToSet(c.parents[n[i].host])
  <2>1. CASE i = 1
    BY <2>1, <1>1
  <2>2. CASE i # 1
    <3>1. n[i] = stack[i - 1] /\ i - 1 \in 1 .. Len(stack)
      BY <1>1, <1>2, <2>2
    <3> QED BY <3>1 DEF CallsOK
  <2> QED BY <2>1, <2>2
<1>4. ASSUME NEW i \in 1 .. Len(n), NEW j \in 1 .. Len(n), i < j
      PROVE  Level(c)[n[i].host] < Level(c)[n[j].host]
  <2>1. n[j] = stack[j - 1] /\ j - 1 \in 1 .. Len(stack)
    BY <1>1, <1>2, <1>4
  <2>2. CASE i = 1
    BY <2>1, <2>2, <1>1 DEF Below
  <2>3. CASE i # 1
    <3>1. n[i] = stack[i - 1] /\ i - 1 \in 1 .. Len(stack) /\ i - 1 < j - 1
      BY <1>1, <1>2, <1>4, <2>3
    <3> QED BY <2>1, <3>1 DEF CallsOK
  <2> QED BY <2>2, <2>3
<1>5. CallsOK(n, hs, fs, c)
  BY <1>3, <1>4 DEF CallsOK
<1> QED BY <1>1, <1>5 DEF n

LEMMA CallsPop ==
    ASSUME NEW stack \in Seq(CallType), stack # <<>>, NEW hs, NEW fs, NEW c,
           CallsOK(stack, hs, fs, c)
    PROVE  LET f == Head(stack)
           IN /\ f \in CallType /\ Tail(stack) \in Seq(CallType)
              /\ CallsOK(Tail(stack), hs, fs, c) /\ Below(f.host, Tail(stack), c)
              /\ hs[f.host].current_state = "UP" /\ hs[f.host].state_type = "HARD"
              /\ hs[f.host].max_attempts = 1 /\ fs[f.host] >= 1
              /\ ToSet(f.rest) \subseteq ToSet(c.parents[f.host])
<1> DEFINE t == Tail(stack)
           f == Head(stack)
<1>1. /\ t \in Seq(CallType) /\ Len(t) = Len(stack) - 1 /\ f = stack[1] /\ f \in CallType
      /\ \A i \in 1 .. Len(t) : t[i] = stack[i + 1] /\ i + 1 \in 2 .. Len(stack)
  OBVIOUS
<1>2. Len(stack) \in Nat /\ 1 \in 1 .. Len(stack) /\ Len(t) \in Nat
  OBVIOUS
<1> HIDE DEF t, f
<1>3. CallsOK(t, hs, fs, c)
  <2>1. ASSUME NEW i \in 1 .. Len(t)
        PROVE  LET r == hs[t[i].host]
               IN /\ r.current_state = "UP" /\ r.state_type = "HARD" /\ r.max_attempts = 1
                  /\ fs[t[i].host] >= 1
                  /\ ToSet(t[i].rest) \subseteq ToSet(c.parents[t[i].host])
    <3>1. t[i] = stack[i + 1] /\ i + 1 \in 1 .. Len(stack)
      BY <1>1, <1>2
    <3> QED BY <3>1 DEF CallsOK
  <2>2. ASSUME NEW i \in 1 .. Len(t), NEW j \in 1 .. Len(t), i < j
        PROVE  Level(c)[t[i].host] < Level(c)[t[j].host]
    <3>1. /\ t[i] = stack[i + 1] /\ i + 1 \in 1 .. Len(stack) /\ i + 1 < j + 1
          /\ t[j] = stack[j + 1] /\ j + 1 \in 1 .. Len(stack)
      BY <1>1, <1>2, <2>2
    <3> QED BY <3>1 DEF CallsOK
  <2> QED BY <2>1, <2>2 DEF CallsOK
<1>4. Below(f.host, t, c)
  <2>1. \A i \in 1 .. Len(t) : t[i] = stack[i + 1] /\ i + 1 \in 1 .. Len(stack) /\ 1 < i + 1
    BY <1>1, <1>2
  <2>2. \A j \in 1 .. Len(stack) : 1 < j => Level(c)[stack[1].host] < Level(c)[stack[j].host]
    BY <1>2 DEF CallsOK
  <2> QED BY <2>1, <2>2, <1>1 DEF Below
<1>5. /\ hs[f.host].current_state = "UP" /\ hs[f.host].state_type = "HARD"
      /\ hs[f.host].max_attempts = 1 /\ fs[f.host] >= 1
      /\ ToSet(f.rest) \subseteq ToSet(c.parents[f.host])
  BY <1>1, <1>2 DEF CallsOK
<1> QED BY <1>1, <1>3, <1>4, <1>5 DEF t, f

---------------------------------------------------------------------------------
(* Results. *)

\* The checks of the hosts A begin.
StartedAll(hs, A) == [x \in Host |-> IF x \in A THEN Started(hs[x]) ELSE hs[x]]
ChecksOf(A) == {Check(x, Plain, FALSE) : x \in A}

LEMMA ChecksAre ==
    ASSUME NEW A \in SUBSET Host
    PROVE  /\ ChecksOf(A) \subseteq CheckType
           /\ \A c \in ChecksOf(A) : c.host \in A /\ c = Check(c.host, Plain, FALSE)
                                     /\ ~c.late /\ ~c.event.forced
           /\ \A x \in A : \E c \in ChecksOf(A) : c.host = x
<1>1. ASSUME NEW x \in Host
      PROVE  LET c == Check(x, Plain, FALSE)
             IN c \in CheckType /\ c.host = x /\ ~c.late /\ ~c.event.forced
  BY Events DEF Check, CheckType, Ping
<1> QED BY <1>1 DEF ChecksOf

LEMMA AskedClean ==
    ASSUME NEW r \in HostType, NEW f \in 0 .. Highest, NEW b, IsABag(b), NEW A \in SUBSET Host,
           NEW x \in Host, x \in A => ~r.is_executing,
           Earned(r, f), Tracked(b, x, r.is_executing),
           NEW z, z = IF x \in A THEN Started(r) ELSE r
    PROVE  Earned(z, f) /\ Tracked(b (+) SetToBag(ChecksOf(A)), x, z.is_executing)
<1> DEFINE S == ChecksOf(A)
<1>a. /\ \A c \in S : c.host \in A /\ c = Check(c.host, Plain, FALSE)
                                     /\ ~c.late /\ ~c.event.forced
      /\ \A y \in A : \E c \in S : c.host = y
  BY ChecksAre
<1> HIDE DEF S
<1>1. /\ \A c \in S : c.host = x => ~c.late /\ ~c.event.forced
      /\ \A c, d \in S : c.host = x /\ d.host = x => c = d
      /\ (\E c \in S : c.host = x) <=> x \in A
  <2>1. \A c, d \in S : c.host = x /\ d.host = x => c = d
    BY <1>a
  <2>2. (\E c \in S : c.host = x) <=> x \in A
    BY <1>a
  <2> QED BY <1>a, <2>1, <2>2
<1>2. r.is_executing \in BOOLEAN
  BY DEF HostType
<1> HIDE DEF S
<1>3. Tracked(b (+) SetToBag(S), x, r.is_executing \/ \E c \in S : c.host = x)
  BY <1>1, <1>2, TrackedAdd
<1>4. CASE x \in A
  <2>1. Earned(z, f)
    BY <1>4, Begins DEF Earned
  <2>2. z.is_executing
    BY <1>4, StartedIs
  <2>3. (r.is_executing \/ \E c \in S : c.host = x) = TRUE /\ z.is_executing = TRUE
    BY <1>1, <1>4, <2>2, StartedIs DEF HostType
  <2> QED BY <1>3, <2>1, <2>3 DEF S
<1>5. CASE x \notin A
  <2>1. (r.is_executing \/ \E c \in S : c.host = x) = r.is_executing
    BY <1>1, <1>2, <1>5
  <2> QED BY <1>3, <1>5, <2>1 DEF S
<1> QED BY <1>4, <1>5

\* What a result leaves: r is the host it is of, A are those whose checks begin.
Shaped(r, A, hs, h, left, stack) ==
    /\ SameCore(r, Handled(hs[h]))
    /\ hosts' = StartedAll([hs EXCEPT ![h] = r], A)
    /\ \A x \in A : ~[hs EXCEPT ![h] = r][x].is_executing
    /\ out' = left (+) SetToBag(ChecksOf(A)) /\ calls' = stack

LEMMA FinishShape ==
    ASSUME config \in Configs, NEW hs \in [Host -> HostType], NEW h \in Host,
           NEW wanted, NEW left, NEW stack, Finish(hs, h, wanted, left, stack)
    PROVE  \E r \in HostType, A \in SUBSET Host : Shaped(r, A, hs, h, left, stack)
<1> DEFINE t == Handled(hs[h])
           next == Reschedules(hs[h], wanted)
           again == next /\ ShouldBeScheduled(t, h)
           s == IF next THEN [t EXCEPT !.next_check = "set", !.should_be_scheduled = again] ELSE t
           A == Asked(hs, h)
<1>1. t \in HostType /\ t.is_executing = hs[h].is_executing
  BY HandledIs
<1>2. s \in HostType /\ SameCore(s, t)
  <2> HIDE DEF t
  <2> DEFINE u == [t EXCEPT !.next_check = "set", !.should_be_scheduled = again]
  <2>0. again \in BOOLEAN
    BY <1>1 DEF Reschedules, ShouldBeScheduled, HostType
  <2> HIDE DEF again
  <2>1. u \in HostType /\ SameCore(u, t)
    BY <1>1, <2>0 DEF HostType, NextCheck, SameCore
  <2>2. SameCore(t, t)
    BY DEF SameCore
  <2> QED BY <2>1, <2>2, <1>1
<1>3. PICK q \in (IF again THEN Scheduled(s, Plain) ELSE {s}) :
        /\ hosts' = [x \in Host |-> LET y == IF x = h THEN AtRest(q) ELSE hs[x]
                                    IN IF x \in A THEN Started(y) ELSE y]
        /\ out' = left (+) SetToBag({Check(x, Plain, FALSE) : x \in A})
        /\ calls' = stack
  BY DEF Finish
<1> HIDE DEF s, again
<1>4. q \in HostType /\ SameCore(q, s)
  <2>1. CASE q \in Scheduled(s, Plain)
    BY <2>1, <1>2, ScheduledIs
  <2>2. CASE q = s
    BY <2>2, <1>2 DEF SameCore
  <2> QED BY <1>3, <2>1, <2>2
<1> DEFINE r == AtRest(q)
<1>5. r \in HostType /\ SameCore(r, q)
  BY <1>4 DEF AtRest, HostType, SameCore
<1>6. SameCore(r, t)
  BY <1>2, <1>4, <1>5, Zenon DEF SameCore
<1>7. A \subseteq Host /\ \A x \in A : ~hs[x].is_executing
  <2>1. A \subseteq AsksFor(hs, h) /\ \A x \in A : ~hs[x].is_executing
    BY DEF Asked
  <2>2. AsksFor(hs, h) \subseteq ParentSet(h) \cup Children(h) \cup Masters(h)
    BY DEF AsksFor
  <2>3. ParentSet(h) \subseteq Host /\ Children(h) \subseteq Host /\ Masters(h) \subseteq Host
    BY LevelIs, ConfigsAssumption DEF ParentSet, Parents, Children, Masters
  <2> QED BY <2>1, <2>2, <2>3
<1> DEFINE ys == [hs EXCEPT ![h] = r]
<1> HIDE DEF r, t, A
<1>8. \A x \in Host : ys[x] = IF x = h THEN r ELSE hs[x]
  OBVIOUS
<1>9. hosts' = StartedAll(ys, A)
  BY <1>3, <1>8 DEF StartedAll, r
<1>10. \A x \in A : ~ys[x].is_executing
  BY <1>1, <1>6, <1>7, <1>8 DEF SameCore
<1>11. out' = left (+) SetToBag(ChecksOf(A)) /\ calls' = stack
  BY <1>3 DEF ChecksOf
<1>12. SameCore(r, Handled(hs[h]))
  BY <1>6 DEF t
<1>13. Shaped(r, A, hs, h, left, stack)
  BY <1>9, <1>10, <1>11, <1>12 DEF Shaped, ys
<1> QED BY <1>5, <1>7, <1>13

\* All of a step's state that a result is concerned with, for the hosts C that are clean.
Sound(hs, fs, b, stack, C) ==
    /\ hs \in [Host -> HostType] /\ fs \in [Host -> 0 .. Highest]
    /\ IsABag(b) /\ BagToSet(b) \subseteq CheckType
    /\ stack \in Seq(CallType) /\ CallsOK(stack, hs, fs, config)
    /\ \A x \in C : Earned(hs[x], fs[x]) /\ Tracked(b, x, hs[x].is_executing)

LEMMA FinishKeeps ==
    ASSUME config \in Configs, NEW hs, NEW fs, NEW left, NEW stack, NEW C \in SUBSET Host,
           NEW h \in Host, NEW wanted,
           Sound(hs, fs, left, stack, C \ {h}),
           h \in C => /\ Earned(Handled(hs[h]), fs[h])
                      /\ Tracked(left, h, hs[h].is_executing),
           Finish(hs, h, wanted, left, stack)
    PROVE  Sound(hosts', fs, out', calls', C)
<1>0. /\ hs \in [Host -> HostType] /\ fs \in [Host -> 0 .. Highest]
      /\ IsABag(left) /\ BagToSet(left) \subseteq CheckType
      /\ stack \in Seq(CallType) /\ CallsOK(stack, hs, fs, config)
      /\ \A x \in C : x # h => Earned(hs[x], fs[x]) /\ Tracked(left, x, hs[x].is_executing)
  BY DEF Sound
<1>a. PICK r \in HostType, A \in SUBSET Host : Shaped(r, A, hs, h, left, stack)
  BY <1>0, FinishShape
<1>1. /\ SameCore(r, Handled(hs[h]))
      /\ hosts' = StartedAll([hs EXCEPT ![h] = r], A)
      /\ \A x \in A : ~[hs EXCEPT ![h] = r][x].is_executing
      /\ out' = left (+) SetToBag(ChecksOf(A)) /\ calls' = stack
  BY <1>a DEF Shaped
<1> DEFINE ys == [hs EXCEPT ![h] = r]
<1>2. ys \in [Host -> HostType] /\ \A x \in Host : ys[x] = IF x = h THEN r ELSE hs[x]
  BY <1>0
<1>3. hosts' = StartedAll(ys, A) /\ \A x \in A : ~ys[x].is_executing
  BY <1>1
<1> HIDE DEF ys
<1>4. \A x \in Host : hosts'[x] = IF x \in A THEN Started(ys[x]) ELSE ys[x]
  BY <1>3 DEF StartedAll
<1>5. hosts' \in [Host -> HostType]
  <2>1. \A x \in Host : hosts'[x] \in HostType
    BY <1>2, <1>4, StartedIs
  <2>2. hosts' = [x \in Host |-> hosts'[x]]
    BY <1>3, <1>4 DEF StartedAll
  <2> QED BY <2>1, <2>2
<1>6. IsABag(out') /\ BagToSet(out') \subseteq CheckType
  <2>1. ChecksOf(A) \subseteq CheckType
    BY ChecksAre
  <2>2. /\ IsABag(left (+) SetToBag(ChecksOf(A)))
        /\ BagToSet(left (+) SetToBag(ChecksOf(A))) = BagToSet(left) \cup ChecksOf(A)
    BY <1>0, BagAdd
  <2> QED BY <1>0, <1>1, <2>1, <2>2
<1>7. CallsOK(stack, hosts', fs, config)
  <2>1. ASSUME NEW x \in Host PROVE SameFrame(hosts'[x], hs[x])
    <3>1. SameFrame(ys[x], hs[x])
      <4>1. SameFrame(r, hs[h])
        BY <1>0, <1>1, HandledIs, Zenon DEF SameCore, SameFrame
      <4> QED BY <1>2, <4>1 DEF SameFrame
    <3>2. SameFrame(hosts'[x], ys[x])
      BY <1>2, <1>4, StartedIs DEF SameFrame
    <3> QED BY <3>1, <3>2 DEF SameFrame
  <2>2. ASSUME NEW i \in 1 .. Len(stack) PROVE stack[i].host \in Host
    <3>1. stack[i] \in CallType
      BY <1>0
    <3> QED BY <3>1 DEF CallType
  <2> QED BY <1>0, <2>1, <2>2, CallsKeep
<1>8. ASSUME NEW x \in C
      PROVE  Earned(hosts'[x], fs[x]) /\ Tracked(out', x, hosts'[x].is_executing)
  <2>1. Earned(ys[x], fs[x]) /\ Tracked(left, x, ys[x].is_executing)
    <3>1. CASE x = h
      <4>1. ys[x] = r
        BY <1>2, <3>1
      <4>2. Earned(r, fs[h])
        BY <1>1, <3>1, <1>8, EarnedSame
      <4>3. r.is_executing = hs[h].is_executing
        BY <1>0, <1>1, HandledIs DEF SameCore
      <4> QED BY <3>1, <1>8, <4>1, <4>2, <4>3
    <3>2. CASE x # h
      BY <1>0, <1>2, <1>8, <3>2
    <3> QED BY <3>1, <3>2
  <2>2. fs[x] \in 0 .. Highest /\ ys[x] \in HostType
    BY <1>0, <1>2
  <2>3. /\ Earned(hosts'[x], fs[x])
        /\ Tracked(left (+) SetToBag(ChecksOf(A)), x, hosts'[x].is_executing)
    BY <1>0, <1>3, <1>4, <2>1, <2>2, AskedClean
  <2> QED BY <1>1, <2>3
<1> QED BY <1>0, <1>1, <1>5, <1>6, <1>7, <1>8 DEF Sound

LEMMA CappedIncIs ==
    ASSUME NEW n \in 0 .. Highest
    PROVE  CappedInc(n) \in 0 .. Highest /\ CappedInc(n) >= 1
BY HighestAssumption DEF CappedInc

\* A host whose attempts were counted and that is up, and its parents are checked.
LEMMA Waiting ==
    ASSUME NEW r \in HostType, NEW f, NEW g, Counted(r, f), r.current_state = "UP",
           ~r.is_executing
    PROVE  Earned([r EXCEPT !.state_type = "HARD"], g)
<1> DEFINE x == [r EXCEPT !.state_type = "HARD"]
<1>1. /\ x.current_state = "UP" /\ x.current_attempt = r.current_attempt
      /\ ~x.is_executing
  BY DEF HostType
<1>2. r.current_attempt = 1
  BY DEF Counted, CountedAs
<1> HIDE DEF x
<1>3. Idle(x, g)
  BY <1>1, <1>2 DEF Idle, IdleAs
<1>4. Earned(x, g)
  BY <1>1, <1>3 DEF Earned
<1> QED BY <1>4 DEF x

LEMMA ProcessKeeps ==
    ASSUME config \in Configs, NEW hs, NEW left, NEW stack, NEW C \in SUBSET Host,
           NEW h \in Host, NEW new \in HostState, NEW check \in CheckOptions,
           NEW wanted,
           Sound(hs, fails, left, stack, C \ {h}), Below(h, stack, config),
           h \in C => /\ check = Active /\ new \in {"UP", "DOWN"}
                      /\ Counted(hs[h], fails[h]) /\ ~hs[h].is_executing
                      /\ hs[h].last_state = hs[h].current_state
                      /\ Tracked(left, h, FALSE),
           Process(hs, h, new, check, wanted, left, stack)
    PROVE  Sound(hosts', fails', out', calls', C)
<1>0. /\ hs \in [Host -> HostType] /\ fails \in [Host -> 0 .. Highest]
      /\ IsABag(left) /\ BagToSet(left) \subseteq CheckType
      /\ stack \in Seq(CallType) /\ CallsOK(stack, hs, fails, config)
      /\ \A x \in C : x # h => Earned(hs[x], fails[x]) /\ Tracked(left, x, hs[x].is_executing)
  BY DEF Sound
<1>1. fails' = [fails EXCEPT ![h] = IF new = "UP" THEN 0 ELSE CappedInc(@)]
  BY DEF Process
<1>2. /\ fails' \in [Host -> 0 .. Highest]
      /\ \A x \in Host : x # h => fails'[x] = fails[x]
      /\ fails'[h] = IF new = "UP" THEN 0 ELSE CappedInc(fails[h])
  <2>1. 0 \in 0 .. Highest /\ CappedInc(fails[h]) \in 0 .. Highest
    BY <1>0, CappedIncIs, HighestAssumption
  <2> QED BY <1>0, <1>1, <2>1
<1>3. \A i \in 1 .. Len(stack) : stack[i].host \in Host /\ stack[i].host # h
  BY <1>0, BelowDiffers
<1>4. CASE Serial(hs[h], new, check) /\ Parents(h) # <<>>
  <2> DEFINE r == [hs[h] EXCEPT !.state_type = "HARD"]
             ys == [hs EXCEPT ![h] = r]
             f == [host |-> h, rest |-> Parents(h), state |-> "UP", asked |-> FALSE]
  <2>1. hosts' = ys /\ calls' = <<f>> \o stack /\ out' = left
    <3>1. /\ hosts' = [hs EXCEPT ![h].state_type = "HARD"]
          /\ calls' = <<f>> \o stack /\ out' = left
      BY <1>4 DEF Process
    <3> QED BY <3>1
  <2>2. r \in HostType /\ hs[h] \in HostType
    <3>1. hs[h] \in HostType
      BY <1>0
    <3> QED BY <3>1 DEF HostType
  <2>3. /\ ys \in [Host -> HostType] /\ ys[h] = r
        /\ \A x \in Host : x # h => ys[x] = hs[x]
    BY <1>0, <2>2
  <2>4. /\ r.current_state = "UP" /\ r.state_type = "HARD" /\ r.max_attempts = 1
        /\ hs[h].current_state = "UP" /\ new # "UP" /\ r.is_executing = hs[h].is_executing
    BY <1>4, <2>2 DEF Serial, HostType
  <2>5. f \in CallType /\ ToSet(f.rest) \subseteq ToSet(config.parents[h])
    <3>1. Parents(h) \in Seq(Host)
      BY ConfigsAssumption DEF Parents
    <3> QED BY <3>1 DEF CallType, HostState, Parents
  <2>6. fails'[h] >= 1
    BY <1>0, <1>2, <2>4, CappedIncIs
  <2>7. CallsOK(stack, ys, fails', config)
    <3>1. \A i \in 1 .. Len(stack) : /\ SameFrame(ys[stack[i].host], hs[stack[i].host])
                                     /\ fails'[stack[i].host] = fails[stack[i].host]
      BY <1>2, <1>3, <2>3 DEF SameFrame
    <3> HIDE DEF ys
    <3> QED BY <1>0, <3>1, CallsKeep
  <2>8. CallsOK(<<f>> \o stack, ys, fails', config) /\ <<f>> \o stack \in Seq(CallType)
    <3>1. f.host = h
      OBVIOUS
    <3> HIDE DEF ys, r, f
    <3> QED BY <1>0, <2>3, <2>4, <2>5, <2>6, <2>7, <3>1, CallsPush
  <2>9. ASSUME NEW x \in C
        PROVE  Earned(ys[x], fails'[x]) /\ Tracked(left, x, ys[x].is_executing)
    <3>1. CASE x = h
      <4>1. Earned(r, fails'[h])
        BY <2>2, <2>4, <2>9, <3>1, Waiting
      <4>2. Tracked(left, h, r.is_executing)
        <5>1. r.is_executing = FALSE /\ Tracked(left, h, FALSE)
          BY <2>2, <2>4, <2>9, <3>1 DEF HostType
        <5> QED BY <5>1
      <4> QED BY <2>3, <3>1, <4>1, <4>2
    <3>2. CASE x # h
      BY <1>0, <1>2, <2>3, <2>9, <3>2
    <3> QED BY <3>1, <3>2
  <2> HIDE DEF ys, f
  <2> QED BY <1>0, <1>2, <2>1, <2>3, <2>8, <2>9 DEF Sound
<1>5. CASE ~(Serial(hs[h], new, check) /\ Parents(h) # <<>>)
  <2> DEFINE route == Reachability(hs, h)
             p == Processed(hs[h], new, route, check)
             ys == [hs EXCEPT ![h] = p]
  <2>1. Finish(ys, h, wanted, left, stack)
    <3>1. Finish([hs EXCEPT ![h] = Processed(@, new, route, check)], h, wanted, left, stack)
      BY <1>5 DEF Process
    <3> QED BY <3>1
  <2>2. hs[h] \in HostType /\ route \in {"DOWN", "UNREACHABLE"}
    BY <1>0 DEF Reachability
  <2> HIDE DEF route
  <2>3. p \in HostType /\ p.is_executing = hs[h].is_executing
    BY <2>2, ProcessedIs
  <2>4. /\ ys \in [Host -> HostType] /\ ys[h] = p
        /\ \A x \in Host : x # h => ys[x] = hs[x]
    BY <1>0, <2>3
  <2>5. CallsOK(stack, ys, fails', config)
    <3>1. \A i \in 1 .. Len(stack) : /\ SameFrame(ys[stack[i].host], hs[stack[i].host])
                                     /\ fails'[stack[i].host] = fails[stack[i].host]
      BY <1>2, <1>3, <2>4 DEF SameFrame
    <3> HIDE DEF ys
    <3> QED BY <1>0, <3>1, CallsKeep
  <2>6. h \in C => Earned(Handled(p), fails'[h]) /\ Tracked(left, h, p.is_executing)
    <3> SUFFICES ASSUME h \in C
                 PROVE  Earned(Handled(p), fails'[h]) /\ Tracked(left, h, p.is_executing)
      OBVIOUS
    <3>1. Earned(Handled(p), fails'[h])
      BY <1>0, <1>2, <2>2, Outcome
    <3>2. p.is_executing = FALSE /\ Tracked(left, h, FALSE)
      BY <2>2, <2>3 DEF HostType
    <3> QED BY <3>1, <3>2
  <2>7. \A x \in C \ {h} : Earned(ys[x], fails'[x]) /\ Tracked(left, x, ys[x].is_executing)
    BY <1>0, <1>2, <2>4
  <2> HIDE DEF ys, p
  <2>8. Sound(ys, fails', left, stack, C \ {h})
    BY <1>0, <1>2, <2>4, <2>5, <2>7 DEF Sound
  <2>9. h \in C => Earned(Handled(ys[h]), fails'[h]) /\ Tracked(left, h, ys[h].is_executing)
    BY <2>4, <2>6
  <2> QED BY <2>1, <2>8, <2>9, FinishKeeps
<1> QED BY <1>4, <1>5

---------------------------------------------------------------------------------
(* Steps. *)

Cleaned == {h \in Host : clean[h]}

\* What is left of the types.
OthersOK ==
    /\ broken \subseteq Host /\ config \in Configs /\ spent \in 0 .. config.most
    /\ nature \in 0 .. config.changes /\ clean \in [Host -> BOOLEAN]

LEMMA InvIs == CoreInv <=> OthersOK /\ Sound(hosts, fails, out, calls, Cleaned)
BY Zenon DEF CoreInv, TypeOK, CleanInv, CallInv, OthersOK, Sound, Cleaned

\* One host becomes r.
LEMMA SoundExcept ==
    ASSUME config \in Configs, NEW hs, NEW fs, NEW b, NEW stack, NEW C \in SUBSET Host,
           Sound(hs, fs, b, stack, C), NEW h \in Host, NEW r \in HostType,
           Below(h, stack, config)
    PROVE  Sound([hs EXCEPT ![h] = r], fs, b, stack, C \ {h})
<1> DEFINE ys == [hs EXCEPT ![h] = r]
<1>1. /\ hs \in [Host -> HostType] /\ fs \in [Host -> 0 .. Highest]
      /\ IsABag(b) /\ BagToSet(b) \subseteq CheckType
      /\ stack \in Seq(CallType) /\ CallsOK(stack, hs, fs, config)
      /\ \A x \in C : Earned(hs[x], fs[x]) /\ Tracked(b, x, hs[x].is_executing)
  BY DEF Sound
<1>2. ys \in [Host -> HostType] /\ \A x \in Host : x # h => ys[x] = hs[x]
  BY <1>1
<1>3. \A i \in 1 .. Len(stack) : stack[i].host \in Host /\ stack[i].host # h
  BY <1>1, BelowDiffers
<1>4. CallsOK(stack, ys, fs, config)
  <2>1. \A i \in 1 .. Len(stack) : /\ SameFrame(ys[stack[i].host], hs[stack[i].host])
                                   /\ fs[stack[i].host] = fs[stack[i].host]
    BY <1>2, <1>3 DEF SameFrame
  <2> HIDE DEF ys
  <2> QED BY <1>1, <2>1, CallsKeep
<1>5. \A x \in C \ {h} : Earned(ys[x], fs[x]) /\ Tracked(b, x, ys[x].is_executing)
  BY <1>1, <1>2
<1> HIDE DEF ys
<1>6. Sound(ys, fs, b, stack, C \ {h})
  BY <1>1, <1>2, <1>4, <1>5 DEF Sound
<1> QED BY <1>6 DEF ys

\* The check c leaves the bag.
LEMMA SoundTake ==
    ASSUME NEW hs, NEW fs, NEW b, NEW stack, NEW C \in SUBSET Host,
           Sound(hs, fs, b, stack, C), NEW c \in BagToSet(b)
    PROVE  /\ Sound(hs, fs, b (-) SetToBag({c}), stack, C \ {c.host})
           /\ c \in CheckType
           /\ c.host \in C => Tracked(b (-) SetToBag({c}), c.host, FALSE)
<1> DEFINE n == b (-) SetToBag({c})
<1>1. /\ hs \in [Host -> HostType] /\ fs \in [Host -> 0 .. Highest]
      /\ IsABag(b) /\ BagToSet(b) \subseteq CheckType
      /\ stack \in Seq(CallType) /\ CallsOK(stack, hs, fs, config)
      /\ \A x \in C : Earned(hs[x], fs[x]) /\ Tracked(b, x, hs[x].is_executing)
  BY DEF Sound
<1>2. IsABag(n) /\ BagToSet(n) \subseteq CheckType
  BY <1>1, BagTake
<1>3. ASSUME NEW x \in C
      PROVE  Tracked(n, x, IF c.host = x THEN FALSE ELSE hs[x].is_executing)
  <2>1. hs[x].is_executing \in BOOLEAN
    BY <1>1 DEF HostType
  <2>2. Tracked(b, x, hs[x].is_executing)
    BY <1>1
  <2> QED BY <1>1, <2>1, <2>2, TrackedTake
<1>4. \A x \in C \ {c.host} : Tracked(n, x, hs[x].is_executing)
  BY <1>3
<1>5. c.host \in C => Tracked(n, c.host, FALSE)
  BY <1>3
<1> HIDE DEF n
<1>6. Sound(hs, fs, n, stack, C \ {c.host}) /\ c \in CheckType
  BY <1>1, <1>2, <1>4 DEF Sound
<1> QED BY <1>5, <1>6 DEF n

\* No check begins or ends, and attempts that count are left alone.
LEMMA Undisturbed ==
    ASSUME config \in Configs, Sound(hosts, fails, out, calls, Cleaned),
           NEW C \in SUBSET Cleaned, hosts' \in [Host -> HostType],
           out' = out, calls' = calls, fails' = fails,
           \A x \in C : /\ Earned(hosts'[x], fails[x])
                        /\ hosts'[x].is_executing = hosts[x].is_executing,
           calls = <<>> \/ \A x \in Host : SameFrame(hosts'[x], hosts[x])
    PROVE  Sound(hosts', fails', out', calls', C)
<1>1. /\ fails \in [Host -> 0 .. Highest]
      /\ IsABag(out) /\ BagToSet(out) \subseteq CheckType
      /\ calls \in Seq(CallType) /\ CallsOK(calls, hosts, fails, config)
      /\ \A x \in Cleaned : Tracked(out, x, hosts[x].is_executing)
  BY DEF Sound
<1>2. CallsOK(calls, hosts', fails, config)
  <2>1. CASE calls = <<>>
    BY <2>1, CallsNone
  <2>2. CASE \A x \in Host : SameFrame(hosts'[x], hosts[x])
    <3>1. ASSUME NEW i \in 1 .. Len(calls) PROVE calls[i].host \in Host
      <4>1. calls[i] \in CallType
        BY <1>1
      <4> QED BY <4>1 DEF CallType
    <3> QED BY <1>1, <2>2, <3>1, CallsKeep
  <2> QED BY <2>1, <2>2
<1>3. \A x \in C : Earned(hosts'[x], fails[x]) /\ Tracked(out, x, hosts'[x].is_executing)
  BY <1>1
<1> QED BY <1>1, <1>2, <1>3 DEF Sound

\* The same when one host h changes.
LEMMA OneHost ==
    ASSUME config \in Configs, Sound(hosts, fails, out, calls, Cleaned),
           NEW C \in SUBSET Cleaned, NEW h \in Host, NEW r \in HostType,
           hosts' = [hosts EXCEPT ![h] = r],
           out' = out, calls' = calls, fails' = fails,
           SameCore(r, hosts[h]) \/ (calls = <<>> /\ h \notin C)
    PROVE  Sound(hosts', fails', out', calls', C)
<1>1. /\ hosts \in [Host -> HostType]
      /\ \A x \in Cleaned : Earned(hosts[x], fails[x])
  BY DEF Sound
<1>2. hosts' \in [Host -> HostType] /\ \A x \in Host : hosts'[x] = IF x = h THEN r ELSE hosts[x]
  BY <1>1
<1>3. \A x \in Host : SameCore(hosts'[x], hosts[x]) \/ (calls = <<>> /\ x \notin C)
  BY <1>2 DEF SameCore
<1>4. ASSUME NEW x \in C
      PROVE  Earned(hosts'[x], fails[x]) /\ hosts'[x].is_executing = hosts[x].is_executing
  <2>1. x \in Host /\ Earned(hosts[x], fails[x])
    BY <1>1 DEF Cleaned
  <2>2. SameCore(hosts'[x], hosts[x])
    BY <1>3, <2>1
  <2>3. Earned(hosts'[x], fails[x])
    BY <2>1, <2>2, EarnedSame
  <2> QED BY <2>2, <2>3 DEF SameCore
<1>5. calls = <<>> \/ \A x \in Host : SameFrame(hosts'[x], hosts[x])
  BY <1>3 DEF SameCore, SameFrame
<1> QED BY <1>2, <1>4, <1>5, Undisturbed

\* The check c of a host begins.
LEMMA OneBegins ==
    ASSUME config \in Configs, Sound(hosts, fails, out, calls, Cleaned), calls = <<>>,
           NEW C \in SUBSET Cleaned, NEW h \in Host, NEW r \in HostType,
           SameCore(r, hosts[h]), hosts' = [hosts EXCEPT ![h] = Started(r)],
           NEW c \in CheckType, c.host = h, out' = out (+) SetToBag({c}),
           calls' = calls, fails' = fails,
           h \in C => ~r.is_executing /\ ~c.late /\ ~c.event.forced
    PROVE  Sound(hosts', fails', out', calls', C)
<1>1. /\ hosts \in [Host -> HostType] /\ fails \in [Host -> 0 .. Highest]
      /\ IsABag(out) /\ BagToSet(out) \subseteq CheckType
      /\ \A x \in Cleaned : Earned(hosts[x], fails[x]) /\ Tracked(out, x, hosts[x].is_executing)
  BY DEF Sound
<1>2. Started(r) \in HostType /\ Started(r).is_executing
  BY StartedIs
<1>3. /\ hosts' \in [Host -> HostType]
      /\ \A x \in Host : hosts'[x] = IF x = h THEN Started(r) ELSE hosts[x]
  BY <1>1, <1>2
<1>4. IsABag(out') /\ BagToSet(out') \subseteq CheckType
  BY <1>1, BagAdd
<1>5. ASSUME NEW x \in C
      PROVE  Earned(hosts'[x], fails[x]) /\ Tracked(out', x, hosts'[x].is_executing)
  <2>0. x \in Host /\ x \in Cleaned /\ hosts[x].is_executing \in BOOLEAN
    BY <1>1 DEF Cleaned, HostType
  <2>1. Earned(hosts[x], fails[x]) /\ Tracked(out, x, hosts[x].is_executing)
    BY <1>1, <2>0
  <2>2. CASE x = h
    <3>1. ~hosts[x].is_executing /\ ~r.is_executing
      BY <1>5, <2>2 DEF SameCore
    <3>2. Earned(r, fails[x])
      BY <2>1, <2>2, EarnedSame
    <3>3. Idle(r, fails[x])
      BY <3>1, <3>2 DEF Earned
    <3>4. Earned(Started(r), fails[x])
      BY <1>1, <2>0, <3>3, Begins
    <3>5. Tracked(out (+) SetToBag({c}), x, hosts[x].is_executing \/ \E d \in {c} : d.host = x)
      <4>1. /\ \A d \in {c} : d.host = x => ~d.late /\ ~d.event.forced
            /\ \A d, e \in {c} : d.host = x /\ e.host = x => d = e
            /\ (\E d \in {c} : d.host = x) => ~hosts[x].is_executing
        BY <1>5, <2>2, <3>1
      <4> QED BY <1>1, <2>0, <2>1, <4>1, TrackedAdd
    <3>6. (hosts[x].is_executing \/ \E d \in {c} : d.host = x) = TRUE
      BY <2>2
    <3>7. hosts'[x] = Started(r) /\ Started(r).is_executing = TRUE
      BY <1>2, <1>3, <2>2 DEF HostType
    <3> QED BY <3>4, <3>5, <3>6, <3>7
  <2>3. CASE x # h
    <3>1. Tracked(out (+) SetToBag({c}), x, hosts[x].is_executing \/ \E d \in {c} : d.host = x)
      <4>1. /\ \A d \in {c} : d.host = x => ~d.late /\ ~d.event.forced
            /\ \A d, e \in {c} : d.host = x /\ e.host = x => d = e
            /\ (\E d \in {c} : d.host = x) => ~hosts[x].is_executing
        BY <2>3
      <4> QED BY <1>1, <2>0, <2>1, <4>1, TrackedAdd
    <3>2. (hosts[x].is_executing \/ \E d \in {c} : d.host = x) = hosts[x].is_executing
      BY <2>0, <2>3
    <3>3. hosts'[x] = hosts[x]
      BY <1>3, <2>0, <2>3
    <3> QED BY <2>1, <3>1, <3>2, <3>3
  <2> QED BY <2>2, <2>3
<1>6. CallsOK(calls', hosts', fails', config) /\ calls' \in Seq(CallType)
  BY CallsNone
<1> QED BY <1>1, <1>3, <1>4, <1>5, <1>6 DEF Sound

\* A check on the spot.
LEMMA SyncKeeps ==
    ASSUME OthersOK, Sound(hosts, fails, out, calls, Cleaned), NEW h \in Host,
           NEW stack \in Seq(CallType), CallsOK(stack, hosts, fails, config),
           Below(h, stack, config), Sync(h, stack)
    PROVE  Sound(hosts', fails', out', calls', Cleaned') /\ clean' \in [Host -> BOOLEAN]
<1> DEFINE r == hosts[h]
           j == Adjusted(r, TRUE)
           v == Saved(j)
           a == [v EXCEPT !.is_being_freshened = FALSE, !.recent = TRUE, !.options = Plain]
           ys == [hosts EXCEPT ![h] = a]
           C == Cleaned'
<1>0. config \in Configs /\ clean \in [Host -> BOOLEAN]
  BY DEF OthersOK
<1>1. /\ Process(ys, h, Ping(h), Active, FALSE, out, stack)
      /\ Disturbed(IF r.is_executing THEN {h} ELSE {})
  BY DEF Sync
<1>2. /\ clean' \in [Host -> BOOLEAN] /\ C \subseteq Cleaned /\ Cleaned \subseteq Host
      /\ h \in C => ~r.is_executing
  BY <1>0, <1>1 DEF Disturbed, Cleaned
<1>3. r \in HostType
  BY DEF Sound
<1>4. j \in HostType /\ j.is_executing = r.is_executing
  BY <1>3, AdjustedIs, AdjustedFields
<1> HIDE DEF j
<1>5. v \in HostType /\ SameCore(v, j) /\ v.last_state = j.current_state
  BY <1>4, SavedIs
<1> HIDE DEF v
<1>6. a \in HostType /\ SameCore(a, v) /\ a.last_state = v.last_state
  BY <1>5 DEF HostType, SameCore
<1> HIDE DEF a
<1>7. /\ a \in HostType /\ SameCore(a, j) /\ a.is_executing = r.is_executing
      /\ a.last_state = a.current_state
  BY <1>4, <1>5, <1>6 DEF SameCore
<1>8. Sound(ys, fails, out, stack, C \ {h})
  <2>1. Sound(hosts, fails, out, stack, C)
    BY <1>2 DEF Sound
  <2>2. C \in SUBSET Host
    BY <1>2
  <2> HIDE DEF C
  <2> QED BY <1>0, <1>7, <2>1, <2>2, SoundExcept
<1>9. ys[h] = a
  BY DEF Sound
<1>10. h \in C => /\ Counted(ys[h], fails[h]) /\ ~ys[h].is_executing
                  /\ ys[h].last_state = ys[h].current_state
                  /\ Tracked(out, h, FALSE)
  <2> SUFFICES ASSUME h \in C
               PROVE  Counted(a, fails[h]) /\ ~a.is_executing
                      /\ a.last_state = a.current_state /\ Tracked(out, h, FALSE)
    BY <1>9
  <2>1. Earned(r, fails[h]) /\ Tracked(out, h, r.is_executing) /\ fails[h] \in 0 .. Highest
    BY <1>2 DEF Sound
  <2>2. r.is_executing = FALSE
    BY <1>2, <1>3 DEF HostType
  <2>3. Counted(j, fails[h])
    BY <1>3, <2>1, <2>2, Begins DEF Earned, j
  <2>4. Counted(a, fails[h])
    BY <1>7, <2>3, Zenon DEF Counted, SameCore
  <2> QED BY <1>7, <2>1, <2>2, <2>4
<1>11. Ping(h) \in {"UP", "DOWN"} /\ Ping(h) \in HostState /\ Active \in CheckOptions
  BY DEF Ping, HostState, Active, CheckOptions
<1>12. C \in SUBSET Host
  BY <1>2
<1> HIDE DEF ys
<1>13. Sound(hosts', fails', out', calls', C)
  <2> HIDE DEF C
  <2> QED BY <1>0, <1>1, <1>8, <1>10, <1>11, <1>12, ProcessKeeps
<1> QED BY <1>2, <1>13

Kept ==
    /\ OthersOK' /\ UNCHANGED config
    /\ Sound(hosts', fails', out', calls', Cleaned')

LEMMA KeptIs == ASSUME Kept PROVE CoreInv'
<1>1. Sound(hosts, fails, out, calls, Cleaned)' <=> Sound(hosts', fails', out', calls', Cleaned')
  BY DEF Kept, Sound, CallsOK
<1> QED BY <1>1, InvIs, PTL DEF Kept

LEMMA DisturbedIs ==
    ASSUME clean \in [Host -> BOOLEAN], NEW S, Disturbed(S)
    PROVE  /\ clean' \in [Host -> BOOLEAN] /\ Cleaned' \subseteq Cleaned
           /\ \A h \in S : h \notin Cleaned'
BY DEF Disturbed, Cleaned

LEMMA SpendKeeps ==
    ASSUME OthersOK, NEW event, Spend(event), UNCHANGED <<broken, nature, config>>,
           clean' \in [Host -> BOOLEAN]
    PROVE  OthersOK' /\ calls = <<>>
<1>1. config.most \in Nat
  BY ConfigsAssumption DEF OthersOK
<1> QED BY <1>1 DEF OthersOK, Spend

LEMMA RestKeeps ==
    ASSUME OthersOK, UNCHANGED <<broken, nature, config, spent>>, clean' \in [Host -> BOOLEAN]
    PROVE  OthersOK'
BY DEF OthersOK

LEMMA CheckOnDemandStep ==
    ASSUME OthersOK, Sound(hosts, fails, out, calls, Cleaned), NEW h \in Host,
           CheckOnDemand(h)
    PROVE  Kept
<1>1. Sync(h, <<>>) /\ Spend("request") /\ UNCHANGED <<broken, nature, config>>
  BY DEF CheckOnDemand
<1>2. Sound(hosts', fails', out', calls', Cleaned') /\ clean' \in [Host -> BOOLEAN]
  BY <1>1, CallsNone, SyncKeeps
<1> QED BY <1>1, <1>2, SpendKeeps DEF Kept

LEMMA RunScheduledStep ==
    ASSUME OthersOK, Sound(hosts, fails, out, calls, Cleaned), NEW h \in Host,
           RunScheduled(h)
    PROVE  Kept
<1> DEFINE e == hosts[h].event
           r == [hosts[h] EXCEPT !.event = NoEvent]
           taken == [hosts EXCEPT ![h].event = NoEvent]
<1>1. /\ calls = <<>> /\ e # NoEvent
      /\ UNCHANGED <<calls, broken, nature, config, spent, fails>>
      /\ \/ /\ e.forced \/ ~hosts[h].is_executing
            /\ hosts' = [hosts EXCEPT ![h] = Started(Cleared(@))]
            /\ out' = out (+) SetToBag({Check(h, e, TRUE)})
            /\ Disturbed(IF e.forced \/ hosts[h].is_executing THEN {h} ELSE {})
         \/ /\ \E q \in Postponed(taken[h], e) : hosts' = [taken EXCEPT ![h] = q]
            /\ UNCHANGED <<out, clean>>
  BY DEF RunScheduled
<1>2. hosts \in [Host -> HostType] /\ hosts[h] \in HostType
  BY DEF Sound
<1>3. e \in {Plain, Forced, Freshened}
  BY <1>1, <1>2 DEF HostType
<1>4. r \in HostType /\ SameCore(r, hosts[h])
  BY <1>2 DEF HostType, SameCore
<1>5. taken[h] = r /\ \A q : [taken EXCEPT ![h] = q] = [hosts EXCEPT ![h] = q]
  BY <1>2
<1>6. clean \in [Host -> BOOLEAN] /\ config \in Configs
  BY DEF OthersOK
<1>7. CASE /\ e.forced \/ ~hosts[h].is_executing
           /\ hosts' = [hosts EXCEPT ![h] = Started(Cleared(@))]
           /\ out' = out (+) SetToBag({Check(h, e, TRUE)})
           /\ Disturbed(IF e.forced \/ hosts[h].is_executing THEN {h} ELSE {})
  <2> DEFINE c == Check(h, e, TRUE)
             k == Cleared(hosts[h])
  <2>0. k \in HostType /\ SameCore(k, hosts[h])
    BY <1>2, ClearedIs
  <2>1. hosts' = [hosts EXCEPT ![h] = Started(k)]
    BY <1>2, <1>7
  <2>2. c \in CheckType /\ c.host = h /\ ~c.late /\ c.event = e
    BY <1>3 DEF Check, CheckType, Ping
  <2>3. /\ clean' \in [Host -> BOOLEAN] /\ Cleaned' \subseteq Cleaned
        /\ h \in Cleaned' => ~e.forced /\ ~hosts[h].is_executing
    BY <1>6, <1>7, DisturbedIs
  <2>4. h \in Cleaned' => ~k.is_executing
    BY <2>0, <2>3 DEF SameCore
  <2> HIDE DEF e, k, c
  <2>5. Sound(hosts', fails', out', calls', Cleaned')
    <3> DEFINE C == Cleaned'
    <3>1. C \in SUBSET Cleaned /\ (h \in C => ~k.is_executing /\ ~c.late /\ ~c.event.forced)
      BY <2>2, <2>3, <2>4
    <3>2. out' = out (+) SetToBag({c})
      BY <1>7 DEF c
    <3> HIDE DEF C
    <3>3. Sound(hosts', fails', out', calls', C)
      BY <1>1, <1>6, <2>0, <2>1, <2>2, <3>1, <3>2, OneBegins
    <3> QED BY <3>3 DEF C
  <2> QED BY <1>1, <2>3, <2>5, RestKeeps DEF Kept
<1>8. CASE /\ \E q \in Postponed(taken[h], e) : hosts' = [taken EXCEPT ![h] = q]
           /\ UNCHANGED <<out, clean>>
  <2>1. PICK q \in Postponed(r, e) : hosts' = [hosts EXCEPT ![h] = q]
    BY <1>5, <1>8
  <2>2. q \in HostType /\ SameCore(q, r)
    BY <1>3, <1>4, PostponedIs
  <2>3. SameCore(q, hosts[h])
    BY <1>4, <2>2, Zenon DEF SameCore
  <2>4. Sound(hosts', fails', out', calls', Cleaned)
    BY <1>1, <1>6, <1>8, <2>1, <2>2, <2>3, OneHost
  <2>5. Cleaned' = Cleaned
    BY <1>8 DEF Cleaned
  <2> QED BY <1>1, <1>6, <1>8, <2>4, <2>5, RestKeeps DEF Kept
<1> QED BY <1>1, <1>7, <1>8

LEMMA ForkFailsStep ==
    ASSUME OthersOK, Sound(hosts, fails, out, calls, Cleaned), NEW h \in Host,
           ForkFails(h)
    PROVE  Kept
<1> DEFINE e == hosts[h].event
           r == Started(Cleared(hosts[h]))
<1>1. /\ Spend("fork") /\ e # NoEvent /\ Disturbed({h})
      /\ UNCHANGED <<out, calls, broken, nature, config, fails>>
  BY DEF ForkFails
<1>2. PICK q \in Postponed(r, e) : hosts' = [hosts EXCEPT ![h] = q]
  BY DEF ForkFails
<1>3. hosts[h] \in HostType
  BY DEF Sound
<1>4. e \in {Plain, Forced, Freshened}
  BY <1>1, <1>3 DEF HostType
<1>5. r \in HostType
  BY <1>3, ClearedIs, StartedIs
<1>6. q \in HostType
  BY <1>4, <1>5, PostponedIs
<1>7. /\ clean' \in [Host -> BOOLEAN] /\ Cleaned' \subseteq Cleaned /\ h \notin Cleaned'
      /\ config \in Configs
  BY <1>1, DisturbedIs DEF OthersOK
<1>8. OthersOK' /\ calls = <<>>
  BY <1>1, <1>7, SpendKeeps
<1>9. Sound(hosts', fails', out', calls', Cleaned')
  <2> DEFINE C == Cleaned'
  <2>1. C \in SUBSET Cleaned /\ h \notin C
    BY <1>7
  <2> HIDE DEF C
  <2>2. Sound(hosts', fails', out', calls', C)
    BY <1>1, <1>2, <1>6, <1>7, <1>8, <2>1, OneHost
  <2> QED BY <2>2 DEF C
<1> QED BY <1>1, <1>8, <1>9 DEF Kept

LEMMA RunForServiceStep ==
    ASSUME OthersOK, Sound(hosts, fails, out, calls, Cleaned), NEW h \in Host,
           RunForService(h)
    PROVE  Kept
<1> DEFINE c == Check(h, Plain, FALSE)
<1>1. /\ Spend("request") /\ ~hosts[h].is_executing
      /\ hosts' = [hosts EXCEPT ![h] = Started(hosts[h])]
      /\ out' = out (+) SetToBag({c})
      /\ UNCHANGED <<calls, broken, nature, config, fails, clean>>
  BY DEF RunForService
<1>2. c \in CheckType /\ c.host = h /\ ~c.late /\ ~c.event.forced
  BY Events DEF Check, CheckType, Ping
<1>3. hosts[h] \in HostType /\ SameCore(hosts[h], hosts[h])
  BY DEF Sound, SameCore
<1>4. OthersOK' /\ calls = <<>> /\ config \in Configs
  BY <1>1, SpendKeeps DEF OthersOK
<1> HIDE DEF c
<1>5. Sound(hosts', fails', out', calls', Cleaned)
  BY <1>1, <1>2, <1>3, <1>4, OneBegins
<1>6. Cleaned' = Cleaned
  BY <1>1 DEF Cleaned
<1> QED BY <1>1, <1>4, <1>5, <1>6 DEF Kept

LEMMA PassiveResultStep ==
    ASSUME OthersOK, Sound(hosts, fails, out, calls, Cleaned), NEW h \in Host,
           NEW new \in HostState, PassiveResult(h, new)
    PROVE  Kept
<1> DEFINE s == [Saved(hosts[h]) EXCEPT !.recent = TRUE]
           a == IF config.soft THEN Adjusted(s, FALSE) ELSE s
           ys == [hosts EXCEPT ![h] = a]
           C == Cleaned'
<1>1. /\ Spend("passive") /\ Disturbed({h}) /\ UNCHANGED <<broken, nature, config>>
      /\ Process(ys, h, new, Passive, FALSE, out, <<>>)
  BY DEF PassiveResult
<1>2. hosts[h] \in HostType
  BY DEF Sound
<1>3. a \in HostType
  <2>1. Saved(hosts[h]) \in HostType
    BY <1>2, SavedIs
  <2>2. s \in HostType
    BY <2>1 DEF HostType
  <2> HIDE DEF s
  <2> QED BY <2>2, AdjustedIs
<1>4. /\ clean' \in [Host -> BOOLEAN] /\ C \subseteq Cleaned /\ h \notin C
      /\ config \in Configs /\ Cleaned \subseteq Host
  BY <1>1, DisturbedIs DEF OthersOK, Cleaned
<1>5. OthersOK' /\ calls = <<>>
  BY <1>1, <1>4, SpendKeeps
<1>6. Passive \in CheckOptions
  BY <1>4, ConfigsAssumption DEF Passive, CheckOptions
<1> HIDE DEF a, C
<1>7. Sound(ys, fails, out, <<>>, C \ {h})
  <2>1. Sound(hosts, fails, out, <<>>, C)
    BY <1>4, <1>5 DEF Sound
  <2>2. C \in SUBSET Host
    BY <1>4
  <2> QED BY <1>3, <1>4, <2>1, <2>2, CallsNone, SoundExcept
<1> HIDE DEF ys
<1>8. Sound(hosts', fails', out', calls', C)
  <2>1. C \in SUBSET Host /\ Below(h, <<>>, config)
    BY <1>4, CallsNone
  <2> QED BY <1>1, <1>4, <1>6, <1>7, <2>1, ProcessKeeps
<1> QED BY <1>1, <1>5, <1>8 DEF Kept, C

LEMMA ReceivedIs ==
    ASSUME NEW g \in HostType, NEW recent \in BOOLEAN
    PROVE  LET r == Received(g, recent)
           IN /\ r \in HostType /\ ~r.is_executing /\ r.last_state = r.current_state
              /\ r.current_state = g.current_state /\ r.state_type = g.state_type
              /\ r.current_attempt = g.current_attempt /\ r.max_attempts = g.max_attempts
<1> DEFINE v == Saved(g)
           r == [v EXCEPT !.is_executing = FALSE, !.recent = recent]
<1>1. v \in HostType /\ SameCore(v, g) /\ v.last_state = g.current_state
  BY SavedIs
<1> HIDE DEF v
<1>2. /\ r \in HostType /\ ~r.is_executing /\ r.last_state = v.last_state
      /\ r.current_state = v.current_state /\ r.state_type = v.state_type
      /\ r.current_attempt = v.current_attempt /\ r.max_attempts = v.max_attempts
  BY <1>1 DEF HostType
<1>3. Received(g, recent) = r
  BY DEF Received, v
<1> HIDE DEF r
<1> QED BY <1>1, <1>2, <1>3 DEF SameCore

LEMMA ReportStep ==
    ASSUME OthersOK, Sound(hosts, fails, out, calls, Cleaned), NEW c \in BagToSet(out),
           Report(c)
    PROVE  Kept
<1> DEFINE left == out (-) SetToBag({c})
           h == c.host
           seen == c.seen
           wanted == c.reschedule
           u == [hosts[h] EXCEPT !.is_being_freshened = FALSE]
           g == IF c.event.fresh THEN u ELSE hosts[h]
<1>1. calls = <<>> /\ UNCHANGED <<broken, nature, config, spent, clean>>
  BY DEF Report
<1>2. \/ c.event.fresh /\ hosts' = [hosts EXCEPT ![h] = g] /\ out' = left /\ UNCHANGED <<calls, fails>>
      \/ \E recent \in BOOLEAN :
            Process([hosts EXCEPT ![h] = Received(g, recent)], h, seen, Active, wanted, left, <<>>)
  BY DEF Report
<1>3. /\ c \in CheckType
      /\ Sound(hosts, fails, left, calls, Cleaned \ {h})
      /\ h \in Cleaned => Tracked(left, h, FALSE)
  <2>1. Cleaned \in SUBSET Host
    BY DEF Cleaned
  <2> QED BY <2>1, SoundTake
<1>4. /\ h \in Host /\ seen \in {"UP", "DOWN"} /\ seen \in HostState
      /\ wanted \in BOOLEAN /\ c.event \in {Plain, Forced, Freshened}
  BY <1>3 DEF CheckType, HostState
<1>5. hosts \in [Host -> HostType] /\ hosts[h] \in HostType
  BY <1>4 DEF Sound
<1>6. g \in HostType /\ SameCore(g, hosts[h])
  <2>1. u \in HostType /\ SameCore(u, hosts[h])
    BY <1>5 DEF HostType, SameCore
  <2>2. SameCore(hosts[h], hosts[h])
    BY DEF SameCore
  <2> QED BY <1>5, <2>1, <2>2
<1>7. /\ config \in Configs /\ clean \in [Host -> BOOLEAN] /\ Cleaned \subseteq Host
      /\ OthersOK' /\ Cleaned' = Cleaned
  BY <1>1, RestKeeps DEF OthersOK, Cleaned
<1>8. Cleaned \ {h} \in SUBSET Host /\ Sound(hosts, fails, left, <<>>, Cleaned \ {h})
  BY <1>1, <1>3, <1>7
<1>9. (Cleaned \ {h}) \ {h} = Cleaned \ {h}
  OBVIOUS
<1> HIDE DEF left, g
<1>10. ASSUME c.event.fresh, hosts' = [hosts EXCEPT ![h] = g], out' = left,
              UNCHANGED <<calls, fails>>
       PROVE  Kept
  <2>1. h \notin Cleaned
    <3>1. c.event.forced
      BY <1>4, <1>10, Events
    <3> QED BY <3>1 DEF Sound, Tracked
  <2>2. Sound([hosts EXCEPT ![h] = g], fails, left, <<>>, (Cleaned \ {h}) \ {h})
    BY <1>4, <1>6, <1>7, <1>8, CallsNone, SoundExcept
  <2>3. (Cleaned \ {h}) \ {h} = Cleaned'
    BY <1>7, <2>1
  <2>4. Sound(hosts', fails', out', calls', Cleaned')
    BY <1>1, <1>10, <2>2, <2>3
  <2> QED BY <1>1, <1>7, <2>4 DEF Kept
<1>11. ASSUME NEW recent \in BOOLEAN,
              Process([hosts EXCEPT ![h] = Received(g, recent)], h, seen, Active, wanted,
                      left, <<>>)
       PROVE  Kept
  <2> DEFINE r == Received(g, recent)
             ys == [hosts EXCEPT ![h] = r]
  <2>1. /\ r \in HostType /\ ~r.is_executing /\ r.last_state = r.current_state
        /\ r.current_state = hosts[h].current_state /\ r.state_type = hosts[h].state_type
        /\ r.current_attempt = hosts[h].current_attempt
        /\ r.max_attempts = hosts[h].max_attempts
    BY <1>6, ReceivedIs DEF SameCore
  <2> HIDE DEF r
  <2>2. ys[h] = r
    BY <1>4, <1>5
  <2>3. h \in Cleaned => /\ Active = Active /\ seen \in {"UP", "DOWN"}
                         /\ Counted(ys[h], fails[h]) /\ ~ys[h].is_executing
                         /\ ys[h].last_state = ys[h].current_state
                         /\ Tracked(left, h, FALSE)
    <3> SUFFICES ASSUME h \in Cleaned
                 PROVE  Counted(r, fails[h]) /\ ~r.is_executing
                        /\ r.last_state = r.current_state /\ Tracked(left, h, FALSE)
      BY <1>4, <2>2
    <3>1. Earned(hosts[h], fails[h]) /\ hosts[h].is_executing
      BY DEF Sound, Tracked
    <3>2. Counted(hosts[h], fails[h])
      BY <3>1 DEF Earned
    <3>3. Counted(r, fails[h])
      BY <2>1, <3>2, Zenon DEF Counted
    <3> QED BY <1>3, <2>1, <3>3
  <2>4. Sound(ys, fails, left, <<>>, Cleaned \ {h})
    BY <1>4, <1>7, <1>8, <1>9, <2>1, CallsNone, SoundExcept
  <2>5. Process(ys, h, seen, Active, wanted, left, <<>>)
    BY <1>11 DEF r
  <2>6. Cleaned \in SUBSET Host /\ Below(h, <<>>, config) /\ Active \in CheckOptions
    BY <1>7, CallsNone DEF Active, CheckOptions
  <2> DEFINE C == Cleaned
  <2>7. /\ h \in C => /\ Active = Active /\ seen \in {"UP", "DOWN"}
                      /\ Counted(ys[h], fails[h]) /\ ~ys[h].is_executing
                      /\ ys[h].last_state = ys[h].current_state
                      /\ Tracked(left, h, FALSE)
        /\ Sound(ys, fails, left, <<>>, C \ {h}) /\ C \in SUBSET Host
    BY <2>3, <2>4, <2>6
  <2> HIDE DEF ys, h, seen, wanted, C
  <2>8. Sound(hosts', fails', out', calls', C)
    BY <1>4, <1>7, <2>5, <2>6, <2>7, ProcessKeeps
  <2> QED BY <1>1, <1>7, <2>8 DEF Kept, C
<1> QED BY <1>2, <1>10, <1>11

\* A step that only does to h what its checks do not notice.
LEMMA QuietStep ==
    ASSUME OthersOK, OthersOK', Sound(hosts, fails, out, calls, Cleaned), NEW h \in Host,
           NEW r \in HostType, SameCore(r, hosts[h]), hosts' = [hosts EXCEPT ![h] = r],
           UNCHANGED <<out, calls, config, fails, clean>>
    PROVE  Kept
<1>1. Sound(hosts', fails', out', calls', Cleaned)
  BY OneHost DEF OthersOK
<1>2. Cleaned' = Cleaned
  BY DEF Cleaned
<1> QED BY <1>1, <1>2 DEF Kept

LEMMA FreshenStep ==
    ASSUME OthersOK, Sound(hosts, fails, out, calls, Cleaned), NEW h \in Host, Freshen(h)
    PROVE  Kept
<1> DEFINE u == [hosts[h] EXCEPT !.is_being_freshened = TRUE]
<1>1. PICK r \in Scheduled(u, Freshened) : hosts' = [hosts EXCEPT ![h] = r]
  BY DEF Freshen
<1>2. UNCHANGED <<out, calls, broken, nature, config, spent, fails, clean>>
  BY DEF Freshen
<1>3. u \in HostType /\ SameCore(u, hosts[h])
  BY ZenonT(60) DEF Sound, HostType, SameCore
<1> HIDE DEF u
<1>4. r \in HostType /\ SameCore(r, u)
  BY <1>3, ScheduledIs
<1>5. SameCore(r, hosts[h])
  BY <1>3, <1>4, Zenon DEF SameCore
<1>6. OthersOK'
  BY <1>2, RestKeeps DEF OthersOK
<1> QED BY <1>1, <1>2, <1>4, <1>5, <1>6, QuietStep

LEMMA ExpireStep ==
    ASSUME OthersOK, Sound(hosts, fails, out, calls, Cleaned), NEW h \in Host, Expire(h)
    PROVE  Kept
<1> DEFINE r == [hosts[h] EXCEPT !.recent = FALSE]
<1>1. /\ hosts' = [hosts EXCEPT ![h] = r]
      /\ UNCHANGED <<out, calls, broken, nature, config, spent, fails, clean>>
  BY DEF Expire
<1>2. r \in HostType /\ SameCore(r, hosts[h])
  BY ZenonT(60) DEF Sound, HostType, SameCore
<1> HIDE DEF r
<1>3. OthersOK'
  BY <1>1, RestKeeps DEF OthersOK
<1> QED BY <1>1, <1>2, <1>3, QuietStep

LEMMA ForceCheckStep ==
    ASSUME OthersOK, Sound(hosts, fails, out, calls, Cleaned), NEW h \in Host, ForceCheck(h)
    PROVE  Kept
<1>1. PICK r \in Scheduled(hosts[h], Forced) : hosts' = [hosts EXCEPT ![h] = r]
  BY DEF ForceCheck
<1>2. Spend("force") /\ UNCHANGED <<out, calls, broken, nature, config, fails, clean>>
  BY DEF ForceCheck
<1>3. r \in HostType /\ SameCore(r, hosts[h])
  BY ScheduledIs DEF Sound
<1>4. OthersOK'
  BY <1>2, SpendKeeps DEF OthersOK
<1> QED BY <1>1, <1>2, <1>3, <1>4, QuietStep

LEMMA SwitchChecksStep ==
    ASSUME OthersOK, Sound(hosts, fails, out, calls, Cleaned), NEW h \in Host, SwitchChecks(h)
    PROVE  Kept
<1> DEFINE off == [hosts[h] EXCEPT !.checks_enabled = FALSE, !.should_be_scheduled = FALSE]
           on == [hosts[h] EXCEPT !.checks_enabled = TRUE, !.next_check = "set",
                                  !.should_be_scheduled = h \notin OnDemand]
<1>1. PICK r \in (IF hosts[h].checks_enabled THEN {off} ELSE Postponed(on, Plain)) :
        hosts' = [hosts EXCEPT ![h] = r]
  BY DEF SwitchChecks
<1>2. Spend("switch") /\ UNCHANGED <<out, calls, broken, nature, config, fails, clean>>
  BY DEF SwitchChecks
<1>3. /\ off \in HostType /\ SameCore(off, hosts[h])
      /\ on \in HostType /\ SameCore(on, hosts[h])
  BY ZenonT(60) DEF Sound, HostType, NextCheck, SameCore
<1> HIDE DEF off, on
<1>4. r \in HostType /\ SameCore(r, hosts[h])
  <2>1. CASE hosts[h].checks_enabled
    BY <1>1, <1>3, <2>1
  <2>2. CASE ~hosts[h].checks_enabled
    <3>1. r \in HostType /\ SameCore(r, on)
      BY <1>1, <1>3, <2>2, PostponedIs
    <3> QED BY <1>3, <3>1, Zenon DEF SameCore
  <2> QED BY <2>1, <2>2
<1>5. OthersOK'
  BY <1>2, SpendKeeps DEF OthersOK
<1> QED BY <1>1, <1>2, <1>4, <1>5, QuietStep

LEMMA NatureStep ==
    ASSUME OthersOK, Sound(hosts, fails, out, calls, Cleaned), NEW h \in Host, Nature(h)
    PROVE  Kept
<1>1. UNCHANGED <<hosts, out, calls, config, spent, fails, clean>>
  BY DEF Nature
<1>2. Cleaned' = Cleaned
  BY <1>1 DEF Cleaned
<1>3. OthersOK'
  <2>1. config.changes \in Nat
    BY ConfigsAssumption DEF OthersOK
  <2> QED BY <2>1 DEF OthersOK, Nature
<1> QED BY <1>1, <1>2, <1>3 DEF Kept

LEMMA GoesByStep ==
    ASSUME OthersOK, Sound(hosts, fails, out, calls, Cleaned), NEW h \in Host, GoesBy(h)
    PROVE  Kept
<1> DEFINE r == [hosts[h] EXCEPT !.next_check = "past"]
<1>1. /\ hosts' = [hosts EXCEPT ![h] = r]
      /\ UNCHANGED <<out, calls, broken, nature, config, spent, fails, clean>>
  BY DEF GoesBy
<1>2. r \in HostType /\ SameCore(r, hosts[h])
  BY ZenonT(60) DEF Sound, HostType, NextCheck, SameCore
<1> HIDE DEF r
<1>3. OthersOK'
  BY <1>1, RestKeeps DEF OthersOK
<1> QED BY <1>1, <1>2, <1>3, QuietStep

\* A clean host with an interval is not executing when its next check is long past.
LEMMA OrphanStep ==
    ASSUME OthersOK, Sound(hosts, fails, out, calls, Cleaned), PlanInv, NEW h \in Host,
           Orphan(h)
    PROVE  Kept
<1> DEFINE u == [hosts[h] EXCEPT !.is_executing = FALSE]
           C == Cleaned'
<1>1. PICK r \in Scheduled(u, Plain) : hosts' = [hosts EXCEPT ![h] = r]
  BY DEF Orphan
<1>2. /\ calls = <<>> /\ hosts[h].is_executing /\ hosts[h].next_check = "past"
      /\ Disturbed({h} \cap OnDemand)
      /\ UNCHANGED <<out, calls, broken, nature, config, spent, fails>>
  BY DEF Orphan
<1>3. u \in HostType
  BY ZenonT(60) DEF Sound, HostType
<1> HIDE DEF u
<1>4. r \in HostType
  BY <1>3, ScheduledIs
<1>5. /\ clean' \in [Host -> BOOLEAN] /\ C \in SUBSET Cleaned
      /\ h \in OnDemand => h \notin C
  BY <1>2, DisturbedIs DEF OthersOK
<1>6. h \notin C
  <2>1. h \notin OnDemand => ~clean[h]
    BY <1>2 DEF PlanInv, Planned
  <2> QED BY <1>5, <2>1 DEF Cleaned
<1>7. OthersOK' /\ config \in Configs
  BY <1>2, <1>5, RestKeeps DEF OthersOK
<1> HIDE DEF C
<1>8. Sound(hosts', fails', out', calls', C)
  BY <1>1, <1>2, <1>4, <1>5, <1>6, <1>7, OneHost
<1> QED BY <1>2, <1>7, <1>8 DEF Kept, C

LEMMA ChangeMaxAttemptsStep ==
    ASSUME OthersOK, Sound(hosts, fails, out, calls, Cleaned), NEW h \in Host,
           NEW max \in 1 .. Highest, ChangeMaxAttempts(h, max)
    PROVE  Kept
<1> DEFINE k == IF /\ hosts[h].state_type = "HARD" /\ hosts[h].current_state # "UP"
                   /\ hosts[h].current_attempt > 1
                THEN max ELSE hosts[h].current_attempt
           r == [hosts[h] EXCEPT !.max_attempts = max, !.current_attempt = k]
           C == Cleaned'
<1>1. /\ Spend("attempts") /\ Disturbed({h})
      /\ UNCHANGED <<out, calls, broken, nature, config, fails>>
  BY DEF ChangeMaxAttempts
<1>2. hosts \in [Host -> HostType]
  BY DEF Sound
<1>3. hosts' = [hosts EXCEPT ![h] = r]
  BY <1>2 DEF ChangeMaxAttempts
<1>4. r \in HostType
  <2>1. k \in 1 .. Highest
    BY <1>2 DEF HostType
  <2> HIDE DEF k
  <2> QED BY ZenonT(60), <1>2, <2>1 DEF HostType
<1>5. /\ clean' \in [Host -> BOOLEAN] /\ C \in SUBSET Cleaned /\ h \notin C
      /\ config \in Configs
  BY <1>1, DisturbedIs DEF OthersOK
<1>6. OthersOK' /\ calls = <<>>
  BY <1>1, <1>5, SpendKeeps
<1> HIDE DEF r, C
<1>7. Sound(hosts', fails', out', calls', C)
  BY <1>1, <1>3, <1>4, <1>5, <1>6, OneHost
<1> QED BY <1>1, <1>6, <1>7 DEF Kept, C

LEMMA DelayStep ==
    ASSUME OthersOK, Sound(hosts, fails, out, calls, Cleaned), NEW c \in BagToSet(out),
           Delay(c)
    PROVE  Kept
<1> DEFINE left == out (-) SetToBag({c})
           d == [c EXCEPT !.late = TRUE]
           h == c.host
           C == Cleaned'
<1>1. /\ Spend("delay") /\ Disturbed({h}) /\ out' = left (+) SetToBag({d})
      /\ UNCHANGED <<hosts, calls, broken, nature, config, fails>>
  BY DEF Delay
<1>2. /\ clean' \in [Host -> BOOLEAN] /\ C \subseteq Cleaned /\ h \notin C
      /\ Cleaned \in SUBSET Host
  BY <1>1, DisturbedIs DEF OthersOK, Cleaned
<1>3. OthersOK' /\ calls = <<>>
  BY <1>1, <1>2, SpendKeeps
<1>4. c \in CheckType /\ Sound(hosts, fails, left, calls, Cleaned \ {h})
  BY <1>2, SoundTake
<1>5. d \in CheckType /\ d.host = h
  BY <1>4 DEF CheckType
<1> HIDE DEF left, d, C
<1>6. /\ hosts \in [Host -> HostType] /\ IsABag(left) /\ BagToSet(left) \subseteq CheckType
      /\ \A x \in C : Earned(hosts[x], fails[x]) /\ Tracked(left, x, hosts[x].is_executing)
  BY <1>2, <1>4 DEF Sound
<1>7. IsABag(out') /\ BagToSet(out') \subseteq CheckType
  BY <1>1, <1>5, <1>6, BagAdd
<1>8. ASSUME NEW x \in C PROVE Tracked(out', x, hosts[x].is_executing)
  <2>1. x \in Host /\ x # h
    BY <1>2
  <2>2. hosts[x].is_executing \in BOOLEAN
    BY <1>6, <2>1 DEF HostType
  <2>3. ~\E e \in {d} : e.host = x
    BY <1>5, <2>1
  <2>4. Tracked(left (+) SetToBag({d}), x, hosts[x].is_executing \/ \E e \in {d} : e.host = x)
    BY <1>6, <2>2, <2>3, TrackedAdd
  <2>5. (hosts[x].is_executing \/ \E e \in {d} : e.host = x) = hosts[x].is_executing
    BY <2>2, <2>3
  <2> QED BY <1>1, <2>4, <2>5
<1>9. Sound(hosts', fails', out', calls', C)
  BY <1>1, <1>4, <1>6, <1>7, <1>8 DEF Sound
<1> QED BY <1>1, <1>3, <1>9 DEF Kept, C

LEMMA BelowPush ==
    ASSUME NEW c \in Configs, NEW stack \in Seq(CallType), NEW f \in CallType,
           Below(f.host, stack, c), NEW p \in ToSet(c.parents[f.host])
    PROVE  p \in Host /\ Below(p, <<f>> \o stack, c)
<1> DEFINE n == <<f>> \o stack
           level == Level(c)
<1>1. /\ Len(n) = Len(stack) + 1 /\ n[1] = f
      /\ \A i \in 2 .. Len(n) : n[i] = stack[i - 1] /\ i - 1 \in 1 .. Len(stack)
      /\ Len(stack) \in Nat
  OBVIOUS
<1>2. f.host \in Host /\ \A i \in 1 .. Len(stack) : stack[i].host \in Host
  <2>1. \A i \in 1 .. Len(stack) : stack[i] \in CallType
    OBVIOUS
  <2> QED BY <2>1 DEF CallType
<1>3. /\ \A h \in Host : level[h] \in Nat
      /\ p \in Host /\ level[p] < level[f.host]
  BY <1>2, LevelIs
<1> HIDE DEF n, level
<1>4. ASSUME NEW i \in 1 .. Len(n) PROVE level[p] < level[n[i].host]
  <2>1. CASE i = 1
    BY <1>1, <1>3, <2>1
  <2>2. CASE i # 1
    <3>1. n[i] = stack[i - 1] /\ i - 1 \in 1 .. Len(stack)
      BY <1>1, <2>2
    <3>2. level[f.host] < level[stack[i - 1].host]
      BY <3>1 DEF Below, level
    <3> QED BY <1>2, <1>3, <3>1, <3>2
  <2> QED BY <2>1, <2>2
<1>5. Below(p, n, c)
  BY <1>4 DEF Below, level
<1> QED BY <1>3, <1>5 DEF n

LEMMA AskParentStep ==
    ASSUME OthersOK, Sound(hosts, fails, out, calls, Cleaned), AskParent
    PROVE  Kept
<1> DEFINE f == Head(calls)
           stack == Tail(calls)
           next == [f EXCEPT !.rest = Tail(f.rest), !.asked = TRUE]
           p == Head(f.rest)
           told == [next EXCEPT !.state = hosts[p].current_state]
<1>1. /\ calls # <<>> /\ f.rest # <<>> /\ UNCHANGED <<broken, nature, config, spent>>
      /\ \/ calls' = <<told>> \o stack /\ UNCHANGED <<hosts, out, fails, clean>>
         \/ Sync(p, <<next>> \o stack)
  BY DEF AskParent
<1>2. /\ calls \in Seq(CallType) /\ CallsOK(calls, hosts, fails, config)
      /\ hosts \in [Host -> HostType] /\ config \in Configs
  BY DEF Sound, OthersOK
<1>3. /\ f \in CallType /\ stack \in Seq(CallType)
      /\ CallsOK(stack, hosts, fails, config) /\ Below(f.host, stack, config)
      /\ hosts[f.host].current_state = "UP" /\ hosts[f.host].state_type = "HARD"
      /\ hosts[f.host].max_attempts = 1 /\ fails[f.host] >= 1
      /\ ToSet(f.rest) \subseteq ToSet(config.parents[f.host])
  BY <1>1, <1>2, CallsPop
<1> HIDE DEF f, stack
<1>4. /\ f.rest \in Seq(Host) /\ p \in ToSet(f.rest) /\ p \in Host
      /\ Tail(f.rest) \in Seq(Host) /\ ToSet(Tail(f.rest)) \subseteq ToSet(f.rest)
  <2>1. f.rest \in Seq(Host)
    BY <1>3 DEF CallType
  <2> DEFINE q == f.rest
  <2> HIDE DEF q
  <2>2. q \in Seq(Host) /\ q # <<>>
    BY <1>1, <2>1 DEF q
  <2>3. /\ 1 \in 1 .. Len(q) /\ Head(q) = q[1] /\ Tail(q) \in Seq(Host) /\ q[1] \in Host
        /\ Len(Tail(q)) = Len(q) - 1 /\ Len(q) \in Nat
        /\ \A i \in 1 .. Len(Tail(q)) : Tail(q)[i] = q[i + 1] /\ i + 1 \in 1 .. Len(q)
    BY <2>2
  <2>4. Head(q) \in ToSet(q) /\ ToSet(Tail(q)) \subseteq ToSet(q)
    <3>1. DOMAIN q = 1 .. Len(q) /\ DOMAIN Tail(q) = 1 .. Len(Tail(q))
      BY <2>2, <2>3
    <3> QED BY <2>3, <3>1 DEF ToSet
  <2> QED BY <2>2, <2>3, <2>4 DEF q
<1> HIDE DEF p
<1>5. next \in CallType /\ next.host = f.host /\ next.rest = Tail(f.rest)
  BY <1>3, <1>4 DEF CallType
<1>6. told \in CallType /\ told.host = f.host /\ told.rest = Tail(f.rest)
  <2>1. hosts[p].current_state \in HostState
    BY <1>2, <1>4 DEF HostType
  <2> HIDE DEF next
  <2> QED BY <1>5, <2>1 DEF CallType
<1> HIDE DEF next, told
<1>7. CASE calls' = <<told>> \o stack /\ UNCHANGED <<hosts, out, fails, clean>>
  <2>1. CallsOK(<<told>> \o stack, hosts, fails, config) /\ <<told>> \o stack \in Seq(CallType)
    BY <1>3, <1>4, <1>6, CallsPush
  <2>2. Sound(hosts', fails', out', calls', Cleaned)
    BY <1>7, <2>1 DEF Sound
  <2>3. Cleaned' = Cleaned /\ OthersOK'
    BY <1>1, <1>7, RestKeeps DEF Cleaned, OthersOK
  <2> QED BY <1>1, <2>2, <2>3 DEF Kept
<1>8. CASE Sync(p, <<next>> \o stack)
  <2>1. CallsOK(<<next>> \o stack, hosts, fails, config) /\ <<next>> \o stack \in Seq(CallType)
    BY <1>3, <1>4, <1>5, CallsPush
  <2>2. Below(p, <<next>> \o stack, config)
    BY <1>2, <1>3, <1>4, <1>5, BelowPush
  <2>3. Sound(hosts', fails', out', calls', Cleaned') /\ clean' \in [Host -> BOOLEAN]
    BY <1>4, <1>8, <2>1, <2>2, SyncKeeps
  <2> QED BY <1>1, <2>3, RestKeeps DEF Kept
<1> QED BY <1>1, <1>7, <1>8

LEMMA SettleStep ==
    ASSUME OthersOK, Sound(hosts, fails, out, calls, Cleaned), Settle
    PROVE  Kept
<1> DEFINE f == Head(calls)
           stack == Tail(calls)
           h == f.host
           s == IF f.asked /\ f.state = "UP" THEN "DOWN" ELSE "UNREACHABLE"
           q == [hosts[h] EXCEPT !.current_state = s]
           ys == [hosts EXCEPT ![h] = q]
<1>1. calls # <<>> /\ UNCHANGED <<broken, nature, config, spent, fails, clean>>
  BY DEF Settle
<1>2. Finish([hosts EXCEPT ![h].current_state = s], h, TRUE, out, stack)
  BY DEF Settle
<1>3. /\ calls \in Seq(CallType) /\ CallsOK(calls, hosts, fails, config)
      /\ hosts \in [Host -> HostType] /\ config \in Configs
      /\ Cleaned \in SUBSET Host
  BY DEF Sound, OthersOK, Cleaned
<1>4. /\ f \in CallType /\ stack \in Seq(CallType)
      /\ CallsOK(stack, hosts, fails, config) /\ Below(h, stack, config)
      /\ hosts[h].current_state = "UP" /\ hosts[h].state_type = "HARD"
      /\ hosts[h].max_attempts = 1 /\ fails[h] >= 1
  BY <1>1, <1>3, CallsPop
<1> HIDE DEF stack
<1>5. h \in Host /\ s \in HostState /\ s # "UP"
  BY <1>4 DEF CallType, HostState
<1> HIDE DEF f, s
<1>6. /\ q \in HostType /\ q.current_state = s /\ q.state_type = "HARD" /\ q.max_attempts = 1
      /\ q.current_attempt = hosts[h].current_attempt
      /\ q.is_executing = hosts[h].is_executing
  BY ZenonT(60), <1>3, <1>4, <1>5 DEF HostType
<1>7. Finish(ys, h, TRUE, out, stack)
  BY <1>2, <1>3
<1> HIDE DEF q
<1>8. ys[h] = q
  BY <1>3, <1>5
<1>9. Sound(ys, fails, out, stack, Cleaned \ {h})
  <2>1. Sound(hosts, fails, out, stack, Cleaned)
    BY <1>4 DEF Sound
  <2> QED BY <1>3, <1>4, <1>5, <1>6, <2>1, SoundExcept
<1>10. h \in Cleaned => /\ Earned(Handled(ys[h]), fails[h])
                       /\ Tracked(out, h, ys[h].is_executing)
  <2> SUFFICES ASSUME h \in Cleaned
               PROVE  Earned(Handled(q), fails[h]) /\ Tracked(out, h, hosts[h].is_executing)
    BY <1>6, <1>8
  <2>1. Earned(hosts[h], fails[h]) /\ Tracked(out, h, hosts[h].is_executing)
    BY DEF Sound
  <2>2. hosts[h].current_attempt = 1
    BY <1>4, <2>1 DEF Earned, Counted, CountedAs, Idle, IdleAs
  <2>3. Earned(q, fails[h])
    BY <1>4, <1>5, <1>6, <2>2 DEF Earned, Counted, CountedAs, Idle, IdleAs
  <2>4. SameCore(Handled(q), q)
    BY <1>5, <1>6, HandledIs DEF SameCore
  <2> QED BY <2>1, <2>3, <2>4, EarnedSame
<1> HIDE DEF ys
<1>11. Sound(hosts', fails, out', calls', Cleaned)
  <2> DEFINE C == Cleaned
  <2>1. /\ Sound(ys, fails, out, stack, C \ {h}) /\ C \in SUBSET Host
        /\ h \in C => /\ Earned(Handled(ys[h]), fails[h])
                      /\ Tracked(out, h, ys[h].is_executing)
    BY <1>3, <1>9, <1>10
  <2> HIDE DEF C
  <2>2. Sound(hosts', fails, out', calls', C)
    BY <1>3, <1>5, <1>7, <2>1, FinishKeeps
  <2> QED BY <2>2 DEF C
<1>12. Cleaned' = Cleaned /\ OthersOK'
  BY <1>1, RestKeeps DEF Cleaned, OthersOK
<1> QED BY <1>1, <1>11, <1>12 DEF Kept

\* What a restart makes of a host.
Resumed(x, r) ==
    /\ x.current_state = r.current_state /\ x.state_type = r.state_type
    /\ x.max_attempts = r.max_attempts /\ x.is_executing = FALSE
    /\ x.current_attempt = IF r.current_state # "UP" /\ r.state_type = "HARD"
                           THEN r.max_attempts ELSE r.current_attempt

LEMMA RestartedIs ==
    ASSUME NEW r \in HostType, NEW should, NEW kept
    PROVE  Resumed(Restarted(r, should, kept), r)
BY DEF Resumed, Restarted, HostType

LEMMA RestartedType ==
    ASSUME NEW r \in HostType, NEW should, NEW kept,
           should \in BOOLEAN, kept \in BOOLEAN
    PROVE  Restarted(r, should, kept) \in HostType
<1> DEFINE n == IF r.current_state # "UP" /\ r.state_type = "HARD"
                THEN r.max_attempts ELSE r.current_attempt
           o == IF kept THEN r.options ELSE Plain
           listed == \/ should
                     \/ ~r.checks_enabled /\ kept /\ r.next_check # "never" /\ o.forced
           d == IF should \/ (listed /\ r.next_check = "set") THEN "event"
                ELSE IF kept THEN r.next_check ELSE "never"
           e == IF listed THEN o ELSE NoEvent
<1>1. Restarted(r, should, kept) =
        [r EXCEPT !.is_executing = FALSE, !.is_being_freshened = FALSE,
                  !.current_attempt = n, !.should_be_scheduled = should, !.options = o,
                  !.next_check = d, !.event = e]
  BY DEF Restarted
<1>2. n \in 1 .. Highest /\ o \in {Plain, Forced, Freshened} /\ d \in NextCheck
  BY DEF HostType, NextCheck
<1>3. e \in {NoEvent, Plain, Forced, Freshened}
  BY <1>2
<1> HIDE DEF n, d, o, e, listed
<1> QED BY <1>1, <1>2, <1>3 DEF HostType

LEMMA RestartStep ==
    ASSUME OthersOK, Sound(hosts, fails, out, calls, Cleaned), Restart
    PROVE  Kept
<1> DEFINE should(x) == x \notin OnDemand /\ hosts[x].checks_enabled
           C == Cleaned'
<1>1. /\ Spend("restart") /\ Disturbed({c.host : c \in BagToSet(out)})
      /\ UNCHANGED <<out, calls, broken, nature, config, fails>>
  BY DEF Restart
<1>a. PICK kept \in BOOLEAN : hosts' = [x \in Host |-> Restarted(hosts[x], should(x), kept)]
  BY DEF Restart
<1>2. /\ hosts \in [Host -> HostType]
      /\ \A x \in Cleaned : Earned(hosts[x], fails[x]) /\ Tracked(out, x, hosts[x].is_executing)
  BY DEF Sound
<1>3. \A x \in Host : should(x) \in BOOLEAN
  BY <1>2 DEF HostType
<1> HIDE DEF should
<1>4. \A x \in Host : hosts'[x] = Restarted(hosts[x], should(x), kept) /\ hosts'[x] \in HostType
  BY <1>a, <1>2, <1>3, RestartedType
<1>5. /\ clean' \in [Host -> BOOLEAN] /\ C \in SUBSET Cleaned
      /\ \A x \in C : x \in Host /\ \A c \in BagToSet(out) : c.host # x
  BY <1>1, DisturbedIs DEF OthersOK, Cleaned
<1>6. OthersOK' /\ calls = <<>> /\ config \in Configs
  BY <1>1, <1>5, SpendKeeps DEF OthersOK
<1>7. ASSUME NEW x \in C
      PROVE  Earned(hosts'[x], fails[x]) /\ hosts'[x].is_executing = hosts[x].is_executing
  <2>1. x \in Host /\ x \in Cleaned /\ hosts[x] \in HostType
    BY <1>2, <1>5 DEF Cleaned
  <2>2. ~hosts[x].is_executing
    BY <1>2, <1>5, <2>1 DEF Tracked
  <2>3. hosts[x].is_executing = FALSE
    BY <2>1, <2>2 DEF HostType
  <2>4. Idle(hosts[x], fails[x])
    BY <1>2, <2>1, <2>2 DEF Earned
  <2>5. /\ hosts'[x].current_state = hosts[x].current_state
        /\ hosts'[x].state_type = hosts[x].state_type
        /\ hosts'[x].max_attempts = hosts[x].max_attempts /\ hosts'[x].is_executing = FALSE
        /\ hosts'[x].current_attempt =
             IF hosts[x].current_state # "UP" /\ hosts[x].state_type = "HARD"
             THEN hosts[x].max_attempts ELSE hosts[x].current_attempt
    <3>1. Resumed(Restarted(hosts[x], should(x), kept), hosts[x])
      BY <2>1, RestartedIs, Zenon
    <3>2. hosts'[x] = Restarted(hosts[x], should(x), kept)
      BY <1>4, <2>1
    <3>3. Resumed(hosts'[x], hosts[x])
      BY <3>1, <3>2, Zenon
    <3> QED BY <3>3 DEF Resumed
  <2>6. Idle(hosts'[x], fails[x])
    BY <2>4, <2>5 DEF Idle, IdleAs
  <2> QED BY <2>3, <2>5, <2>6 DEF Earned
<1>8. hosts' \in [Host -> HostType]
  BY <1>a, <1>4
<1> HIDE DEF C
<1>9. Sound(hosts', fails', out', calls', C)
  BY <1>1, <1>5, <1>6, <1>7, <1>8, Undisturbed
<1> QED BY <1>1, <1>6, <1>9 DEF Kept, C

---------------------------------------------------------------------------------
(* The next check is in sight. *)

SamePlan(a, b) ==
    /\ a.checks_enabled = b.checks_enabled /\ a.should_be_scheduled = b.should_be_scheduled
    /\ a.next_check = b.next_check /\ a.event = b.event

PlanKept == \A x \in Cleaned' : x \notin OnDemand => Planned(out', calls', x, hosts'[x])

\* A host begins a check only if it may be checked, and then its next check is not past.
LEMMA Replanned ==
    ASSUME NEW b, NEW stack, NEW x, NEW r, Planned(b, stack, x, r),
           NEW n, NEW calling, Due(b, stack, x) => Due(n, calling, x),
           NEW z, SamePlan(z, r), z.is_executing => r.is_executing \/ r.checks_enabled
    PROVE  Planned(n, calling, x, z)
BY DEF Planned, SamePlan

LEMMA DueGrows ==
    ASSUME NEW b, NEW n, NEW stack, NEW calling, NEW x,
           \A c \in BagToSet(b) : c.host = x => c \in BagToSet(n),
           \A i \in 1 .. Len(stack) : stack[i].host = x =>
              \E j \in 1 .. Len(calling) : calling[j].host = x
    PROVE  Due(b, stack, x) => Due(n, calling, x)
BY DEF Due

LEMMA CallsGrow ==
    ASSUME NEW f, NEW stack \in Seq(CallType)
    PROVE  /\ \E j \in 1 .. Len(<<f>> \o stack) : (<<f>> \o stack)[j].host = f.host
           /\ \A i \in 1 .. Len(stack) :
                \E j \in 1 .. Len(<<f>> \o stack) : (<<f>> \o stack)[j].host = stack[i].host
           /\ \A j \in 1 .. Len(<<f>> \o stack) : (<<f>> \o stack)[j].host # f.host =>
                \E i \in 1 .. Len(stack) : stack[i].host = (<<f>> \o stack)[j].host
<1> DEFINE n == <<f>> \o stack
<1>1. /\ Len(n) = Len(stack) + 1 /\ n[1] = f /\ Len(stack) \in Nat
      /\ \A i \in 2 .. Len(n) : n[i] = stack[i - 1] /\ i - 1 \in 1 .. Len(stack)
  OBVIOUS
<1> HIDE DEF n
<1>2. 1 \in 1 .. Len(n) /\ n[1].host = f.host
  BY <1>1
<1>3. ASSUME NEW i \in 1 .. Len(stack)
      PROVE  i + 1 \in 1 .. Len(n) /\ n[i + 1].host = stack[i].host
  BY <1>1
<1>4. ASSUME NEW j \in 1 .. Len(n), n[j].host # f.host
      PROVE  j - 1 \in 1 .. Len(stack) /\ stack[j - 1].host = n[j].host
  BY <1>1, <1>2, <1>4
<1>5. /\ \E j \in 1 .. Len(n) : n[j].host = f.host
      /\ \A i \in 1 .. Len(stack) : \E j \in 1 .. Len(n) : n[j].host = stack[i].host
      /\ \A j \in 1 .. Len(n) : n[j].host # f.host =>
           \E i \in 1 .. Len(stack) : stack[i].host = n[j].host
  BY <1>2, <1>3, <1>4
<1> QED BY <1>5 DEF n

LEMMA ScheduledPlan ==
    ASSUME NEW r \in HostType, NEW e \in {Plain, Forced, Freshened}, NEW x \in Scheduled(r, e)
    PROVE  /\ x.checks_enabled = r.checks_enabled
           /\ x.should_be_scheduled = r.should_be_scheduled
           /\ r.checks_enabled \/ e.forced => x.next_check = "event" /\ x.event # NoEvent
           /\ ~r.checks_enabled /\ ~e.forced => x = r
<1> DEFINE kept == [r EXCEPT !.next_check = "event"]
           new == [kept EXCEPT !.event = e, !.options = e]
<1>1. /\ kept.checks_enabled = r.checks_enabled /\ kept.next_check = "event"
      /\ kept.should_be_scheduled = r.should_be_scheduled /\ kept.event = r.event
      /\ kept \in HostType
  BY DEF HostType, NextCheck
<1>2. /\ ~r.checks_enabled /\ ~e.forced => x = r
      /\ r.checks_enabled \/ e.forced =>
           /\ x \in {kept, new}
           /\ r.event = NoEvent => x = new
  BY DEF Scheduled
<1> HIDE DEF kept
<1>3. /\ new.checks_enabled = kept.checks_enabled /\ new.next_check = kept.next_check
      /\ new.should_be_scheduled = kept.should_be_scheduled /\ new.event = e
  BY <1>1 DEF HostType
<1> HIDE DEF new
<1> QED BY <1>1, <1>2, <1>3, Events

LEMMA PostponedPlan ==
    ASSUME NEW r \in HostType, NEW e \in {Plain, Forced, Freshened}, NEW x \in Postponed(r, e),
           r.checks_enabled => r.should_be_scheduled,
           r.is_executing => r.next_check # "past", NEW b, NEW stack, NEW h
    PROVE  Planned(b, stack, h, x)
<1>1. CASE x = r /\ ~r.checks_enabled
  BY <1>1 DEF Planned
<1>2. CASE x \in Scheduled(r, e) /\ (r.checks_enabled \/ e.forced)
  <2>1. /\ x.checks_enabled = r.checks_enabled /\ x.should_be_scheduled = r.should_be_scheduled
        /\ x.next_check = "event" /\ x.event # NoEvent
    BY <1>2, ScheduledPlan
  <2> QED BY <2>1 DEF Planned
<1>3. x \in Scheduled(r, e) /\ ~r.checks_enabled /\ ~e.forced => x = r
  BY ScheduledPlan
<1> QED BY <1>1, <1>2, <1>3 DEF Postponed, HostType

LEMMA AdjustedPlan ==
    ASSUME NEW r \in HostType, NEW active \in BOOLEAN
    PROVE  SamePlan(Adjusted(r, active), r)
BY DEF Adjusted, HostType, SamePlan

LEMMA SavedPlan ==
    ASSUME NEW r \in HostType
    PROVE  SamePlan(Saved(r), r)
BY DEF Saved, HostType, SamePlan

LEMMA StartedPlan ==
    ASSUME NEW r \in HostType
    PROVE  SamePlan(Started(r), r)
<1> DEFINE j == Adjusted(r, TRUE)
<1>1. j \in HostType /\ SamePlan(j, r)
  BY AdjustedIs, AdjustedPlan
<1> HIDE DEF j
<1>2. SamePlan([j EXCEPT !.is_executing = TRUE], j)
  BY <1>1 DEF HostType, SamePlan
<1> QED BY <1>1, <1>2 DEF Started, SamePlan, j

LEMMA HandledPlan ==
    ASSUME NEW r \in HostType
    PROVE  SamePlan(Handled(r), r)
BY DEF Handled, HostType, SamePlan

LEMMA ProcessedPlan ==
    ASSUME NEW r \in HostType, NEW new \in HostState, NEW route, NEW check
    PROVE  SamePlan(Processed(r, new, route, check), r)
<1>1. SamePlan(Recovered(r, check), r)
  BY DEF Recovered, HostType, SamePlan
<1>2. SamePlan(StillDown(r, new, route, check), r)
  BY DEF StillDown, HostType, SamePlan
<1>3. SamePlan(StillUp(r), r)
  BY DEF StillUp, HostType, SamePlan
<1>4. SamePlan(WentDown(r, new, route, check), r)
  BY DEF WentDown, HostType, SamePlan
<1> QED BY <1>1, <1>2, <1>3, <1>4 DEF Processed

\* Only the host h becomes another.
LEMMA PlanOne ==
    ASSUME PlanInv, hosts \in [Host -> HostType], NEW h \in Host, NEW r,
           hosts' = [hosts EXCEPT ![h] = r], Cleaned' \subseteq Cleaned,
           \A x \in Host : Due(out, calls, x) => Due(out', calls', x),
           h \in Cleaned' /\ h \notin OnDemand => Planned(out', calls', h, r)
    PROVE  PlanKept
<1> SUFFICES ASSUME NEW x \in Cleaned', x \notin OnDemand
             PROVE  Planned(out', calls', x, hosts'[x])
  BY DEF PlanKept
<1>1. x \in Host /\ clean[x] /\ Planned(out, calls, x, hosts[x])
  BY DEF Cleaned, PlanInv
<1>2. CASE x = h
  BY <1>2
<1>3. CASE x # h
  <2>1. hosts'[x] = hosts[x]
    BY <1>1, <1>3
  <2> QED BY <1>1, <2>1 DEF Planned
<1> QED BY <1>2, <1>3

\* A result of h schedules its next check, if that is wanted; the checks it asks for are of
\* hosts that may be checked.
LEMMA FinishPlan ==
    ASSUME config \in Configs, NEW hs \in [Host -> HostType], NEW h \in Host, NEW wanted,
           NEW left, IsABag(left), NEW stack, Finish(hs, h, wanted, left, stack),
           NEW x \in Host, x \notin OnDemand,
           (x = h /\ wanted) \/ Planned(left, stack, x, hs[x])
    PROVE  Planned(out', calls', x, hosts'[x])
<1> DEFINE t == Handled(hs[h])
           next == Reschedules(hs[h], wanted)
           again == next /\ ShouldBeScheduled(t, h)
           u == [t EXCEPT !.next_check = "set", !.should_be_scheduled = again]
           s == IF next THEN u ELSE t
           A == Asked(hs, h)
<1>1. PICK q \in (IF again THEN Scheduled(s, Plain) ELSE {s}) :
        /\ hosts' = [z \in Host |-> LET y == IF z = h THEN AtRest(q) ELSE hs[z]
                                    IN IF z \in A THEN Started(y) ELSE y]
        /\ out' = left (+) SetToBag({Check(z, Plain, FALSE) : z \in A})
        /\ calls' = stack
  BY DEF Finish
<1> DEFINE y == IF x = h THEN AtRest(q) ELSE hs[x]
<1>2. hosts'[x] = IF x \in A THEN Started(y) ELSE y
  BY <1>1
<1>3. \A z \in A : hs[z].checks_enabled
  BY Events DEF Asked, Viable
<1>4. y \in HostType /\ y.checks_enabled = hs[x].checks_enabled /\ Planned(left, stack, x, y)
  <2>1. CASE x # h
    BY <2>1
  <2>2. CASE x = h
    <3>1. t \in HostType /\ SamePlan(t, hs[h]) /\ t.is_executing = hs[h].is_executing
      BY HandledIs, HandledPlan
    <3>2. again \in BOOLEAN /\ (next => again = t.checks_enabled)
      BY <2>2, <3>1 DEF Reschedules, ShouldBeScheduled, HostType
    <3> HIDE DEF t, next, again
    <3>3. /\ u \in HostType /\ u.checks_enabled = t.checks_enabled
          /\ u.should_be_scheduled = again /\ u.next_check = "set"
      BY <3>1, <3>2 DEF HostType, NextCheck
    <3> HIDE DEF u
    <3>4. /\ q \in HostType /\ q.checks_enabled = t.checks_enabled
          /\ Planned(left, stack, x, q)
      <4>1. CASE ~next
        <5>1. q = t /\ ~wanted
          BY <1>1, <4>1 DEF again, next, Reschedules
        <5>2. Planned(left, stack, x, hs[x])
          BY <5>1
        <5>3. Planned(left, stack, x, t)
          BY <2>2, <3>1, <5>2, Replanned
        <5> QED BY <3>1, <5>1, <5>3
      <4>2. CASE next /\ again
        <5>1. q \in Scheduled(u, Plain) /\ u.checks_enabled
          BY <1>1, <3>2, <3>3, <4>2
        <5>2. /\ q \in HostType /\ q.checks_enabled = u.checks_enabled
              /\ q.should_be_scheduled = again /\ q.next_check = "event" /\ q.event # NoEvent
          BY <3>3, <5>1, ScheduledIs, ScheduledPlan
        <5> QED BY <3>3, <4>2, <5>2 DEF Planned
      <4>3. CASE next /\ ~again
        <5>1. q = u /\ ~u.checks_enabled
          BY <1>1, <3>2, <3>3, <4>3
        <5> QED BY <3>3, <5>1 DEF Planned
      <4> QED BY <4>1, <4>2, <4>3
    <3>5. /\ AtRest(q) \in HostType /\ SamePlan(AtRest(q), q)
          /\ AtRest(q).is_executing = q.is_executing
      BY <3>4 DEF AtRest, HostType, SamePlan
    <3>6. Planned(left, stack, x, AtRest(q))
      BY <3>4, <3>5, Replanned
    <3> QED BY <2>2, <3>1, <3>4, <3>5, <3>6 DEF SamePlan
  <2> QED BY <2>1, <2>2
<1> HIDE DEF y, A
<1>5. Due(left, stack, x) => Due(out', calls', x)
  <2> DEFINE S == {Check(z, Plain, FALSE) : z \in A}
  <2>1. out' = left (+) SetToBag(S) /\ calls' = stack
    BY <1>1
  <2> HIDE DEF S
  <2>2. BagToSet(out') = BagToSet(left) \cup S
    BY <2>1, BagAdd
  <2> QED BY <2>1, <2>2 DEF Due
<1>6. CASE x \in A
  <2>1. SamePlan(Started(y), y) /\ y.checks_enabled
    BY <1>3, <1>4, <1>6, StartedPlan
  <2>2. Planned(out', calls', x, Started(y))
    BY <1>4, <1>5, <2>1, Replanned
  <2> QED BY <1>2, <1>6, <2>2
<1>7. CASE x \notin A
  <2>1. SamePlan(y, y)
    BY DEF SamePlan
  <2>2. Planned(out', calls', x, y)
    BY <1>4, <1>5, <2>1, Replanned
  <2> QED BY <1>2, <1>7, <2>2
<1> QED BY <1>6, <1>7

\* The host h gets a result that schedules its next check, or leaves it in sight.
LEMMA ProcessPlan ==
    ASSUME config \in Configs, NEW hs \in [Host -> HostType], NEW h \in Host,
           NEW new \in HostState, NEW check \in CheckOptions, NEW wanted, NEW left,
           IsABag(left),
           NEW stack \in Seq(CallType), Process(hs, h, new, check, wanted, left, stack),
           NEW x \in Host, x \notin OnDemand,
           IF x = h
             THEN /\ hs[h].is_executing => hs[h].next_check # "past"
                  /\ hs[h].checks_enabled =>
                       hs[h].should_be_scheduled /\ hs[h].next_check = "event"
                  /\ wanted \/ Planned(left, stack, h, hs[h])
             ELSE Planned(left, stack, x, hs[x])
    PROVE  Planned(out', calls', x, hosts'[x])
<1>1. CASE /\ hosts' = [hs EXCEPT ![h].state_type = "HARD"]
           /\ calls' = <<[host |-> h, rest |-> Parents(h), state |-> "UP",
                          asked |-> FALSE]>> \o stack
           /\ out' = left
  <2> DEFINE f == [host |-> h, rest |-> Parents(h), state |-> "UP", asked |-> FALSE]
  <2>1. /\ f.host = h /\ calls' = <<f>> \o stack
    BY <1>1
  <2> HIDE DEF f
  <2>2. Due(out', calls', h) /\ (Due(left, stack, x) => Due(out', calls', x))
    <3>1. \E j \in 1 .. Len(calls') : calls'[j].host = h
      BY <2>1, CallsGrow
    <3>2. \A i \in 1 .. Len(stack) :
            \E j \in 1 .. Len(calls') : calls'[j].host = stack[i].host
      BY <2>1, CallsGrow
    <3> QED BY <1>1, <3>1, <3>2 DEF Due
  <2>3. CASE x = h
    <3>1. SamePlan(hosts'[h], hs[h]) /\ hosts'[h].is_executing = hs[h].is_executing
      BY <1>1 DEF HostType, SamePlan
    <3> QED BY <2>2, <2>3, <3>1 DEF Planned, SamePlan
  <2>4. CASE x # h
    <3>1. hosts'[x] = hs[x] /\ SamePlan(hs[x], hs[x])
      BY <1>1, <2>4 DEF SamePlan
    <3> QED BY <2>2, <2>4, <3>1, Replanned
  <2> QED BY <2>3, <2>4
<1>3. Reachability(hs, h) \in {"DOWN", "UNREACHABLE"}
  BY DEF Reachability
<1>2. CASE Finish([hs EXCEPT ![h] = Processed(@, new, Reachability(hs, h), check)],
                  h, wanted, left, stack)
  <2> DEFINE p == Processed(hs[h], new, Reachability(hs, h), check)
             ys == [hs EXCEPT ![h] = p]
  <2>1. Finish(ys, h, wanted, left, stack)
    BY <1>2
  <2>2. /\ p \in HostType /\ p.is_executing = hs[h].is_executing /\ SamePlan(p, hs[h])
    BY <1>3, ProcessedIs, ProcessedPlan
  <2> HIDE DEF p
  <2>3. ys \in [Host -> HostType] /\ ys[x] = IF x = h THEN p ELSE hs[x]
    BY <2>2
  <2> HIDE DEF ys
  <2>4. (x = h /\ wanted) \/ Planned(left, stack, x, ys[x])
    <3>1. CASE x = h /\ ~wanted
      BY <2>2, <2>3, <3>1, Replanned
    <3> QED BY <2>3, <3>1
  <2> QED BY <2>1, <2>3, <2>4, FinishPlan
<1> QED BY <1>1, <1>2 DEF Process

LEMMA SyncPlan ==
    ASSUME OthersOK, Sound(hosts, fails, out, calls, Cleaned), PlanInv, NEW h \in Host,
           NEW stack \in Seq(CallType), Sync(h, stack),
           \A x \in Host : Due(out, calls, x) => Due(out, stack, x)
    PROVE  PlanKept
<1> DEFINE j == Adjusted(hosts[h], TRUE)
           v == Saved(j)
           a == [v EXCEPT !.is_being_freshened = FALSE, !.recent = TRUE, !.options = Plain]
           ys == [hosts EXCEPT ![h] = a]
<1>1. Process(ys, h, Ping(h), Active, FALSE, out, stack) /\ Cleaned' \subseteq Cleaned
  BY DisturbedIs DEF Sync, OthersOK
<1>2. hosts \in [Host -> HostType] /\ config \in Configs /\ IsABag(out)
  BY DEF Sound, OthersOK
<1>3. j \in HostType /\ SamePlan(j, hosts[h]) /\ j.is_executing = hosts[h].is_executing
  BY <1>2, AdjustedIs, AdjustedFields, AdjustedPlan
<1> HIDE DEF j
<1>4. v \in HostType /\ SamePlan(v, j) /\ v.is_executing = j.is_executing
  BY <1>3, SavedIs, SavedPlan DEF SameCore
<1> HIDE DEF v
<1>5. a \in HostType /\ SamePlan(a, v) /\ a.is_executing = v.is_executing
  BY <1>4 DEF HostType, SamePlan
<1> HIDE DEF a
<1>6. SamePlan(a, hosts[h]) /\ a.is_executing = hosts[h].is_executing
  BY <1>3, <1>4, <1>5, Zenon DEF SamePlan
<1>7. ys \in [Host -> HostType] /\ \A x \in Host : ys[x] = IF x = h THEN a ELSE hosts[x]
  BY <1>2, <1>5
<1> HIDE DEF ys
<1>8. Ping(h) \in HostState /\ Active \in CheckOptions
  BY DEF Ping, HostState, Active, CheckOptions
<1> SUFFICES ASSUME NEW x \in Cleaned', x \notin OnDemand
             PROVE  Planned(out', calls', x, hosts'[x])
  BY DEF PlanKept
<1>9. x \in Host /\ Planned(out, calls, x, hosts[x])
  BY <1>1 DEF Cleaned, PlanInv
<1>10. Planned(out, stack, x, ys[x])
  <2>1. SamePlan(ys[x], hosts[x]) /\ ys[x].is_executing = hosts[x].is_executing
    BY <1>6, <1>7, <1>9 DEF SamePlan
  <2> QED BY <1>9, <2>1, Replanned
<1>11. IF x = h
         THEN /\ ys[h].is_executing => ys[h].next_check # "past"
              /\ ys[h].checks_enabled =>
                   ys[h].should_be_scheduled /\ ys[h].next_check = "event"
              /\ FALSE \/ Planned(out, stack, h, ys[h])
         ELSE Planned(out, stack, x, ys[x])
  BY <1>10 DEF Planned
<1> QED BY <1>1, <1>2, <1>7, <1>8, <1>9, <1>11, ProcessPlan

LEMMA AskParentPlan ==
    ASSUME OthersOK, Sound(hosts, fails, out, calls, Cleaned), PlanInv, AskParent
    PROVE  PlanKept
<1> DEFINE f == Head(calls)
           stack == Tail(calls)
           next == [f EXCEPT !.rest = Tail(f.rest), !.asked = TRUE]
           p == Head(f.rest)
           told == [next EXCEPT !.state = hosts[p].current_state]
<1>1. /\ calls # <<>> /\ f.rest # <<>>
      /\ \/ calls' = <<told>> \o stack /\ UNCHANGED <<hosts, out, fails, clean>>
         \/ Sync(p, <<next>> \o stack)
  BY DEF AskParent
<1>2. /\ calls \in Seq(CallType) /\ hosts \in [Host -> HostType]
  BY DEF Sound
<1>3. f \in CallType /\ stack \in Seq(CallType) /\ calls = <<f>> \o stack
  BY <1>1, <1>2
<1> HIDE DEF f, stack
<1>4. f.rest \in Seq(Host) /\ p \in Host /\ Tail(f.rest) \in Seq(Host)
  <2>1. f.rest \in Seq(Host)
    BY <1>3 DEF CallType
  <2> DEFINE s == f.rest
  <2> HIDE DEF s
  <2>2. s \in Seq(Host) /\ s # <<>>
    BY <1>1, <2>1 DEF s
  <2>3. Head(s) \in Host /\ Tail(s) \in Seq(Host)
    BY <2>2
  <2> QED BY <2>2, <2>3 DEF s
<1>5. next \in CallType /\ next.host = f.host
  BY <1>3, <1>4 DEF CallType
<1> HIDE DEF next
<1>6. told.host = f.host
  BY <1>5 DEF CallType
<1> HIDE DEF told, p
<1>7. ASSUME NEW g, g.host = f.host, NEW x \in Host
      PROVE  Due(out, calls, x) => Due(out, <<g>> \o stack, x)
  BY <1>3, <1>7, CallsGrow DEF Due
<1>8. CASE calls' = <<told>> \o stack /\ UNCHANGED <<hosts, out, fails, clean>>
  <2> SUFFICES ASSUME NEW x \in Cleaned', x \notin OnDemand
               PROVE  Planned(out', calls', x, hosts'[x])
    BY DEF PlanKept
  <2>1. x \in Host /\ Planned(out, calls, x, hosts[x]) /\ SamePlan(hosts[x], hosts[x])
    BY <1>8 DEF Cleaned, PlanInv, SamePlan
  <2>2. Due(out, calls, x) => Due(out', calls', x)
    BY <1>6, <1>7, <1>8, <2>1
  <2>3. Planned(out', calls', x, hosts[x])
    BY <2>1, <2>2, Replanned
  <2> QED BY <1>8, <2>3
<1>9. CASE Sync(p, <<next>> \o stack)
  <2> DEFINE n == <<next>> \o stack
  <2>1. n \in Seq(CallType) /\ \A x \in Host : Due(out, calls, x) => Due(out, n, x)
    BY <1>3, <1>5, <1>7
  <2>2. Sync(p, n)
    BY <1>9
  <2> HIDE DEF n
  <2> QED BY <1>4, <2>1, <2>2, SyncPlan
<1> QED BY <1>1, <1>8, <1>9

LEMMA SettlePlan ==
    ASSUME OthersOK, Sound(hosts, fails, out, calls, Cleaned), PlanInv, Settle
    PROVE  PlanKept
<1> DEFINE f == Head(calls)
           stack == Tail(calls)
           h == f.host
           s == IF f.asked /\ f.state = "UP" THEN "DOWN" ELSE "UNREACHABLE"
           q == [hosts[h] EXCEPT !.current_state = s]
           ys == [hosts EXCEPT ![h] = q]
<1>1. calls # <<>> /\ UNCHANGED clean /\ Cleaned' = Cleaned
  BY DEF Settle, Cleaned
<1>2. Finish([hosts EXCEPT ![h].current_state = s], h, TRUE, out, stack)
  BY DEF Settle
<1>3. /\ calls \in Seq(CallType) /\ hosts \in [Host -> HostType] /\ config \in Configs
      /\ IsABag(out)
  BY DEF Sound, OthersOK
<1>4. f \in CallType /\ stack \in Seq(CallType) /\ calls = <<f>> \o stack
  BY <1>1, <1>3
<1> HIDE DEF stack
<1>5. h \in Host /\ s \in HostState
  BY <1>4 DEF CallType, HostState
<1> HIDE DEF f, s
<1>6. q \in HostType
  BY ZenonT(60), <1>3, <1>5 DEF HostType
<1>7. Finish(ys, h, TRUE, out, stack)
  BY <1>2, <1>3
<1> HIDE DEF q
<1>8. ys \in [Host -> HostType] /\ \A x \in Host : x # h => ys[x] = hosts[x]
  BY <1>3, <1>5, <1>6
<1> HIDE DEF ys
<1> SUFFICES ASSUME NEW x \in Cleaned', x \notin OnDemand
             PROVE  Planned(out', calls', x, hosts'[x])
  BY DEF PlanKept
<1>9. x \in Host /\ Planned(out, calls, x, hosts[x]) /\ SamePlan(hosts[x], hosts[x])
  BY <1>1 DEF Cleaned, PlanInv, SamePlan
<1>10. x # h => Planned(out, stack, x, ys[x])
  <2> SUFFICES ASSUME x # h PROVE Planned(out, stack, x, ys[x])
    OBVIOUS
  <2>1. Due(out, calls, x) => Due(out, stack, x)
    BY <1>4, CallsGrow DEF Due
  <2>2. Planned(out, stack, x, hosts[x])
    BY <1>9, <2>1, Replanned
  <2> QED BY <1>8, <1>9, <2>2
<1> QED BY <1>3, <1>5, <1>7, <1>8, <1>9, <1>10, FinishPlan

LEMMA ReportPlan ==
    ASSUME OthersOK, Sound(hosts, fails, out, calls, Cleaned), PlanInv,
           NEW c \in BagToSet(out), Report(c)
    PROVE  PlanKept
<1> DEFINE left == out (-) SetToBag({c})
           h == c.host
           u == [hosts[h] EXCEPT !.is_being_freshened = FALSE]
           g == IF c.event.fresh THEN u ELSE hosts[h]
<1>1. /\ calls = <<>> /\ UNCHANGED clean /\ Cleaned' = Cleaned
      /\ \/ /\ c.event.fresh /\ hosts' = [hosts EXCEPT ![h] = g]
            /\ out' = left /\ UNCHANGED calls
         \/ \E recent \in BOOLEAN :
              Process([hosts EXCEPT ![h] = Received(g, recent)], h, c.seen, Active,
                      c.reschedule, left, <<>>)
  BY DEF Report, Cleaned
<1>2. /\ hosts \in [Host -> HostType] /\ config \in Configs /\ IsABag(out) /\ c \in CheckType
      /\ \A x \in Cleaned : Tracked(out, x, hosts[x].is_executing)
  BY DEF Sound, OthersOK
<1>3. /\ h \in Host /\ c.event \in {Plain, Forced, Freshened} /\ c.seen \in HostState
      /\ c.reschedule \in BOOLEAN
  BY <1>2 DEF CheckType, HostState
<1>4. g \in HostType /\ SamePlan(g, hosts[h])
  <2> DEFINE r == hosts[h]
  <2>1. u = [r EXCEPT !.is_being_freshened = FALSE] /\ r \in HostType
    BY <1>2, <1>3
  <2> HIDE DEF u, r
  <2>2. u \in HostType /\ SamePlan(u, r) /\ SamePlan(r, r)
    BY <2>1 DEF HostType, SamePlan
  <2> QED BY <1>2, <1>3, <2>1, <2>2 DEF r
<1>5. /\ IsABag(left)
      /\ \A e \in BagToSet(out) : e # c => e \in BagToSet(left)
  BY <1>2, BagTake
<1> HIDE DEF left, g
<1> SUFFICES ASSUME NEW x \in Cleaned', x \notin OnDemand
             PROVE  Planned(out', calls', x, hosts'[x])
  BY DEF PlanKept
<1>6. /\ x \in Host /\ x \in Cleaned /\ Planned(out, calls, x, hosts[x])
      /\ SamePlan(hosts[x], hosts[x])
  BY <1>1 DEF Cleaned, PlanInv, SamePlan
<1>7. x # h => Planned(left, <<>>, x, hosts[x])
  <2> SUFFICES ASSUME x # h PROVE Planned(left, <<>>, x, hosts[x])
    OBVIOUS
  <2>1. Due(out, calls, x) => Due(left, <<>>, x)
    BY <1>1, <1>5 DEF Due
  <2> QED BY <1>6, <2>1, Replanned
<1>8. CASE /\ c.event.fresh /\ hosts' = [hosts EXCEPT ![h] = g]
           /\ out' = left /\ UNCHANGED calls
  <2>1. c.event = Freshened /\ c.event.forced
    BY <1>3, <1>8, Events
  <2>2. x # h
    BY <1>2, <1>6, <2>1 DEF Tracked
  <2> QED BY <1>1, <1>2, <1>6, <1>7, <1>8, <2>2
<1>9. CASE \E recent \in BOOLEAN :
              Process([hosts EXCEPT ![h] = Received(g, recent)], h, c.seen, Active,
                      c.reschedule, left, <<>>)
  <2>1. PICK recent \in BOOLEAN :
              Process([hosts EXCEPT ![h] = Received(g, recent)], h, c.seen, Active,
                      c.reschedule, left, <<>>)
    BY <1>9
  <2> DEFINE r == Received(g, recent)
             ys == [hosts EXCEPT ![h] = r]
  <2>2. r \in HostType /\ ~r.is_executing /\ SamePlan(r, g)
    <3>1. SamePlan(Saved(g), g) /\ Saved(g) \in HostType
      BY <1>4, SavedPlan, SavedIs
    <3>2. SamePlan(r, Saved(g))
      BY <3>1 DEF Received, HostType, SamePlan
    <3> QED BY <1>4, <3>1, <3>2, ReceivedIs DEF SamePlan
  <2> HIDE DEF r
  <2>3. ys \in [Host -> HostType] /\ \A z \in Host : ys[z] = IF z = h THEN r ELSE hosts[z]
    BY <1>2, <2>2
  <2>4. Process(ys, h, c.seen, Active, c.reschedule, left, <<>>)
    BY <2>1 DEF r
  <2> HIDE DEF ys
  <2>5. IF x = h
          THEN /\ ys[h].is_executing => ys[h].next_check # "past"
               /\ ys[h].checks_enabled =>
                    ys[h].should_be_scheduled /\ ys[h].next_check = "event"
               /\ c.reschedule \/ Planned(left, <<>>, h, ys[h])
          ELSE Planned(left, <<>>, x, ys[x])
    <3>1. CASE x = h
      <4>1. SamePlan(ys[h], hosts[h]) /\ ~ys[h].is_executing
        BY <1>3, <1>4, <2>2, <2>3 DEF SamePlan
      <4>2. ASSUME ~c.reschedule PROVE Planned(left, <<>>, h, ys[h])
        <5>1. Due(out, calls, h) => Due(left, <<>>, h)
          BY <1>1, <1>5, <4>2 DEF Due
        <5>2. /\ Planned(out, calls, h, hosts[h]) /\ SamePlan(ys[h], hosts[h])
              /\ ys[h].is_executing => hosts[h].is_executing \/ hosts[h].checks_enabled
          BY <1>6, <3>1, <4>1
        <5> QED BY ONLY <5>1, <5>2 DEF Planned, SamePlan
      <4>3. /\ hosts[h].is_executing => hosts[h].next_check # "past"
            /\ hosts[h].checks_enabled =>
                 hosts[h].should_be_scheduled /\ hosts[h].next_check = "event"
        BY <1>6, <3>1 DEF Planned
      <4>4. /\ ys[h].checks_enabled =>
                 ys[h].should_be_scheduled /\ ys[h].next_check = "event"
        BY <4>1, <4>3, Zenon DEF SamePlan
      <4> QED BY <3>1, <4>1, <4>2, <4>4
    <3>2. CASE x # h
      BY <1>6, <1>7, <2>3, <3>2
    <3> QED BY <3>1, <3>2
  <2>6. <<>> \in Seq(CallType) /\ Active \in CheckOptions
    BY DEF Active, CheckOptions
  <2> HIDE DEF h
  <2> QED BY <1>2, <1>3, <1>5, <1>6, <2>3, <2>4, <2>5, <2>6, ProcessPlan
<1> QED BY <1>1, <1>8, <1>9

LEMMA PassiveResultPlan ==
    ASSUME OthersOK, Sound(hosts, fails, out, calls, Cleaned), PlanInv, NEW h \in Host,
           NEW new \in HostState, PassiveResult(h, new)
    PROVE  PlanKept
<1> DEFINE v == Saved(hosts[h])
           s == [v EXCEPT !.recent = TRUE]
           a == IF config.soft THEN Adjusted(s, FALSE) ELSE s
           ys == [hosts EXCEPT ![h] = a]
<1>1. /\ calls = <<>> /\ Disturbed({h})
      /\ Process(ys, h, new, Passive, FALSE, out, <<>>)
  BY DEF PassiveResult, Spend
<1>2. hosts \in [Host -> HostType] /\ config \in Configs /\ IsABag(out)
  BY DEF Sound, OthersOK
<1>3. v \in HostType
  BY <1>2, SavedIs
<1> HIDE DEF v
<1>4. s \in HostType
  BY <1>3 DEF HostType
<1> HIDE DEF s
<1>5. a \in HostType
  BY <1>4, AdjustedIs
<1> HIDE DEF a
<1>6. ys \in [Host -> HostType] /\ \A x \in Host : x # h => ys[x] = hosts[x]
  BY <1>2, <1>5
<1> HIDE DEF ys
<1>7. Passive \in CheckOptions /\ <<>> \in Seq(CallType)
  BY <1>2, ConfigsAssumption DEF Passive, CheckOptions
<1> SUFFICES ASSUME NEW x \in Cleaned', x \notin OnDemand
             PROVE  Planned(out', calls', x, hosts'[x])
  BY DEF PlanKept
<1>8. x \in Host /\ x # h /\ Planned(out, <<>>, x, hosts[x])
  <2>1. x \in Cleaned /\ x # h
    BY <1>1, DisturbedIs DEF OthersOK
  <2> QED BY <1>1, <2>1 DEF Cleaned, PlanInv
<1> QED BY <1>1, <1>2, <1>6, <1>7, <1>8, ProcessPlan

LEMMA RunScheduledPlan ==
    ASSUME OthersOK, Sound(hosts, fails, out, calls, Cleaned), PlanInv, NEW h \in Host,
           RunScheduled(h)
    PROVE  PlanKept
<1> DEFINE e == hosts[h].event
           r == [hosts[h] EXCEPT !.event = NoEvent]
           taken == [hosts EXCEPT ![h].event = NoEvent]
           k == Cleared(hosts[h])
           c == Check(h, e, TRUE)
<1>1. /\ calls' = calls /\ e # NoEvent
      /\ \/ /\ hosts' = [hosts EXCEPT ![h] = Started(Cleared(@))] /\ Viable(hosts, h, e)
            /\ out' = out (+) SetToBag({c})
            /\ Disturbed(IF e.forced \/ hosts[h].is_executing THEN {h} ELSE {})
         \/ /\ \E q \in Postponed(taken[h], e) : hosts' = [taken EXCEPT ![h] = q]
            /\ UNCHANGED <<out, clean>>
  BY DEF RunScheduled
<1>2. hosts \in [Host -> HostType] /\ hosts[h] \in HostType /\ IsABag(out)
  BY DEF Sound
<1>3. e \in {Plain, Forced, Freshened}
  BY <1>1, <1>2 DEF HostType
<1>4. h \in Cleaned /\ h \notin OnDemand => Planned(out, calls, h, hosts[h])
  BY DEF PlanInv, Cleaned
<1>5. CASE /\ hosts' = [hosts EXCEPT ![h] = Started(Cleared(@))] /\ Viable(hosts, h, e)
           /\ out' = out (+) SetToBag({c})
           /\ Disturbed(IF e.forced \/ hosts[h].is_executing THEN {h} ELSE {})
  <2>1. /\ k \in HostType /\ k.checks_enabled = hosts[h].checks_enabled
        /\ k.should_be_scheduled = hosts[h].should_be_scheduled
        /\ k.next_check = hosts[h].next_check
    BY <1>2 DEF Cleared, HostType
  <2>2. hosts' = [hosts EXCEPT ![h] = Started(k)]
    BY <1>2, <1>5
  <2>3. c.host = h /\ c.reschedule
    BY DEF Check
  <2> HIDE DEF k, c, e
  <2>4. BagToSet(out') = BagToSet(out) \cup {c}
    BY <1>2, <1>5, BagAdd
  <2>5. Cleaned' \subseteq Cleaned /\ (h \in Cleaned' => ~e.forced)
    BY <1>5, DisturbedIs DEF OthersOK
  <2>6. Due(out', calls', h) /\ \A x \in Host : Due(out, calls, x) => Due(out', calls', x)
    BY <1>1, <2>3, <2>4 DEF Due
  <2>7. h \in Cleaned' /\ h \notin OnDemand => Planned(out', calls', h, Started(k))
    <3> SUFFICES ASSUME h \in Cleaned', h \notin OnDemand
                 PROVE  Planned(out', calls', h, Started(k))
      OBVIOUS
    <3>1. hosts[h].checks_enabled /\ Planned(out, calls, h, hosts[h])
      BY <1>4, <1>5, <2>5 DEF Viable
    <3>2. SamePlan(Started(k), k)
      BY <2>1, StartedPlan
    <3> QED BY <2>1, <2>6, <3>1, <3>2 DEF Planned, SamePlan
  <2> QED BY <1>2, <2>2, <2>5, <2>6, <2>7, PlanOne
<1>6. CASE /\ \E q \in Postponed(taken[h], e) : hosts' = [taken EXCEPT ![h] = q]
           /\ UNCHANGED <<out, clean>>
  <2>1. taken[h] = r /\ \A q : [taken EXCEPT ![h] = q] = [hosts EXCEPT ![h] = q]
    BY <1>2
  <2>2. PICK q \in Postponed(r, e) : hosts' = [hosts EXCEPT ![h] = q]
    BY <1>6, <2>1
  <2>3. /\ r \in HostType /\ r.checks_enabled = hosts[h].checks_enabled
        /\ r.should_be_scheduled = hosts[h].should_be_scheduled
        /\ r.next_check = hosts[h].next_check /\ r.is_executing = hosts[h].is_executing
    BY <1>2 DEF HostType
  <2> HIDE DEF r, e, taken
  <2>4. Cleaned' = Cleaned /\ \A x \in Host : Due(out, calls, x) => Due(out', calls', x)
    BY <1>1, <1>6 DEF Cleaned
  <2>5. h \in Cleaned' /\ h \notin OnDemand => Planned(out', calls', h, q)
    <3> SUFFICES ASSUME h \in Cleaned, h \notin OnDemand PROVE Planned(out', calls', h, q)
      BY <2>4
    <3>1. /\ r.checks_enabled => r.should_be_scheduled
          /\ r.is_executing => r.next_check # "past"
      BY <1>4, <2>3 DEF Planned
    <3> QED BY <1>3, <2>2, <2>3, <3>1, PostponedPlan
  <2> QED BY <1>2, <2>2, <2>4, <2>5, PlanOne
<1> QED BY <1>1, <1>5, <1>6

\* A host of which a check begins, or fails to begin.
LEMMA BeginPlan ==
    ASSUME OthersOK, Sound(hosts, fails, out, calls, Cleaned), PlanInv, NEW h \in Host,
           ForkFails(h) \/ RunForService(h)
    PROVE  PlanKept
<1>1. hosts \in [Host -> HostType] /\ hosts[h] \in HostType /\ IsABag(out)
  BY DEF Sound
<1>2. CASE ForkFails(h)
  <2>1. PICK q : hosts' = [hosts EXCEPT ![h] = q]
    BY <1>2 DEF ForkFails
  <2>2. UNCHANGED <<out, calls>> /\ Cleaned' \subseteq Cleaned /\ h \notin Cleaned'
    BY <1>2, DisturbedIs DEF ForkFails, OthersOK
  <2> QED BY <1>1, <2>1, <2>2, PlanOne
<1>3. CASE RunForService(h)
  <2> DEFINE s == Started(hosts[h])
             c == Check(h, Plain, FALSE)
  <2>1. /\ hosts' = [hosts EXCEPT ![h] = s] /\ hosts[h].checks_enabled
        /\ out' = out (+) SetToBag({c}) /\ UNCHANGED <<calls, clean>> /\ Cleaned' = Cleaned
    BY <1>1, <1>3, Events DEF RunForService, Viable, Cleaned
  <2> HIDE DEF c
  <2>2. BagToSet(out') = BagToSet(out) \cup {c}
    BY <1>1, <2>1, BagAdd
  <2>3. \A x \in Host : Due(out, calls, x) => Due(out', calls', x)
    BY <2>1, <2>2 DEF Due
  <2>4. SamePlan(s, hosts[h])
    BY <1>1, StartedPlan
  <2> HIDE DEF s
  <2>5. h \in Cleaned' /\ h \notin OnDemand => Planned(out', calls', h, s)
    BY <2>1, <2>3, <2>4, Replanned DEF PlanInv, Cleaned
  <2> QED BY <1>1, <2>1, <2>3, <2>5, PlanOne
<1> QED BY <1>2, <1>3

\* Scans and commands that schedule the host, or leave its schedule alone.
LEMMA SchedulePlan ==
    ASSUME OthersOK, Sound(hosts, fails, out, calls, Cleaned), PlanInv, NEW h \in Host,
           Freshen(h) \/ Expire(h) \/ ForceCheck(h) \/ SwitchChecks(h)
    PROVE  PlanKept
<1>1. hosts \in [Host -> HostType] /\ hosts[h] \in HostType
  BY DEF Sound
<1>2. UNCHANGED <<out, calls, clean>> /\ Cleaned' = Cleaned
  BY DEF Freshen, Expire, ForceCheck, SwitchChecks, Cleaned
<1>3. h \in Cleaned /\ h \notin OnDemand => Planned(out, calls, h, hosts[h])
  BY DEF PlanInv, Cleaned
<1>4. ASSUME NEW r, hosts' = [hosts EXCEPT ![h] = r],
             h \in Cleaned /\ h \notin OnDemand => Planned(out, calls, h, r)
      PROVE  PlanKept
  <2>1. h \in Cleaned' /\ h \notin OnDemand => Planned(out', calls', h, r)
    BY <1>2, <1>4
  <2> QED BY <1>1, <1>2, <1>4, <2>1, PlanOne
<1>5. ASSUME NEW u \in HostType, u.checks_enabled = hosts[h].checks_enabled,
             u.should_be_scheduled = hosts[h].should_be_scheduled,
             NEW e \in {Forced, Freshened}, NEW r \in Scheduled(u, e),
             hosts' = [hosts EXCEPT ![h] = r]
      PROVE  PlanKept
  <2>1. /\ r.checks_enabled = hosts[h].checks_enabled
        /\ r.should_be_scheduled = hosts[h].should_be_scheduled
        /\ r.next_check = "event" /\ r.event # NoEvent
    BY <1>5, ScheduledPlan, Events
  <2>2. h \in Cleaned /\ h \notin OnDemand => Planned(out, calls, h, r)
    BY <1>3, <2>1 DEF Planned
  <2> QED BY <1>4, <1>5, <2>2
<1>6. CASE Freshen(h)
  <2> DEFINE u == [hosts[h] EXCEPT !.is_being_freshened = TRUE]
  <2>1. PICK r \in Scheduled(u, Freshened) : hosts' = [hosts EXCEPT ![h] = r]
    BY <1>6 DEF Freshen
  <2>2. /\ u \in HostType /\ u.checks_enabled = hosts[h].checks_enabled
        /\ u.should_be_scheduled = hosts[h].should_be_scheduled
    BY <1>1 DEF HostType
  <2> HIDE DEF u
  <2> QED BY <1>5, <2>1, <2>2
<1>7. CASE Expire(h)
  <2> DEFINE r == [hosts[h] EXCEPT !.recent = FALSE]
  <2>1. hosts' = [hosts EXCEPT ![h] = r]
    BY <1>7 DEF Expire
  <2>2. SamePlan(r, hosts[h]) /\ r.is_executing = hosts[h].is_executing
    BY <1>1 DEF HostType, SamePlan
  <2> HIDE DEF r
  <2>3. h \in Cleaned /\ h \notin OnDemand => Planned(out, calls, h, r)
    BY <1>3, <2>2, Replanned
  <2> QED BY <1>4, <2>1, <2>3
<1>8. CASE ForceCheck(h)
  <2>1. PICK r \in Scheduled(hosts[h], Forced) : hosts' = [hosts EXCEPT ![h] = r]
    BY <1>8 DEF ForceCheck
  <2> QED BY <1>1, <1>5, <2>1
<1>9. CASE SwitchChecks(h)
  <2> DEFINE off == [hosts[h] EXCEPT !.checks_enabled = FALSE, !.should_be_scheduled = FALSE]
             on == [hosts[h] EXCEPT !.checks_enabled = TRUE, !.next_check = "set",
                                    !.should_be_scheduled = h \notin OnDemand]
  <2>1. PICK r \in (IF hosts[h].checks_enabled THEN {off} ELSE Postponed(on, Plain)) :
          hosts' = [hosts EXCEPT ![h] = r]
    BY <1>9 DEF SwitchChecks
  <2>2. /\ ~off.checks_enabled /\ off.next_check = hosts[h].next_check
        /\ off.is_executing = hosts[h].is_executing
    BY <1>1 DEF HostType
  <2>3. /\ on \in HostType /\ on.next_check # "past"
        /\ h \notin OnDemand => on.should_be_scheduled
    BY <1>1 DEF HostType, NextCheck
  <2> HIDE DEF off, on
  <2>4. h \in Cleaned /\ h \notin OnDemand => Planned(out, calls, h, off)
    BY <1>3, <2>2 DEF Planned
  <2>5. h \notin OnDemand /\ r \in Postponed(on, Plain) => Planned(out, calls, h, r)
    BY <2>3, PostponedPlan
  <2> QED BY <1>4, <2>1, <2>4, <2>5
<1> QED BY <1>6, <1>7, <1>8, <1>9

\* Where the next check of a clean host is in sight, it does not come to be long past.
LEMMA GoesByPlan ==
    ASSUME OthersOK, Sound(hosts, fails, out, calls, Cleaned), PlanInv, NEW h \in Host,
           GoesBy(h)
    PROVE  PlanKept
<1> DEFINE r == [hosts[h] EXCEPT !.next_check = "past"]
<1>1. /\ calls = <<>>
      /\ hosts[h].next_check = "set" \/ (hosts[h].next_check = "event" /\ hosts[h].event = NoEvent)
      /\ \A c \in BagToSet(out) : c.host = h => c.late
      /\ hosts' = [hosts EXCEPT ![h] = r] /\ UNCHANGED <<out, calls, clean>>
      /\ Cleaned' = Cleaned
  BY DEF GoesBy, Cleaned
<1>2. hosts \in [Host -> HostType] /\ hosts[h] \in HostType
  BY DEF Sound
<1>3. /\ r.checks_enabled = hosts[h].checks_enabled
      /\ r.is_executing = hosts[h].is_executing
  BY <1>2 DEF HostType
<1> HIDE DEF r
<1>4. h \in Cleaned' /\ h \notin OnDemand => Planned(out', calls', h, r)
  <2> SUFFICES ASSUME h \in Cleaned, h \notin OnDemand PROVE Planned(out', calls', h, r)
    BY <1>1
  <2>1. Planned(out, calls, h, hosts[h]) /\ Tracked(out, h, hosts[h].is_executing)
    BY DEF PlanInv, Cleaned, Sound
  <2>2. ~hosts[h].is_executing /\ \A c \in BagToSet(out) : c.host # h
    BY <1>1, <2>1 DEF Tracked
  <2>3. ~Due(out, calls, h)
    BY <1>1, <2>2 DEF Due
  <2>4. ~hosts[h].checks_enabled
    BY <1>1, <2>1, <2>3 DEF Planned
  <2> QED BY <1>3, <2>2, <2>4 DEF Planned
<1> QED BY <1>1, <1>2, <1>4, PlanOne

\* The host becomes another, but has been disturbed.
LEMMA DisturbedPlan ==
    ASSUME OthersOK, Sound(hosts, fails, out, calls, Cleaned), PlanInv, NEW h \in Host,
           Orphan(h) \/ (\E max \in 1 .. Highest : ChangeMaxAttempts(h, max))
    PROVE  PlanKept
<1>1. hosts \in [Host -> HostType]
  BY DEF Sound
<1>2. CASE Orphan(h)
  <2>1. PICK q : hosts' = [hosts EXCEPT ![h] = q]
    BY <1>2 DEF Orphan
  <2>2. /\ hosts[h].is_executing /\ hosts[h].next_check = "past" /\ UNCHANGED <<out, calls>>
        /\ Cleaned' \subseteq Cleaned
    BY <1>2, DisturbedIs DEF Orphan, OthersOK
  <2>3. h \in Cleaned' => h \in OnDemand
    BY <2>2 DEF PlanInv, Planned, Cleaned
  <2> QED BY <1>1, <2>1, <2>2, <2>3, PlanOne
<1>3. CASE \E max \in 1 .. Highest : ChangeMaxAttempts(h, max)
  <2>1. PICK max \in 1 .. Highest : ChangeMaxAttempts(h, max)
    BY <1>3
  <2> DEFINE r == [hosts[h] EXCEPT !.max_attempts = max, !.current_attempt =
                     IF /\ hosts[h].state_type = "HARD" /\ hosts[h].current_state # "UP"
                        /\ hosts[h].current_attempt > 1
                     THEN max ELSE hosts[h].current_attempt]
  <2>2. hosts' = [hosts EXCEPT ![h] = r]
    BY <1>1, <2>1 DEF ChangeMaxAttempts
  <2> HIDE DEF r
  <2>3. UNCHANGED <<out, calls>> /\ Cleaned' \subseteq Cleaned /\ h \notin Cleaned'
    BY <2>1, DisturbedIs DEF ChangeMaxAttempts, OthersOK
  <2> QED BY <1>1, <2>2, <2>3, PlanOne
<1> QED BY <1>2, <1>3

LEMMA DelayPlan ==
    ASSUME OthersOK, Sound(hosts, fails, out, calls, Cleaned), PlanInv,
           NEW c \in BagToSet(out), Delay(c)
    PROVE  PlanKept
<1> DEFINE left == out (-) SetToBag({c})
           d == [c EXCEPT !.late = TRUE]
<1>1. out' = left (+) SetToBag({d}) /\ UNCHANGED <<hosts, calls>>
  BY DEF Delay
<1>2. Cleaned' \subseteq Cleaned /\ c.host \notin Cleaned'
  BY DisturbedIs DEF Delay, OthersOK
<1>3. IsABag(out)
  BY DEF Sound
<1>4. IsABag(left) /\ \A e \in BagToSet(out) : e # c => e \in BagToSet(left)
  BY <1>3, BagTake
<1> HIDE DEF left, d
<1>5. \A e \in BagToSet(out) : e # c => e \in BagToSet(out')
  BY <1>1, <1>4, BagAdd
<1> SUFFICES ASSUME NEW x \in Cleaned', x \notin OnDemand
             PROVE  Planned(out', calls', x, hosts'[x])
  BY DEF PlanKept
<1>6. /\ x # c.host /\ Planned(out, calls, x, hosts[x]) /\ SamePlan(hosts[x], hosts[x])
  BY <1>2 DEF Cleaned, PlanInv, SamePlan
<1>7. Due(out, calls, x) => Due(out', calls', x)
  BY <1>1, <1>5, <1>6 DEF Due
<1>8. Planned(out', calls', x, hosts[x])
  BY <1>6, <1>7, Replanned
<1> QED BY <1>1, <1>8

\* A restart puts every host that is to be checked on the event list.
LEMMA RestartPlan ==
    ASSUME OthersOK, Sound(hosts, fails, out, calls, Cleaned), PlanInv, Restart
    PROVE  PlanKept
<1> SUFFICES ASSUME NEW x \in Cleaned', x \notin OnDemand
             PROVE  Planned(out', calls', x, hosts'[x])
  BY DEF PlanKept
<1> DEFINE enabled == hosts[x].checks_enabled
<1>1. x \in Host /\ hosts[x] \in HostType
  BY DisturbedIs DEF Restart, OthersOK, Sound, Cleaned
<1>2. PICK kept \in BOOLEAN : hosts'[x] = Restarted(hosts[x], enabled, kept)
  <2>1. PICK kept \in BOOLEAN :
          hosts' = [h \in Host |->
                     Restarted(hosts[h], h \notin OnDemand /\ hosts[h].checks_enabled, kept)]
    BY DEF Restart
  <2>2. (x \notin OnDemand /\ hosts[x].checks_enabled) = enabled
    BY <1>1 DEF HostType
  <2> QED BY <1>1, <2>1, <2>2
<1> DEFINE r == Restarted(hosts[x], enabled, kept)
<1>3. /\ ~r.is_executing /\ r.checks_enabled = enabled
      /\ r.should_be_scheduled = enabled
      /\ enabled => r.next_check = "event" /\ r.event \in {Plain, hosts[x].options}
  BY <1>1 DEF Restarted, HostType
<1>4. Plain # NoEvent /\ hosts[x].options # NoEvent
  BY <1>1, Events DEF HostType
<1> HIDE DEF r
<1>5. Planned(out', calls', x, r)
  BY <1>3, <1>4 DEF Planned
<1> QED BY <1>2, <1>5 DEF r

LEMMA StepPlan ==
    ASSUME OthersOK, Sound(hosts, fails, out, calls, Cleaned), PlanInv, [Next]_vars
    PROVE  PlanKept
<1>1. ASSUME UNCHANGED <<hosts, out, calls, clean>> PROVE PlanKept
  BY <1>1 DEF PlanKept, PlanInv, Cleaned, Planned, Due
<1>2. ASSUME NEW h \in Host, \/ RunScheduled(h) \/ ForkFails(h) \/ RunForService(h)
                             \/ CheckOnDemand(h) \/ GoesBy(h) \/ Orphan(h) \/ Freshen(h)
                             \/ Expire(h) \/ Nature(h) \/ ForceCheck(h) \/ SwitchChecks(h)
      PROVE  PlanKept
  <2>1. CASE CheckOnDemand(h)
    <3>1. calls = <<>> /\ Sync(h, <<>>) /\ <<>> \in Seq(CallType)
      BY <2>1 DEF CheckOnDemand, Spend
    <3> QED BY <3>1, SyncPlan
  <2>2. CASE Nature(h)
    BY <1>1, <2>2 DEF Nature
  <2> QED BY <1>2, <2>1, <2>2, RunScheduledPlan, BeginPlan, GoesByPlan, DisturbedPlan,
             SchedulePlan
<1>3. ASSUME NEW h \in Host, NEW max \in 1 .. Highest, ChangeMaxAttempts(h, max)
      PROVE  PlanKept
  BY <1>3, DisturbedPlan
<1>4. ASSUME NEW h \in Host, NEW new \in HostState, PassiveResult(h, new)
      PROVE  PlanKept
  BY <1>4, PassiveResultPlan
<1>5. ASSUME NEW c \in BagToSet(out), Report(c) \/ Delay(c)
      PROVE  PlanKept
  BY <1>5, ReportPlan, DelayPlan
<1>6. CASE AskParent \/ Settle \/ Restart
  BY <1>6, AskParentPlan, SettlePlan, RestartPlan
<1>7. CASE UNCHANGED vars
  BY <1>1, <1>7 DEF vars
<1> QED BY <1>2, <1>3, <1>4, <1>5, <1>6, <1>7 DEF Next

---------------------------------------------------------------------------------

LEMMA InitInv == Init => IInv
<1> SUFFICES ASSUME Init PROVE IInv
  OBVIOUS
<1>1. config \in Configs /\ config.most \in Nat /\ config.changes \in Nat
  BY ConfigsAssumption DEF Init
<1>2. OthersOK
  BY <1>1 DEF Init, OthersOK
<1>3. ASSUME NEW h \in Host
      PROVE  hosts[h] \in HostType /\ Earned(hosts[h], 0) /\ hosts[h].is_executing = FALSE
  <2>1. config.attempts[h] \in 1 .. Highest
    BY <1>1, ConfigsAssumption
  <2>2. hosts[h] \in HostType
    BY <2>1, HighestAssumption DEF Init, HostType, NextCheck, HostState
  <2>3. /\ hosts[h].current_state = "UP" /\ hosts[h].current_attempt = 1
        /\ hosts[h].is_executing = FALSE
    BY DEF Init
  <2> QED BY <2>2, <2>3 DEF Earned, Idle, IdleAs
<1>4. hosts \in [Host -> HostType]
  <2>1. hosts = [h \in Host |-> hosts[h]]
    BY DEF Init
  <2> QED BY <1>3, <2>1
<1>5. fails \in [Host -> 0 .. Highest] /\ \A h \in Host : fails[h] = 0
  BY HighestAssumption DEF Init
<1>6. IsABag(out) /\ BagToSet(out) = {}
  BY DEF Init, EmptyBag, SetToBag, IsABag, BagToSet
<1>7. \A h \in Host : Tracked(out, h, FALSE)
  BY <1>6 DEF Tracked
<1>8. calls \in Seq(CallType) /\ CallsOK(calls, hosts, fails, config)
  BY CallsNone DEF Init
<1>9. Sound(hosts, fails, out, calls, Cleaned)
  BY <1>3, <1>4, <1>5, <1>6, <1>7, <1>8 DEF Sound, Cleaned
<1>10. PlanInv
  <2> SUFFICES ASSUME NEW h \in Host, h \notin OnDemand
               PROVE  Planned(out, calls, h, hosts[h])
    BY DEF PlanInv
  <2>1. /\ ~hosts[h].is_executing /\ hosts[h].should_be_scheduled
        /\ hosts[h].next_check = "event" /\ hosts[h].event = Plain
    BY DEF Init
  <2> QED BY <2>1, Events DEF Planned
<1> QED BY <1>2, <1>9, <1>10, InvIs DEF IInv

LEMMA StepKept == ASSUME IInv, [Next]_vars PROVE Kept
<1>1. OthersOK /\ Sound(hosts, fails, out, calls, Cleaned) /\ PlanInv
  BY InvIs DEF IInv
<1>2. ASSUME NEW h \in Host, \/ RunScheduled(h) \/ ForkFails(h) \/ RunForService(h)
                             \/ CheckOnDemand(h) \/ GoesBy(h) \/ Orphan(h) \/ Freshen(h)
                             \/ Expire(h) \/ Nature(h) \/ ForceCheck(h) \/ SwitchChecks(h)
      PROVE  Kept
  BY <1>1, <1>2, RunScheduledStep, ForkFailsStep, RunForServiceStep, CheckOnDemandStep,
     GoesByStep, OrphanStep, FreshenStep, ExpireStep, NatureStep, ForceCheckStep, SwitchChecksStep
<1>3. ASSUME NEW h \in Host, NEW max \in 1 .. Highest, ChangeMaxAttempts(h, max)
      PROVE  Kept
  BY <1>1, <1>3, ChangeMaxAttemptsStep
<1>4. ASSUME NEW h \in Host, NEW new \in HostState, PassiveResult(h, new)
      PROVE  Kept
  BY <1>1, <1>4, PassiveResultStep
<1>5. ASSUME NEW c \in BagToSet(out), Report(c) \/ Delay(c)
      PROVE  Kept
  BY <1>1, <1>5, ReportStep, DelayStep
<1>6. CASE AskParent \/ Settle \/ Restart
  BY <1>1, <1>6, AskParentStep, SettleStep, RestartStep
<1>7. CASE UNCHANGED vars
  <2>1. OthersOK' /\ Cleaned' = Cleaned
    BY <1>1, <1>7 DEF OthersOK, Cleaned, vars
  <2> QED BY <1>1, <1>7, <2>1 DEF Kept, vars
<1> QED BY <1>2, <1>3, <1>4, <1>5, <1>6, <1>7 DEF Next

LEMMA StepInv == IInv /\ [Next]_vars => IInv'
<1> SUFFICES ASSUME IInv, [Next]_vars PROVE IInv'
  OBVIOUS
<1>1. Kept
  BY StepKept
<1>2. CoreInv'
  BY <1>1, KeptIs
<1>3. PlanKept
  BY InvIs, StepPlan DEF IInv
<1>4. PlanInv'
  BY <1>1, <1>3 DEF Kept, PlanKept, PlanInv, Cleaned, Planned, Due, OnDemand
<1> QED BY <1>2, <1>4 DEF IInv

\* The attempts of clean hosts are counted, their checks are known, their next checks are in
\* sight if they have an interval, and the calls that check parents go up the network.
THEOREM Invariant == Spec => []IInv
BY InitInv, StepInv, PTL DEF Spec

\* A clean host has a hard problem only after as many failed checks as it has attempts.  The
\* scan for orphans, which does not ask when a check began, leaves hosts with an interval
\* clean: they are only taken for orphans when a check of theirs is late.
THEOREM AlwaysEarnedHard == Spec => []EarnedHard
<1>1. IInv => EarnedHard
  <2> SUFFICES ASSUME IInv, NEW h \in Host, clean[h], hosts[h].state_type = "HARD",
                      hosts[h].current_state # "UP"
               PROVE  fails[h] >= hosts[h].max_attempts
    BY DEF EarnedHard
  <2>1. Earned(hosts[h], fails[h])
    BY DEF IInv, CoreInv, CleanInv
  <2> QED BY <2>1 DEF Earned, Counted, CountedAs, Idle, IdleAs
<1> QED BY <1>1, Invariant, PTL

\* A clean host has at most one check out, and is executing just when there is one.  A host
\* without an interval that the scan for orphans has taken for one is not clean.
THEOREM AlwaysOneCheck == Spec => []OneCheck
<1>1. IInv => OneCheck
  <2> SUFFICES ASSUME IInv, NEW h \in Host, clean[h]
               PROVE  LET mine == {c \in BagToSet(out) : c.host = h}
                      IN /\ Cardinality(mine) <= 1 /\ \A c \in mine : out[c] = 1
                         /\ hosts[h].is_executing <=> mine # {}
    BY DEF OneCheck, IInv, CoreInv
  <2> DEFINE mine == {c \in BagToSet(out) : c.host = h}
  <2>1. Tracked(out, h, hosts[h].is_executing)
    BY DEF IInv, CoreInv, CleanInv
  <2>2. \A c \in mine : out[c] = 1
    BY <2>1 DEF Tracked
  <2>3. hosts[h].is_executing <=> mine # {}
    BY <2>1 DEF Tracked
  <2>4. Cardinality(mine) <= 1
    <3>1. CASE mine = {}
      <4> HIDE DEF mine
      <4> QED BY <3>1, FS_EmptySet
    <3>2. CASE mine # {}
      <4>1. PICK c \in mine : TRUE
        BY <3>2
      <4>2. mine = {c}
        BY <2>1, <4>1 DEF Tracked
      <4> HIDE DEF mine
      <4>3. Cardinality({c}) = 1
        BY FS_Singleton
      <4> QED BY <4>2, <4>3
    <3> QED BY <3>1, <3>2
  <2> QED BY <2>2, <2>3, <2>4
<1> QED BY <1>1, Invariant, PTL

---------------------------------------------------------------------------------
(* Hard problems stay hard. *)

\* What a step may make of a host: a hard problem stays hard or ends.
Stays(r, x) ==
    r.state_type = "HARD" /\ r.current_state # "UP" =>
        x.state_type = "HARD" \/ x.current_state = "UP"

LEMMA CalmSame ==
    ASSUME NEW r, NEW x, NEW soft, Calm(r, soft), SameCore(x, r)
    PROVE  Calm(x, soft) /\ Stays(r, x)
BY Zenon DEF Calm, SameCore, Stays

LEMMA CalmCounted ==
    ASSUME NEW state, NEW type \in {"SOFT", "HARD"}, NEW k \in 1 .. Highest,
           NEW max \in 1 .. Highest, NEW soft, CalmAs(state, type, k, max, soft),
           NEW n, n = IF type = "HARD" THEN 1 ELSE IF k < max THEN k + 1 ELSE k,
           NEW m, m = IF type = "HARD" \/ state = "UP" THEN 1 ELSE IF k < max THEN k + 1 ELSE k
    PROVE  /\ CalmAs(state, type, m, max, soft)
           /\ soft => CalmAs(state, type, n, max, soft)
BY HighestAssumption DEF CalmAs

LEMMA CalmAdjusted ==
    ASSUME NEW r \in HostType, NEW active \in BOOLEAN, NEW soft, Calm(r, soft),
           active \/ soft
    PROVE  Calm(Adjusted(r, active), soft)
<1> DEFINE k == Adjusted(r, active).current_attempt
<1>1. k = IF r.state_type = "HARD" \/ (active /\ r.current_state = "UP") THEN 1
          ELSE IF r.current_attempt < r.max_attempts THEN r.current_attempt + 1
          ELSE r.current_attempt
  BY AdjustedIs
<1> HIDE DEF k
<1>2. CalmAs(r.current_state, r.state_type, k, r.max_attempts, soft)
  <2>1. Fields(r) /\ CalmAs(r.current_state, r.state_type, r.current_attempt, r.max_attempts, soft)
    BY HostFields DEF Calm
  <2>2. CASE active
    <3>1. k = IF r.state_type = "HARD" \/ r.current_state = "UP" THEN 1
              ELSE IF r.current_attempt < r.max_attempts THEN r.current_attempt + 1
              ELSE r.current_attempt
      BY <1>1, <2>2
    <3> QED BY <2>1, <3>1, CalmCounted DEF Fields
  <2>3. CASE ~active
    <3>1. k = IF r.state_type = "HARD" THEN 1
              ELSE IF r.current_attempt < r.max_attempts THEN r.current_attempt + 1
              ELSE r.current_attempt
      BY <1>1, <2>3
    <3> QED BY <2>1, <2>3, <3>1, CalmCounted DEF Fields
  <2> QED BY <2>2, <2>3
<1>3. /\ Adjusted(r, active).current_state = r.current_state
      /\ Adjusted(r, active).state_type = r.state_type
      /\ Adjusted(r, active).max_attempts = r.max_attempts
      /\ Adjusted(r, active).current_attempt = k
  BY AdjustedFields DEF k
<1> QED BY <1>2, <1>3, Zenon DEF Calm

LEMMA CalmStarted ==
    ASSUME NEW r \in HostType, NEW soft, Calm(r, soft)
    PROVE  Calm(Started(r), soft) /\ Stays(r, Started(r))
<1>1. Calm(Adjusted(r, TRUE), soft)
  BY CalmAdjusted
<1>2. /\ Started(r).current_state = Adjusted(r, TRUE).current_state
      /\ Started(r).state_type = Adjusted(r, TRUE).state_type
      /\ Started(r).max_attempts = Adjusted(r, TRUE).max_attempts
      /\ Started(r).current_attempt = Adjusted(r, TRUE).current_attempt
  BY StartedIs, AdjustedFields
<1>3. Calm(Started(r), soft)
  BY <1>1, <1>2, Zenon DEF Calm
<1> QED BY <1>3, StartedIs DEF Stays

\* What a result makes of a host that is calm.
LEMMA CalmProcessed ==
    ASSUME NEW r \in HostType, NEW soft, Calm(r, soft), r.last_state = r.current_state,
           NEW new \in HostState, NEW route \in {"DOWN", "UNREACHABLE"},
           NEW check \in CheckOptions, check.active \/ (check.soft <=> soft)
    PROVE  LET x == Handled(Processed(r, new, route, check))
           IN Calm(x, soft) /\ Stays(r, x)
<1> DEFINE p == Processed(r, new, route, check)
           x == Handled(p)
<1>1. /\ p \in HostType /\ p.max_attempts = r.max_attempts
      /\ p.last_state = r.current_state /\ (p.current_state = "UP" <=> new = "UP")
  BY ProcessedIs
<1>2. /\ x.current_state = p.current_state /\ x.state_type = p.state_type
      /\ x.max_attempts = r.max_attempts
      /\ x.current_state # "UP" => x.current_attempt = p.current_attempt
      /\ x.current_attempt \in {1, p.current_attempt}
      /\ p.current_state = "UP" /\ p.last_state # "UP" => x.current_attempt = 1
  <2> HIDE DEF p
  <2> QED BY <1>1, HandledIs
<1>3. /\ CalmAs(r.current_state, r.state_type, r.current_attempt, r.max_attempts, soft)
      /\ r.current_attempt \in 1 .. Highest /\ r.max_attempts \in 1 .. Highest
  BY HostFields DEF Calm, Fields
<1>4. CASE new = "UP"
  <2>1. x.current_attempt \in {1, r.current_attempt}
    <3>1. CASE r.current_state = "UP"
      <4>1. p = StillUp(r)
        BY <1>4, <3>1 DEF Processed
      <4>2. p.current_attempt = r.current_attempt
        BY <4>1 DEF StillUp, HostType
      <4> QED BY <1>2, <4>2
    <3>2. CASE r.current_state # "UP"
      BY <3>2, <1>1, <1>2, <1>4
    <3> QED BY <3>1, <3>2
  <2>2. x.current_state = "UP" /\ (r.current_state # "UP" => x.current_attempt = 1)
    BY <1>1, <1>2, <1>4
  <2>3. x.max_attempts = r.max_attempts
    BY <1>2
  <2> HIDE DEF x, p
  <2>4. CalmAs(x.current_state, x.state_type, x.current_attempt, x.max_attempts, soft)
    BY <1>3, <2>1, <2>2, <2>3, HighestAssumption DEF CalmAs
  <2>5. Calm(x, soft) /\ Stays(r, x)
    BY <2>2, <2>4 DEF Calm, Stays
  <2> QED BY <2>5 DEF x, p
<1>5. CASE new # "UP"
  <2>1. /\ x.current_state # "UP" /\ x.state_type = p.state_type
        /\ x.current_attempt = p.current_attempt /\ x.max_attempts = r.max_attempts
    BY <1>1, <1>2, <1>5
  <2>2. HardAtOnce(check) => ~soft
    BY DEF HardAtOnce
  <2>3. CASE r.current_state = "UP"
    <3>1. p = WentDown(r, new, route, check)
      BY <1>5, <2>3 DEF Processed
    <3>2. /\ p.state_type = IF HardAtOnce(check) \/ r.max_attempts = 1 THEN "HARD" ELSE "SOFT"
          /\ p.current_attempt = IF HardAtOnce(check) /\ r.max_attempts > 1 THEN 1
                                 ELSE r.current_attempt
      BY <1>5, <3>1, DownIs
    <3> HIDE DEF x, p
    <3>3. CalmAs(x.current_state, x.state_type, x.current_attempt, x.max_attempts, soft)
      BY <1>3, <2>1, <2>2, <2>3, <3>2, HighestAssumption DEF CalmAs
    <3>4. Calm(x, soft) /\ Stays(r, x)
      BY <2>3, <3>3 DEF Calm, Stays
    <3> QED BY <3>4 DEF x, p
  <2>4. CASE r.current_state # "UP"
    <3>1. p = StillDown(r, new, route, check)
      BY <1>5, <2>4 DEF Processed
    <3>2. /\ p.state_type = IF HardAtOnce(check) \/ r.current_attempt \in {1, r.max_attempts}
                            THEN "HARD" ELSE "SOFT"
          /\ p.current_attempt = IF HardAtOnce(check) THEN 1 ELSE r.current_attempt
      BY <1>5, <3>1, DownIs
    <3> HIDE DEF x, p
    <3>3. CalmAs(x.current_state, x.state_type, x.current_attempt, x.max_attempts, soft)
      BY <1>3, <2>1, <2>2, <2>4, <3>2, HighestAssumption DEF CalmAs
    <3>4. Stays(r, x)
      BY <1>3, <2>1, <2>4, <3>2 DEF CalmAs, Stays
    <3>5. Calm(x, soft) /\ Stays(r, x)
      BY <3>3, <3>4 DEF Calm
    <3> QED BY <3>5 DEF x, p
  <2> QED BY <2>3, <2>4
<1> QED BY <1>4, <1>5

LEMMA FinishCalm ==
    ASSUME config \in Configs, NEW hs \in [Host -> HostType], NEW h \in Host, NEW wanted,
           NEW left, NEW stack, Finish(hs, h, wanted, left, stack),
           \A x \in Host : x # h => Calm(hs[x], config.soft),
           Calm(Handled(hs[h]), config.soft)
    PROVE  \A x \in Host : Calm(hosts'[x], config.soft) /\ SameFrame(hosts'[x], hs[x])
<1>1. PICK r \in HostType, A \in SUBSET Host : Shaped(r, A, hs, h, left, stack)
  BY FinishShape
<1> DEFINE ys == [hs EXCEPT ![h] = r]
<1>2. SameCore(r, Handled(hs[h])) /\ hosts' = StartedAll(ys, A)
  BY <1>1 DEF Shaped
<1>3. ys \in [Host -> HostType] /\ \A x \in Host : ys[x] = IF x = h THEN r ELSE hs[x]
  OBVIOUS
<1> HIDE DEF ys
<1>4. \A x \in Host : hosts'[x] = IF x \in A THEN Started(ys[x]) ELSE ys[x]
  BY <1>2 DEF StartedAll
<1>5. Calm(r, config.soft) /\ SameFrame(r, hs[h])
  <2>1. Calm(r, config.soft)
    BY <1>2, CalmSame
  <2>2. SameFrame(r, hs[h])
    BY <1>2, HandledIs, Zenon DEF SameCore, SameFrame
  <2> QED BY <2>1, <2>2
<1> TAKE x \in Host
<1>6. Calm(ys[x], config.soft) /\ SameFrame(ys[x], hs[x]) /\ ys[x] \in HostType
  BY <1>3, <1>5 DEF SameFrame
<1>7. CASE x \in A
  <2>1. Calm(Started(ys[x]), config.soft) /\ SameFrame(Started(ys[x]), ys[x])
    BY <1>6, CalmStarted, StartedIs DEF SameFrame
  <2> QED BY <1>4, <1>6, <1>7, <2>1 DEF SameFrame
<1>8. CASE x \notin A
  BY <1>4, <1>6, <1>8
<1> QED BY <1>7, <1>8

LEMMA ProcessCalm ==
    ASSUME config \in Configs, NEW hs \in [Host -> HostType], NEW h \in Host, NEW wanted,
           NEW left, NEW stack, NEW new \in HostState, NEW check \in CheckOptions,
           check.active \/ (check.soft <=> config.soft),
           \A x \in Host : Calm(hs[x], config.soft),
           hs[h].last_state = hs[h].current_state,
           Process(hs, h, new, check, wanted, left, stack)
    PROVE  \A x \in Host : Calm(hosts'[x], config.soft) /\ Stays(hs[x], hosts'[x])
<1>1. CASE Serial(hs[h], new, check) /\ Parents(h) # <<>>
  <2> DEFINE r == [hs[h] EXCEPT !.state_type = "HARD"]
  <2>1. hosts' = [hs EXCEPT ![h] = r]
    BY <1>1 DEF Process
  <2>2. /\ r.current_state = "UP" /\ hs[h].current_state = "UP"
        /\ r.current_attempt = hs[h].current_attempt /\ r.max_attempts = hs[h].max_attempts
    BY <1>1 DEF Serial, HostType
  <2> HIDE DEF r
  <2>3. Calm(r, config.soft) /\ Stays(hs[h], r)
    BY <2>2 DEF Calm, CalmAs, Stays
  <2>4. \A x \in Host : Stays(hs[x], hs[x])
    BY DEF Stays
  <2> QED BY <2>1, <2>3, <2>4
<1>2. CASE ~(Serial(hs[h], new, check) /\ Parents(h) # <<>>)
  <2> DEFINE route == Reachability(hs, h)
             p == Processed(hs[h], new, route, check)
             ys == [hs EXCEPT ![h] = p]
  <2>1. Finish(ys, h, wanted, left, stack)
    <3>1. Finish([hs EXCEPT ![h] = Processed(@, new, route, check)], h, wanted, left, stack)
      BY <1>2 DEF Process
    <3> QED BY <3>1
  <2>2. hs[h] \in HostType /\ route \in {"DOWN", "UNREACHABLE"}
    BY DEF Reachability
  <2> HIDE DEF route
  <2>3. p \in HostType
    BY <2>2, ProcessedIs
  <2>4. Calm(Handled(p), config.soft) /\ Stays(hs[h], Handled(p))
    BY <2>2, CalmProcessed
  <2>5. Handled(p).current_state = p.current_state /\ Handled(p).state_type = p.state_type
    <3> HIDE DEF p
    <3> QED BY <2>3, HandledIs
  <2> HIDE DEF p
  <2>6. /\ ys \in [Host -> HostType] /\ ys[h] = p
        /\ \A x \in Host : x # h => ys[x] = hs[x]
    BY <2>3
  <2> HIDE DEF ys
  <2>7. \A x \in Host : Calm(hosts'[x], config.soft) /\ SameFrame(hosts'[x], ys[x])
    BY <2>1, <2>4, <2>6, FinishCalm
  <2>8. Stays(hs[h], p)
    BY <2>4, <2>5 DEF Stays
  <2>9. \A x \in Host : Stays(hs[x], ys[x])
    BY <2>6, <2>8 DEF Stays
  <2> QED BY <2>7, <2>9 DEF Stays, SameFrame
<1> QED BY <1>1, <1>2

\* All hosts are calm after the step, and their hard problems stay.
Steady == \A x \in Host : Calm(hosts'[x], config.soft) /\ Stays(hosts[x], hosts'[x])

LEMMA OneCalm ==
    ASSUME Sound(hosts, fails, out, calls, Cleaned), CalmInv, NEW h \in Host, NEW r,
           Calm(r, config.soft), Stays(hosts[h], r), hosts' = [hosts EXCEPT ![h] = r]
    PROVE  Steady
<1>1. \A x \in Host : hosts'[x] = IF x = h THEN r ELSE hosts[x]
  BY DEF Sound
<1>2. \A x \in Host : Stays(hosts[x], hosts[x])
  BY DEF Stays
<1> QED BY <1>1, <1>2 DEF Steady, CalmInv

\* A result for h, after what was made of it beforehand.
LEMMA ResultCalm ==
    ASSUME config \in Configs, Sound(hosts, fails, out, calls, Cleaned), CalmInv,
           NEW h \in Host, NEW r \in HostType, Calm(r, config.soft),
           r.current_state = hosts[h].current_state, r.state_type = hosts[h].state_type,
           r.last_state = r.current_state,
           NEW wanted, NEW left, NEW stack, NEW new \in HostState, NEW check \in CheckOptions,
           check.active \/ (check.soft <=> config.soft),
           Process([hosts EXCEPT ![h] = r], h, new, check, wanted, left, stack)
    PROVE  Steady
<1> DEFINE ys == [hosts EXCEPT ![h] = r]
<1>1. hosts \in [Host -> HostType]
  BY DEF Sound
<1>2. ys \in [Host -> HostType] /\ \A x \in Host : ys[x] = IF x = h THEN r ELSE hosts[x]
  BY <1>1
<1>3. Process(ys, h, new, check, wanted, left, stack)
  OBVIOUS
<1> HIDE DEF ys
<1>4. \A x \in Host : Calm(ys[x], config.soft)
  BY <1>2 DEF CalmInv
<1>5. ys[h].last_state = ys[h].current_state
  BY <1>2
<1>6. \A x \in Host : Calm(hosts'[x], config.soft) /\ Stays(ys[x], hosts'[x])
  BY <1>2, <1>3, <1>4, <1>5, ProcessCalm
<1> QED BY <1>2, <1>6 DEF Steady, Stays

LEMMA SyncCalm ==
    ASSUME config \in Configs, Sound(hosts, fails, out, calls, Cleaned), CalmInv,
           NEW h \in Host, NEW stack, Sync(h, stack)
    PROVE  Steady
<1> DEFINE j == Adjusted(hosts[h], TRUE)
           v == Saved(j)
           a == [v EXCEPT !.is_being_freshened = FALSE, !.recent = TRUE, !.options = Plain]
<1>1. Process([hosts EXCEPT ![h] = a], h, Ping(h), Active, FALSE, out, stack)
  BY DEF Sync
<1>2. hosts[h] \in HostType /\ Calm(hosts[h], config.soft)
  BY DEF Sound, CalmInv
<1>3. /\ j \in HostType /\ Calm(j, config.soft)
      /\ j.current_state = hosts[h].current_state /\ j.state_type = hosts[h].state_type
  BY <1>2, AdjustedIs, AdjustedFields, CalmAdjusted
<1> HIDE DEF j
<1>4. v \in HostType /\ SameCore(v, j) /\ v.last_state = j.current_state
  BY <1>3, SavedIs
<1> HIDE DEF v
<1>5. a \in HostType /\ SameCore(a, v) /\ a.last_state = v.last_state
  BY <1>4 DEF HostType, SameCore
<1> HIDE DEF a
<1>6. /\ a.current_state = hosts[h].current_state /\ a.state_type = hosts[h].state_type
      /\ a.last_state = a.current_state /\ SameCore(a, j)
  BY <1>3, <1>4, <1>5 DEF SameCore
<1>7. Calm(a, config.soft)
  BY <1>3, <1>6, CalmSame
<1>8. Ping(h) \in HostState /\ Active \in CheckOptions /\ Active.active
  BY DEF Ping, HostState, Active, CheckOptions
<1> QED BY <1>1, <1>5, <1>6, <1>7, <1>8, ResultCalm

LEMMA ReportCalm ==
    ASSUME config \in Configs, Sound(hosts, fails, out, calls, Cleaned), CalmInv,
           NEW c \in BagToSet(out), Report(c)
    PROVE  Steady
<1> DEFINE left == out (-) SetToBag({c})
           h == c.host
           u == [hosts[h] EXCEPT !.is_being_freshened = FALSE]
           g == IF c.event.fresh THEN u ELSE hosts[h]
<1>1. \/ hosts' = [hosts EXCEPT ![h] = g]
      \/ \E recent \in BOOLEAN :
            Process([hosts EXCEPT ![h] = Received(g, recent)], h, c.seen, Active,
                    c.reschedule, left, <<>>)
  BY DEF Report
<1>2. c \in CheckType
  BY DEF Sound
<1>3. h \in Host /\ c.seen \in HostState /\ Active \in CheckOptions /\ Active.active
  BY <1>2 DEF CheckType, HostState, Active, CheckOptions
<1>4. hosts[h] \in HostType /\ Calm(hosts[h], config.soft)
  BY <1>3 DEF Sound, CalmInv
<1>5. g \in HostType /\ SameCore(g, hosts[h])
  <2>1. u \in HostType /\ SameCore(u, hosts[h])
    BY <1>4 DEF HostType, SameCore
  <2>2. SameCore(hosts[h], hosts[h])
    BY DEF SameCore
  <2> QED BY <1>4, <2>1, <2>2
<1> HIDE DEF left, g, h
<1>6. Calm(g, config.soft) /\ Stays(hosts[h], g)
  BY <1>4, <1>5, CalmSame
<1>7. CASE hosts' = [hosts EXCEPT ![h] = g]
  BY <1>3, <1>6, <1>7, OneCalm
<1>8. ASSUME NEW recent \in BOOLEAN,
             Process([hosts EXCEPT ![h] = Received(g, recent)], h, c.seen, Active,
                     c.reschedule, left, <<>>)
      PROVE  Steady
  <2> DEFINE r == Received(g, recent)
  <2>1. /\ r \in HostType /\ r.last_state = r.current_state
        /\ r.current_state = g.current_state /\ r.state_type = g.state_type
        /\ r.current_attempt = g.current_attempt /\ r.max_attempts = g.max_attempts
    BY <1>5, ReceivedIs
  <2>2. Process([hosts EXCEPT ![h] = r], h, c.seen, Active, c.reschedule, left, <<>>)
    BY <1>8
  <2> HIDE DEF r
  <2>3. Calm(r, config.soft)
    BY <1>6, <2>1, Zenon DEF Calm
  <2>4. r.current_state = hosts[h].current_state /\ r.state_type = hosts[h].state_type
    BY <1>5, <2>1 DEF SameCore
  <2> QED BY <1>3, <2>1, <2>2, <2>3, <2>4, ResultCalm
<1> QED BY <1>1, <1>7, <1>8

LEMMA PassiveCalm ==
    ASSUME config \in Configs, Sound(hosts, fails, out, calls, Cleaned), CalmInv,
           NEW h \in Host, NEW new \in HostState, PassiveResult(h, new)
    PROVE  Steady
<1> DEFINE v == Saved(hosts[h])
           s == [v EXCEPT !.recent = TRUE]
           a == IF config.soft THEN Adjusted(s, FALSE) ELSE s
<1>1. Process([hosts EXCEPT ![h] = a], h, new, Passive, FALSE, out, <<>>)
  BY DEF PassiveResult
<1>2. hosts[h] \in HostType /\ Calm(hosts[h], config.soft)
  BY DEF Sound, CalmInv
<1>3. v \in HostType /\ SameCore(v, hosts[h]) /\ v.last_state = hosts[h].current_state
  BY <1>2, SavedIs
<1> HIDE DEF v
<1>4. s \in HostType /\ SameCore(s, v) /\ s.last_state = v.last_state
  BY <1>3 DEF HostType, SameCore
<1> HIDE DEF s
<1>5. SameCore(s, hosts[h]) /\ s.last_state = s.current_state
  BY <1>3, <1>4 DEF SameCore
<1>6. Calm(s, config.soft)
  BY <1>2, <1>5, CalmSame
<1>7. /\ a \in HostType /\ Calm(a, config.soft)
      /\ a.current_state = s.current_state /\ a.state_type = s.state_type
      /\ a.last_state = s.last_state
  <2>1. CASE config.soft
    BY <1>4, <1>6, <2>1, AdjustedIs, AdjustedFields, CalmAdjusted
  <2>2. CASE ~config.soft
    BY <1>4, <1>6, <2>2
  <2> QED BY <2>1, <2>2
<1> HIDE DEF a
<1>8. /\ a.current_state = hosts[h].current_state /\ a.state_type = hosts[h].state_type
      /\ a.last_state = a.current_state
  BY <1>5, <1>7 DEF SameCore
<1>9. Passive \in CheckOptions /\ Passive.soft = config.soft
  BY ConfigsAssumption DEF Passive, CheckOptions
<1> QED BY <1>1, <1>7, <1>8, <1>9, ResultCalm

LEMMA SettleCalm ==
    ASSUME config \in Configs, Sound(hosts, fails, out, calls, Cleaned), CalmInv, Settle
    PROVE  Steady
<1> DEFINE f == Head(calls)
           h == f.host
           s == IF f.asked /\ f.state = "UP" THEN "DOWN" ELSE "UNREACHABLE"
           q == [hosts[h] EXCEPT !.current_state = s]
           ys == [hosts EXCEPT ![h] = q]
<1>1. calls # <<>> /\ Finish([hosts EXCEPT ![h].current_state = s], h, TRUE, out, Tail(calls))
  BY DEF Settle
<1>2. /\ calls \in Seq(CallType) /\ CallsOK(calls, hosts, fails, config)
      /\ hosts \in [Host -> HostType]
  BY DEF Sound
<1>3. /\ f \in CallType /\ hosts[h].current_state = "UP" /\ hosts[h].state_type = "HARD"
      /\ hosts[h].max_attempts = 1
  BY <1>1, <1>2, CallsPop
<1>4. h \in Host /\ s \in HostState /\ s # "UP"
  BY <1>3 DEF CallType, HostState
<1> HIDE DEF f, s
<1>5. /\ q \in HostType /\ q.current_state = s /\ q.state_type = "HARD" /\ q.max_attempts = 1
      /\ q.current_attempt = hosts[h].current_attempt
  BY ZenonT(60), <1>2, <1>3, <1>4 DEF HostType
<1>6. Finish(ys, h, TRUE, out, Tail(calls))
  BY <1>1, <1>2
<1> HIDE DEF q
<1>7. ys \in [Host -> HostType] /\ \A x \in Host : ys[x] = IF x = h THEN q ELSE hosts[x]
  BY <1>2, <1>5
<1> HIDE DEF ys
<1>8. Calm(q, config.soft)
  <2>1. Calm(hosts[h], config.soft) /\ hosts[h].current_attempt \in 1 .. Highest
    BY <1>2, <1>4 DEF CalmInv, HostType
  <2>2. q.current_attempt = 1
    BY <1>3, <1>5, <2>1, HighestAssumption DEF Calm, CalmAs
  <2> QED BY <1>4, <1>5, <2>2 DEF Calm, CalmAs
<1>9. Calm(Handled(ys[h]), config.soft)
  <2>1. SameCore(Handled(q), q)
    BY <1>4, <1>5, HandledIs DEF SameCore
  <2> QED BY <1>4, <1>7, <1>8, <2>1, CalmSame
<1>10. \A x \in Host : x # h => Calm(ys[x], config.soft)
  BY <1>7 DEF CalmInv
<1>11. \A x \in Host : Calm(hosts'[x], config.soft) /\ SameFrame(hosts'[x], ys[x])
  BY <1>4, <1>6, <1>7, <1>9, <1>10, FinishCalm
<1>12. \A x \in Host : Stays(hosts[x], ys[x])
  BY <1>3, <1>7 DEF Stays
<1> QED BY <1>11, <1>12 DEF Steady, Stays, SameFrame

LEMMA ScheduleCalm ==
    ASSUME config \in Configs, Sound(hosts, fails, out, calls, Cleaned), CalmInv,
           NEW h \in Host, \/ GoesBy(h) \/ Orphan(h) \/ Freshen(h) \/ Expire(h)
                           \/ ForceCheck(h) \/ SwitchChecks(h)
    PROVE  Steady
<1>1. hosts[h] \in HostType /\ Calm(hosts[h], config.soft)
  BY DEF Sound, CalmInv
<1>2. ASSUME NEW u \in HostType, u.current_state = hosts[h].current_state,
             u.state_type = hosts[h].state_type, u.current_attempt = hosts[h].current_attempt,
             u.max_attempts = hosts[h].max_attempts,
             NEW r, r = u \/ SameCore(r, u), hosts' = [hosts EXCEPT ![h] = r]
      PROVE  Steady
  <2>1. Calm(u, config.soft) /\ Stays(hosts[h], u)
    BY <1>1, <1>2, Zenon DEF Calm, Stays
  <2>2. Calm(r, config.soft) /\ Stays(u, r)
    BY <1>2, <2>1, CalmSame DEF Stays
  <2>3. Stays(hosts[h], r)
    BY <1>2, <2>2 DEF Stays
  <2> QED BY <1>2, <2>2, <2>3, OneCalm
<1>3. CASE Orphan(h)
  <2> DEFINE u == [hosts[h] EXCEPT !.is_executing = FALSE]
  <2>1. PICK r \in Scheduled(u, Plain) : hosts' = [hosts EXCEPT ![h] = r]
    BY <1>3 DEF Orphan
  <2>2. /\ u \in HostType /\ u.current_state = hosts[h].current_state
        /\ u.state_type = hosts[h].state_type /\ u.current_attempt = hosts[h].current_attempt
        /\ u.max_attempts = hosts[h].max_attempts
    BY <1>1 DEF HostType
  <2> HIDE DEF u
  <2>3. SameCore(r, u)
    BY <2>2, ScheduledIs
  <2> QED BY <1>2, <2>1, <2>2, <2>3
<1>4. CASE Freshen(h)
  <2> DEFINE u == [hosts[h] EXCEPT !.is_being_freshened = TRUE]
  <2>1. PICK r \in Scheduled(u, Freshened) : hosts' = [hosts EXCEPT ![h] = r]
    BY <1>4 DEF Freshen
  <2>2. /\ u \in HostType /\ u.current_state = hosts[h].current_state
        /\ u.state_type = hosts[h].state_type /\ u.current_attempt = hosts[h].current_attempt
        /\ u.max_attempts = hosts[h].max_attempts
    BY <1>1 DEF HostType
  <2> HIDE DEF u
  <2>3. SameCore(r, u)
    BY <2>2, ScheduledIs
  <2> QED BY <1>2, <2>1, <2>2, <2>3
<1>5. CASE Expire(h)
  <2> DEFINE u == [hosts[h] EXCEPT !.recent = FALSE]
  <2>1. hosts' = [hosts EXCEPT ![h] = u]
    BY <1>5 DEF Expire
  <2>2. /\ u \in HostType /\ u.current_state = hosts[h].current_state
        /\ u.state_type = hosts[h].state_type /\ u.current_attempt = hosts[h].current_attempt
        /\ u.max_attempts = hosts[h].max_attempts
    BY <1>1 DEF HostType
  <2> HIDE DEF u
  <2> QED BY <1>2, <2>1, <2>2
<1>6. CASE ForceCheck(h)
  <2>1. PICK r \in Scheduled(hosts[h], Forced) : hosts' = [hosts EXCEPT ![h] = r]
    BY <1>6 DEF ForceCheck
  <2>2. SameCore(r, hosts[h])
    BY <1>1, ScheduledIs
  <2> QED BY <1>1, <1>2, <2>1, <2>2
<1>7. CASE SwitchChecks(h)
  <2> DEFINE off == [hosts[h] EXCEPT !.checks_enabled = FALSE, !.should_be_scheduled = FALSE]
             on == [hosts[h] EXCEPT !.checks_enabled = TRUE, !.next_check = "set",
                                    !.should_be_scheduled = h \notin OnDemand]
  <2>1. PICK r \in (IF hosts[h].checks_enabled THEN {off} ELSE Postponed(on, Plain)) :
          hosts' = [hosts EXCEPT ![h] = r]
    BY <1>7 DEF SwitchChecks
  <2>2. \A u \in {off, on} :
           /\ u \in HostType /\ u.current_state = hosts[h].current_state
           /\ u.state_type = hosts[h].state_type
           /\ u.current_attempt = hosts[h].current_attempt
           /\ u.max_attempts = hosts[h].max_attempts
    <3>1. /\ off \in HostType /\ on \in HostType
          /\ SameCore(off, hosts[h]) /\ SameCore(on, hosts[h])
      BY <1>1 DEF HostType, NextCheck, SameCore
    <3> HIDE DEF off, on
    <3> QED BY <3>1 DEF SameCore
  <2> HIDE DEF off, on
  <2>3. r = off \/ SameCore(r, on)
    BY <2>1, <2>2, PostponedIs
  <2> QED BY <1>2, <2>1, <2>2, <2>3
<1>8. CASE GoesBy(h)
  <2> DEFINE u == [hosts[h] EXCEPT !.next_check = "past"]
  <2>1. hosts' = [hosts EXCEPT ![h] = u]
    BY <1>8 DEF GoesBy
  <2>2. /\ u \in HostType /\ u.current_state = hosts[h].current_state
        /\ u.state_type = hosts[h].state_type /\ u.current_attempt = hosts[h].current_attempt
        /\ u.max_attempts = hosts[h].max_attempts
    BY <1>1 DEF HostType, NextCheck
  <2> HIDE DEF u
  <2> QED BY <1>2, <2>1, <2>2
<1> QED BY <1>3, <1>4, <1>5, <1>6, <1>7, <1>8

\* The checks that begin.
LEMMA BeginCalm ==
    ASSUME config \in Configs, Sound(hosts, fails, out, calls, Cleaned), CalmInv,
           NEW h \in Host, RunScheduled(h) \/ ForkFails(h) \/ RunForService(h)
    PROVE  Steady
<1> DEFINE e == hosts[h].event
           u == [hosts[h] EXCEPT !.event = NoEvent]
           s == Started(hosts[h])
           k == Cleared(hosts[h])
           v == Started(k)
           taken == [hosts EXCEPT ![h].event = NoEvent]
<1>1. hosts \in [Host -> HostType] /\ hosts[h] \in HostType /\ Calm(hosts[h], config.soft)
  BY DEF Sound, CalmInv
<1>2. u \in HostType /\ SameCore(u, hosts[h])
  BY <1>1 DEF HostType, SameCore
<1>3. Calm(u, config.soft) /\ Stays(hosts[h], u)
  <2> HIDE DEF u
  <2> QED BY <1>1, <1>2, CalmSame
<1>4. Calm(s, config.soft) /\ Stays(hosts[h], s) /\ s \in HostType
  BY <1>1, CalmStarted, StartedIs
<1>9. k \in HostType /\ SameCore(k, hosts[h])
  BY <1>1, ClearedIs
<1>10. Calm(k, config.soft) /\ Stays(hosts[h], k)
  <2> HIDE DEF k
  <2> QED BY <1>1, <1>9, CalmSame
<1>11. Calm(v, config.soft) /\ Stays(hosts[h], v) /\ v \in HostType
  <2> HIDE DEF k
  <2> QED BY <1>9, <1>10, CalmStarted, StartedIs DEF Stays
<1>5. CASE RunScheduled(h)
  <2>1. /\ e # NoEvent
        /\ \/ hosts' = [hosts EXCEPT ![h] = Started(Cleared(@))]
           \/ \E q \in Postponed(taken[h], e) : hosts' = [taken EXCEPT ![h] = q]
    BY <1>5 DEF RunScheduled
  <2>2. e \in {Plain, Forced, Freshened}
    BY <1>1, <2>1 DEF HostType
  <2>3. taken[h] = u /\ \A q : [taken EXCEPT ![h] = q] = [hosts EXCEPT ![h] = q]
    BY <1>1
  <2>4. \/ hosts' = [hosts EXCEPT ![h] = v]
        \/ \E q \in Postponed(u, e) : hosts' = [hosts EXCEPT ![h] = q]
    BY <1>1, <2>1, <2>3
  <2> HIDE DEF u, e, taken, v
  <2>6. ASSUME NEW q \in Postponed(u, e)
        PROVE  Calm(q, config.soft) /\ Stays(hosts[h], q)
    <3>1. SameCore(q, u)
      BY <1>2, <2>2, PostponedIs
    <3> QED BY <1>3, <3>1, CalmSame DEF Stays, SameCore
  <2> QED BY <1>11, <2>4, <2>6, OneCalm
<1>6. CASE ForkFails(h)
  <2>1. PICK q \in Postponed(v, e) : hosts' = [hosts EXCEPT ![h] = q]
    BY <1>6 DEF ForkFails
  <2>2. e \in {Plain, Forced, Freshened}
    BY <1>1, <1>6 DEF ForkFails, HostType
  <2> HIDE DEF v, k
  <2>4. SameCore(q, v)
    BY <1>11, <2>2, PostponedIs
  <2>6. Calm(q, config.soft) /\ Stays(hosts[h], q)
    BY <1>11, <2>4, CalmSame DEF Stays, SameCore
  <2> QED BY <2>1, <2>6, OneCalm
<1>7. CASE RunForService(h)
  <2>1. hosts' = [hosts EXCEPT ![h] = s]
    BY <1>7 DEF RunForService
  <2> HIDE DEF s
  <2> QED BY <1>4, <2>1, OneCalm
<1> QED BY <1>5, <1>6, <1>7

\* CHANGE_MAX_HOST_CHECK_ATTEMPTS where passive results are not soft.
LEMMA ChangeMaxAttemptsCalm ==
    ASSUME config \in Configs, Sound(hosts, fails, out, calls, Cleaned), CalmInv,
           NeverBeyond, NEW h \in Host, NEW max \in 1 .. Highest, ChangeMaxAttempts(h, max)
    PROVE  Steady
<1> DEFINE k == IF /\ hosts[h].state_type = "HARD" /\ hosts[h].current_state # "UP"
                   /\ hosts[h].current_attempt > 1
                THEN max ELSE hosts[h].current_attempt
           r == [hosts[h] EXCEPT !.max_attempts = max, !.current_attempt = k]
<1>1. ~config.soft
  BY DEF ChangeMaxAttempts, Spend, NeverBeyond
<1>2. hosts \in [Host -> HostType] /\ hosts[h] \in HostType /\ Calm(hosts[h], config.soft)
  BY DEF Sound, CalmInv
<1>3. hosts' = [hosts EXCEPT ![h] = r]
  BY <1>2 DEF ChangeMaxAttempts
<1>4. /\ r.current_state = hosts[h].current_state /\ r.state_type = hosts[h].state_type
      /\ r.max_attempts = max /\ r.current_attempt = k
  <2> HIDE DEF k
  <2> QED BY <1>2 DEF HostType
<1>5. hosts[h].current_attempt \in 1 .. Highest
  BY <1>2 DEF HostType
<1> HIDE DEF r
<1>6. Calm(r, config.soft)
  BY <1>1, <1>2, <1>4, <1>5, HighestAssumption DEF Calm, CalmAs
<1> QED BY <1>3, <1>4, <1>6, OneCalm DEF Stays

LEMMA RestartCalm ==
    ASSUME config \in Configs, Sound(hosts, fails, out, calls, Cleaned), CalmInv, Restart
    PROVE  Steady
<1> DEFINE should(x) == x \notin OnDemand /\ hosts[x].checks_enabled
<1>1. PICK kept \in BOOLEAN : hosts' = [x \in Host |-> Restarted(hosts[x], should(x), kept)]
  BY DEF Restart
<1>2. hosts \in [Host -> HostType]
  BY DEF Sound
<1> HIDE DEF should
<1>3. ASSUME NEW x \in Host
      PROVE  Calm(hosts'[x], config.soft) /\ Stays(hosts[x], hosts'[x])
  <2>1. hosts[x] \in HostType
    BY <1>2
  <2>2. Resumed(Restarted(hosts[x], should(x), kept), hosts[x])
    BY <2>1, RestartedIs, Zenon
  <2>3. hosts'[x] = Restarted(hosts[x], should(x), kept)
    BY <1>1
  <2>4. Resumed(hosts'[x], hosts[x])
    BY <2>2, <2>3, Zenon
  <2>5. Calm(hosts[x], config.soft) /\ hosts[x].max_attempts \in 1 .. Highest
    BY <2>1 DEF CalmInv, HostType
  <2> QED BY <2>4, <2>5, HighestAssumption DEF Resumed, Calm, CalmAs, Stays
<1> QED BY <1>3 DEF Steady

LEMMA StepCalm ==
    ASSUME OthersOK, Sound(hosts, fails, out, calls, Cleaned), CalmInv, NeverBeyond,
           [Next]_vars
    PROVE  Steady
<1>0. config \in Configs
  BY DEF OthersOK
<1>1. ASSUME UNCHANGED hosts PROVE Steady
  BY <1>1 DEF Steady, CalmInv, Stays
<1>2. ASSUME NEW h \in Host,
             \/ RunScheduled(h) \/ ForkFails(h) \/ RunForService(h) \/ CheckOnDemand(h)
             \/ GoesBy(h) \/ Orphan(h) \/ Freshen(h) \/ Expire(h) \/ Nature(h)
             \/ ForceCheck(h) \/ SwitchChecks(h)
      PROVE  Steady
  <2>1. CASE CheckOnDemand(h)
    BY <1>0, <2>1, SyncCalm DEF CheckOnDemand
  <2>2. CASE Nature(h)
    BY <1>1, <2>2 DEF Nature
  <2>3. CASE RunScheduled(h) \/ ForkFails(h) \/ RunForService(h)
    BY <1>0, <2>3, BeginCalm
  <2>4. CASE \/ GoesBy(h) \/ Orphan(h) \/ Freshen(h) \/ Expire(h)
             \/ ForceCheck(h) \/ SwitchChecks(h)
    BY <1>0, <2>4, ScheduleCalm
  <2> QED BY <1>2, <2>1, <2>2, <2>3, <2>4
<1>3. ASSUME NEW h \in Host, NEW max \in 1 .. Highest, ChangeMaxAttempts(h, max)
      PROVE  Steady
  BY <1>0, <1>3, ChangeMaxAttemptsCalm
<1>4. ASSUME NEW h \in Host, NEW new \in HostState, PassiveResult(h, new)
      PROVE  Steady
  BY <1>0, <1>4, PassiveCalm
<1>5. ASSUME NEW c \in BagToSet(out), Report(c) \/ Delay(c)
      PROVE  Steady
  <2>1. CASE Report(c)
    BY <1>0, <2>1, ReportCalm
  <2>2. CASE Delay(c)
    BY <1>1, <2>2 DEF Delay
  <2> QED BY <1>5, <2>1, <2>2
<1>6. CASE AskParent
  <2> DEFINE f == Head(calls)
             p == Head(f.rest)
             stack == <<[f EXCEPT !.rest = Tail(f.rest), !.asked = TRUE]>> \o Tail(calls)
  <2>1. UNCHANGED hosts \/ (calls # <<>> /\ f.rest # <<>> /\ Sync(p, stack))
    BY <1>6 DEF AskParent
  <2>2. ASSUME calls # <<>>, f.rest # <<>> PROVE p \in Host
    <3>1. calls \in Seq(CallType)
      BY DEF Sound
    <3>2. f \in CallType
      BY <2>2, <3>1
    <3> HIDE DEF f
    <3>3. f.rest \in Seq(Host)
      BY <3>2 DEF CallType
    <3> QED BY <2>2, <3>3
  <2> HIDE DEF p, stack, f
  <2> QED BY <1>0, <1>1, <2>1, <2>2, SyncCalm
<1>7. CASE Settle
  BY <1>0, <1>7, SettleCalm
<1>8. CASE Restart
  BY <1>0, <1>8, RestartCalm
<1>9. CASE UNCHANGED vars
  BY <1>1, <1>9 DEF vars
<1> QED BY <1>2, <1>3, <1>4, <1>5, <1>6, <1>7, <1>8, <1>9 DEF Next

LEMMA InitCalm == Init => CalmInv
<1> SUFFICES ASSUME Init, NEW h \in Host PROVE Calm(hosts[h], config.soft)
  BY DEF CalmInv
<1>1. config.attempts[h] \in 1 .. Highest
  BY ConfigsAssumption DEF Init
<1>2. /\ hosts[h].current_state = "UP" /\ hosts[h].current_attempt = 1
      /\ hosts[h].max_attempts = config.attempts[h]
  BY DEF Init
<1> QED BY <1>1, <1>2, HighestAssumption DEF Calm, CalmAs

\* A hard problem does not become a soft one, as long as soft passive results and changes of
\* the number of attempts do not meet: then a host can be at an attempt beyond the last, and
\* a hard problem is only recognized at the last one.
THEOREM HardStays == NeverBeyond => (Spec => HardProblemStaysHard)
<1> SUFFICES ASSUME NeverBeyond PROVE Spec => HardProblemStaysHard
  OBVIOUS
<1>1. Init => FInv
  BY InitInv, InitCalm DEF FInv
<1>2. FInv /\ [Next]_vars => FInv' /\ Steady
  <2> SUFFICES ASSUME FInv, [Next]_vars PROVE FInv' /\ Steady
    OBVIOUS
  <2>1. OthersOK /\ Sound(hosts, fails, out, calls, Cleaned) /\ CalmInv /\ IInv
    BY InvIs DEF FInv, IInv
  <2>2. Steady
    BY <2>1, StepCalm
  <2>3. IInv'
    BY <2>1, StepInv
  <2>4. config' = config
    BY <2>1, StepKept DEF Kept
  <2>5. CalmInv'
    BY <2>2, <2>4 DEF CalmInv, Steady
  <2> QED BY <2>2, <2>3, <2>5 DEF FInv
<1>3. Steady => \A h \in Host : hosts[h].state_type = "HARD" /\ hosts[h].current_state # "UP"
                  => hosts'[h].state_type = "HARD" \/ hosts'[h].current_state = "UP"
  BY DEF Steady, Stays
<1> QED BY <1>1, <1>2, <1>3, PTL DEF Spec, HardProblemStaysHard
=================================================================================
